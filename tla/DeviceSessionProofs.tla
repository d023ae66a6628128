-------------------------- MODULE DeviceSessionProofs --------------------------
(***************************************************************************)
(* DeviceSession's properties for any number of Home Screen apps, tabs,    *)
(* calls, grants, rotations and mishaps.  IInv is the inductive invariant: *)
(*                                                                         *)
(*   JtiInv      a jti in force belongs to one session and was never       *)
(*               spent; a receipt names the token it replaced              *)
(*   TokenInv    a token of the jti in force has the generation in force,  *)
(*               unless its session was ended, which raised the generation *)
(*   CallInv     what a call holds on to, by its kind                      *)
(*   GrantInv    the grant pointed to was asked for by the session that    *)
(*               is signed in                                              *)
(*   OverInv     tokens ended are older than the ones in force             *)
(*   RenewInv    what is on its way to a store, or refused to it           *)
(***************************************************************************)
EXTENDS DeviceSession, TLAPS

Unspent(j) == \A i \in 1 .. minted : parent[i] # j
Replacing == {"select", "redeem", "register"}
\* While this holds, the primary generation never falls.
Counts == ~managed \/ device.status = "active"

JtiInv ==
  /\ \A s \in Sessions :
       /\ sess[s].jti <= minted
       /\ sess[s].st = "active" => sess[s].jti # 0
       /\ sess[s].jti # 0 => Unspent(sess[s].jti)
       /\ sess[s].receipt # NoReceipt =>
            /\ sess[s].receipt.next.jti \in 1 .. minted
            /\ sess[s].receipt.input.jti # 0
            /\ parent[sess[s].receipt.next.jti] = sess[s].receipt.input.jti
            /\ sess[s].receipt.attempt = sess[s].receipt.input.jti
  /\ \A s, t \in Sessions : s # t /\ sess[s].jti = sess[t].jti => sess[s].jti = 0
  /\ \A i \in 1 .. minted : parent[i] < i
  /\ \A i, j \in 1 .. minted : parent[i] = parent[j] /\ parent[i] # 0 => i = j

\* A token of session s, wherever it is kept.
Sound(s, tok) ==
  /\ tok.jti <= minted
  /\ tok.jti # 0 => \A t \in Sessions \ {s} : sess[t].jti # tok.jti
  /\ tok # NoToken => tok.jti # 0
  /\ device.status = "active" /\ tok.jti # 0 /\ tok.jti = sess[s].jti
       => IF sess[s].st = "active" THEN tok.ver = sess[s].gen ELSE tok.ver < sess[s].gen

TokenInv ==
  /\ \A s \in Sessions : Sound(s, store[s]) /\ Sound(s, sess[s].receipt.next)
  /\ \A c \in Calls : Sound(calls[c].s, calls[c].tok) /\ Sound(calls[c].s, calls[c].new)

CallOK(call) ==
  /\ call.kind = "refresh" =>
       /\ call.pc \in {"read", "write", "reread", "answered"}
       /\ call.tok # NoToken /\ call.attempt = call.tok.jti
       /\ call.new # NoToken => parent[call.new.jti] = call.tok.jti
  /\ call.new # NoToken => call.pc = "answered"
  /\ call.kind \in Replacing /\ call.pc = "answered" =>
       call.new # NoToken /\ parent[call.new.jti] = 0
  /\ call.kind = "register" => ~managed /\ call.s = Primary
  /\ call.kind = "redeem" =>
       /\ call.grant # NoGrant /\ call.s # Primary
       /\ call.pc = "write" => call.seen.map[call.s].st = "none"
  /\ call.kind = "select" /\ call.pc = "write" /\ call.s = Primary /\ Counts =>
       /\ call.seen.gen <= sess[Primary].gen
       /\ call.seen.gen = sess[Primary].gen => call.seen.st = sess[Primary].st
  /\ call.kind = "issue" /\ call.pc = "write" /\ Counts =>
       /\ call.seen.gen <= sess[Primary].gen
       /\ call.seen.gen = sess[Primary].gen => sess[Primary].st = "active"
CallInv == \A c \in Calls : CallOK(calls[c])

GrantInv ==
  /\ Primary \notin late /\ sess[Primary].st # "none" /\ device.site <= site
  /\ device.status = "active" /\ device.grant # NoGrant
       => sess[Primary].st = "active" /\ grants[device.grant].start = sess[Primary].start
  /\ \A s \in Slots : origin[s] # NoGrant => grants[origin[s]].st = "redeemed"

OverInv ==
  \A s \in Sessions :
    sess[s].st = "active"
      => /\ sess[s].jti > over[s]
         /\ sess[s].receipt.next.jti = sess[s].jti => sess[s].receipt.input.jti > over[s]

\* The token is in force, if time and deliberate acts did not end it.
Usable(s, tok) == Live /\ ~Ended(s, tok) => Current(s, tok)
\* Nobody has presented the token yet.
Unused(s, tok) ==
  /\ Unspent(tok.jti)
  /\ \A c \in Calls : calls[c].s = s => calls[c].tok # tok

\* A container that keeps a spent token keeps the attempt that recovers the next.
ReceiptKept(s) ==
  store[s] # NoToken /\ sess[s].receipt.input = store[s] =>
    /\ attempt[s] = store[s].jti
    /\ \A c \in Calls : calls[c].s = s => calls[c].tok # sess[s].receipt.next
\* A refresh of what the store still holds, and its answer.
Refreshing(call) ==
  call.kind = "refresh" /\ store[call.s] = call.tok =>
    /\ attempt[call.s] = call.attempt
    /\ call.pc = "answered" =>
         IF call.new = NoToken THEN ~Live \/ Ended(call.s, call.tok)
         ELSE Usable(call.s, call.new) /\ Unused(call.s, call.new)
\* A token that will replace whatever the store holds.
Arriving(c) ==
  calls[c].kind \in Replacing /\ calls[c].pc = "answered" =>
    /\ Usable(calls[c].s, calls[c].new) /\ Unused(calls[c].s, calls[c].new)
    /\ store[calls[c].s] # calls[c].new
    /\ \A d \in Calls \ {c} : calls[d].new.jti # calls[c].new.jti

RenewInv ==
  /\ Renewable
  /\ \A s \in Sessions : ReceiptKept(s)
  /\ \A c \in Calls : Refreshing(calls[c]) /\ Arriving(c)

IInv == TypeOK /\ JtiInv /\ TokenInv /\ CallInv /\ GrantInv /\ OverInv /\ RenewInv

-----------------------------------------------------------------------------
(* Types of what is written *)

LEMMA EmptyTypes ==
  /\ NoToken \in Token /\ NoSession \in SessionType /\ NoGlance \in GlanceType
  /\ NoCall \in CallType
BY BoundsAssumption DEF NoToken, Token, NoReceipt, NoSession, SessionType, NoGlance, GlanceType, NoCall,
   CallType, Sessions

LEMMA GlanceTyped ==
  ASSUME TypeOK, NEW s \in Sessions
  PROVE  Glance(s) \in GlanceType
<1>1. sess \in [Sessions -> SessionType] /\ Primary \in Sessions /\ Slots \subseteq Sessions
  BY DEF TypeOK, Sessions
<1>2. [t \in Slots |-> sess[t]] \in [Slots -> SessionType]
  BY <1>1
<1>3. NoGlance.st = "none" /\ NoGlance.start = 0 /\ NoGlance.map \in [Slots -> SessionType]
  BY EmptyTypes DEF NoGlance
<1>4. sess[s].st \in {"none", "active", "signed_out"} /\ sess[s].gen \in Nat /\ sess[s].start \in Nat
      /\ sess[Primary].gen \in Nat
  BY <1>1 DEF SessionType
<1> QED BY <1>2, <1>3, <1>4, EmptyTypes DEF Glance, GlanceType

-----------------------------------------------------------------------------
(* Steps that only a call notices *)

\* What such a step may leave in the call.
Allowed(c, call) ==
  /\ call \in CallType /\ CallOK(call) /\ Refreshing(call)
  /\ Sound(call.s, call.new)
  /\ call.tok = NoToken \/ (call.s = calls[c].s /\ call.tok = calls[c].tok)
  /\ call.new # NoToken => call.kind = "refresh"
  /\ ~(call.kind \in Replacing /\ call.pc = "answered")

QuietStep(c) ==
  /\ \E call : calls' = [calls EXCEPT ![c] = call] /\ Allowed(c, call)
  /\ mishaps' \in 0 .. MaxMishaps
  /\ UNCHANGED <<server, client, minted, history>>

LEMMA NothingLeft == ASSUME IInv, NEW c \in Calls PROVE Allowed(c, NoCall)
<1>1. NoCall.kind = "none" /\ NoCall.tok = NoToken /\ NoCall.new = NoToken
  BY DEF NoCall
<1>2. Sound(NoCall.s, NoCall.new)
  BY DEF Sound, NoCall, NoToken, IInv, TypeOK
<1>3. CallOK(NoCall) /\ Refreshing(NoCall)
  BY <1>1 DEF CallOK, Refreshing, Replacing
<1> QED BY <1>1, <1>2, <1>3, EmptyTypes DEF Allowed, Replacing

LEMMA FailIsQuiet ==
  ASSUME IInv, NEW c \in Calls, Fail(c), UNCHANGED <<server, client, minted, history>>,
         mishaps' = mishaps \/ Mishap
  PROVE  QuietStep(c)
<1>0. mishaps \in 0 .. MaxMishaps /\ MaxMishaps \in Nat
  BY BoundsAssumption DEF IInv, TypeOK
<1>1. mishaps' \in 0 .. MaxMishaps
  BY <1>0 DEF Mishap
<1> QED BY <1>1, NothingLeft DEF Fail, QuietStep

\* What is known of a call.
LEMMA CallFacts ==
  ASSUME IInv, NEW c \in Calls
  PROVE  /\ calls[c] \in CallType /\ CallOK(calls[c]) /\ Refreshing(calls[c])
         /\ Sound(calls[c].s, calls[c].tok) /\ Sound(calls[c].s, calls[c].new)
         /\ calls[c].pc # "answered" => calls[c].new = NoToken
BY DEF IInv, TypeOK, CallInv, RenewInv, TokenInv, CallOK

\* A refresh moves on to its write, its next read or its next try.
LEMMA RefreshMoves ==
  ASSUME IInv, NEW c \in Calls, calls[c].kind = "refresh", calls[c].pc # "answered",
         UNCHANGED <<server, client, minted, history>>, mishaps' = mishaps \/ Mishap,
         NEW pc \in {"write", "reread"}, NEW tries \in 0 .. RereadLimit,
         calls' = [calls EXCEPT ![c] = [calls[c] EXCEPT !.pc = pc, !.tries = tries]]
  PROVE  QuietStep(c)
<1>0. mishaps \in 0 .. MaxMishaps /\ MaxMishaps \in Nat
  BY BoundsAssumption DEF IInv, TypeOK
<1>1. mishaps' \in 0 .. MaxMishaps
  BY <1>0 DEF Mishap
<1> DEFINE call == [calls[c] EXCEPT !.pc = pc, !.tries = tries]
<1>2. /\ call.kind = "refresh" /\ call.pc = pc /\ call.s = calls[c].s /\ call.tok = calls[c].tok
      /\ call.new = NoToken /\ call.attempt = calls[c].attempt /\ call \in CallType
  <2>1. PICK old \in CallType : old = calls[c] /\ old.new = NoToken
    BY CallFacts
  <2>2. call = [old EXCEPT !.pc = pc, !.tries = tries]
    BY <2>1
  <2>3. /\ call.kind = old.kind /\ call.pc = pc /\ call.s = old.s /\ call.tok = old.tok
        /\ call.new = old.new /\ call.attempt = old.attempt /\ call \in CallType
    BY <2>2 DEF CallType
  <2> QED BY <2>1, <2>3
<1> HIDE DEF call
<1>3. Allowed(c, call)
  BY <1>2, CallFacts DEF Allowed, CallOK, Refreshing, Replacing
<1> QED BY <1>1, <1>3 DEF QuietStep, call

\* A refresh is answered.
LEMMA RefreshReplies ==
  ASSUME IInv, NEW c \in Calls, calls[c].kind = "refresh", calls[c].pc # "answered",
         UNCHANGED <<server, client, minted, history>>, mishaps' = mishaps,
         NEW tok \in Token, Reply(c, tok), Sound(calls[c].s, tok),
         tok # NoToken => parent[tok.jti] = calls[c].tok.jti,
         store[calls[c].s] = calls[c].tok =>
           IF tok = NoToken THEN ~Live \/ Ended(calls[c].s, calls[c].tok)
           ELSE Usable(calls[c].s, tok) /\ Unused(calls[c].s, tok)
  PROVE  QuietStep(c)
<1>1. mishaps' \in 0 .. MaxMishaps
  BY DEF IInv, TypeOK
<1> DEFINE call == [calls[c] EXCEPT !.pc = "answered", !.new = tok]
<1>2. /\ call.kind = "refresh" /\ call.pc = "answered" /\ call.s = calls[c].s
      /\ call.tok = calls[c].tok
      /\ call.new = tok /\ call.attempt = calls[c].attempt /\ call \in CallType
  BY CallFacts DEF CallType
<1>3. Allowed(c, call)
  BY <1>2, CallFacts DEF Allowed, CallOK, Refreshing, Replacing
<1>4. calls' = [calls EXCEPT ![c] = call]
  BY DEF Reply
<1> QED BY <1>1, <1>3, <1>4 DEF QuietStep

\* A receipt names two tokens, of which the first was spent for the second.
LEMMA ReceiptFacts ==
  ASSUME IInv, NEW s \in Sessions, sess[s].receipt.input # NoToken
  PROVE  /\ sess[s].receipt.next # NoToken /\ sess[s].receipt.next.jti \in 1 .. minted
         /\ parent[sess[s].receipt.next.jti] = sess[s].receipt.input.jti
         /\ sess[s].receipt.next # sess[s].receipt.input
         /\ sess[s].receipt.input.jti # 0
         /\ sess[s].receipt.attempt = sess[s].receipt.input.jti
<1>1. /\ sess[s].receipt.next.jti \in 1 .. minted
      /\ parent[sess[s].receipt.next.jti] = sess[s].receipt.input.jti
      /\ sess[s].receipt.input.jti # 0
      /\ sess[s].receipt.attempt = sess[s].receipt.input.jti
  BY DEF IInv, JtiInv, NoReceipt
<1>2. parent[sess[s].receipt.next.jti] < sess[s].receipt.next.jti
  BY <1>1 DEF IInv, JtiInv
<1>3. minted \in Nat /\ NoToken.jti = 0
  BY DEF NoToken, IInv, TypeOK
<1> QED BY <1>1, <1>2, <1>3

\* A token in force is not spent, and it is not the one its receipt replaced.
LEMMA CurrentIsUnspent ==
  ASSUME IInv, NEW s \in Sessions, NEW tok \in Token, Current(s, tok)
  PROVE  tok.jti # 0 /\ Unspent(tok.jti) /\ sess[s].receipt.attempt # tok.jti
<1>0. sess[s].receipt = NoReceipt => sess[s].receipt.attempt = 0
  BY DEF IInv, TypeOK, NoReceipt
<1>1. tok.jti # 0 /\ Unspent(tok.jti)
  BY DEF Current, Matches, IInv, JtiInv
<1>2. CASE sess[s].receipt # NoReceipt
  <2>1. /\ sess[s].receipt.next.jti \in 1 .. minted
        /\ parent[sess[s].receipt.next.jti] = sess[s].receipt.attempt
    BY <1>2 DEF IInv, JtiInv
  <2> QED BY <1>1, <2>1 DEF Unspent
<1> QED BY <1>0, <1>1, <1>2

LEMMA RecoveryIsQuiet ==
  ASSUME IInv, NEW c \in Calls, calls[c].kind = "refresh", calls[c].pc # "answered",
         ~Current(calls[c].s, calls[c].tok), RecoverOrRefuse(c),
         UNCHANGED <<server, client, minted, history>>, mishaps' = mishaps
  PROVE  QuietStep(c)
<1> DEFINE s == calls[c].s
           tok == calls[c].tok
           next == sess[s].receipt.next
<1>0. /\ calls[c] \in CallType /\ s \in Sessions /\ tok \in Token /\ tok # NoToken
      /\ calls[c].attempt = tok.jti /\ sess[s] \in SessionType /\ next \in Token
      /\ store[s] = tok => attempt[s] = calls[c].attempt
  BY CallFacts DEF CallType, CallOK, Refreshing, IInv, TypeOK, SessionType
<1>1. CASE Live /\ Recoverable(s, tok, calls[c].attempt)
  <2>1. Current(s, next) /\ sess[s].receipt.input = tok
    BY <1>1 DEF Recoverable
  <2>2. Reply(c, next)
    BY <1>1 DEF RecoverOrRefuse
  <2>3. sess[s].receipt # NoReceipt
    BY <1>0, <2>1 DEF NoReceipt
  <2>4. Sound(s, next) /\ parent[next.jti] = tok.jti
    BY <1>0, <2>1, <2>3 DEF IInv, TokenInv, JtiInv
  <2>5. Usable(s, next)
    BY <2>1 DEF Usable
  <2>6. store[s] = tok => Unused(s, next)
    BY <1>0, <2>1, CurrentIsUnspent DEF Unused, IInv, RenewInv, ReceiptKept
  <2>7. next # NoToken
    BY <1>0, <2>1, CurrentIsUnspent DEF NoToken
  <2> QED BY <1>0, <2>2, <2>4, <2>5, <2>6, <2>7, RefreshReplies
<1>2. CASE ~(Live /\ Recoverable(s, tok, calls[c].attempt))
  <2>1. Reply(c, NoToken)
    BY <1>2 DEF RecoverOrRefuse
  <2>2. store[s] = tok => ~Live \/ Ended(s, tok)
    BY <1>0, <1>2 DEF IInv, RenewInv, Renewable
  <2>3. Sound(s, NoToken)
    BY <1>0 DEF Sound, NoToken, IInv, TypeOK
  <2> QED BY <1>0, <2>1, <2>2, <2>3, RefreshReplies, EmptyTypes
<1> QED BY <1>1, <1>2

LEMMA RefreshReadQuiet ==
  ASSUME IInv, NEW c \in Calls, RefreshRead(c)
  PROVE  QuietStep(c)
<1>0. /\ calls[c].kind = "refresh" /\ calls[c].pc = "read" /\ mishaps' = mishaps
      /\ UNCHANGED <<server, client, minted, history>>
      /\ calls[c] \in CallType /\ calls[c].s \in Sessions /\ calls[c].tok \in Token
      /\ calls[c].attempt = calls[c].tok.jti /\ minted \in Nat
  BY CallFacts DEF RefreshRead, At, CallType, CallOK, IInv, TypeOK
<1>1. Sound(calls[c].s, NoToken)
  BY <1>0 DEF Sound, NoToken
<1>2. CASE Reply(c, NoToken) /\ ~Live
  BY <1>0, <1>1, <1>2, EmptyTypes, RefreshReplies
<1>3. CASE Reply(c, NoToken) /\ Current(calls[c].s, calls[c].tok)
           /\ sess[calls[c].s].receipt.attempt = calls[c].attempt
  BY <1>0, <1>3, CurrentIsUnspent
<1>4. CASE RecoverOrRefuse(c) /\ ~Current(calls[c].s, calls[c].tok)
  BY <1>0, <1>4, RecoveryIsQuiet
<1>5. CASE Goto(c, "write")
  <2>1. calls' = [calls EXCEPT ![c] = [calls[c] EXCEPT !.pc = "write", !.tries = calls[c].tries]]
    BY <1>0, <1>5 DEF Goto, CallType, IInv, TypeOK
  <2> QED BY <1>0, <2>1, RefreshMoves DEF CallType
<1> QED BY <1>2, <1>3, <1>4, <1>5 DEF RefreshRead

LEMMA RefreshCancelledQuiet ==
  ASSUME IInv, NEW c \in Calls, RefreshCancelled(c)
  PROVE  QuietStep(c)
<1>0. /\ calls[c].kind = "refresh" /\ calls[c].pc = "write" /\ (mishaps' = mishaps \/ Mishap)
      /\ UNCHANGED <<server, client, minted, history>> /\ Goto(c, "reread")
      /\ calls[c] \in CallType
  BY CallFacts DEF RefreshCancelled, At
<1>1. calls' = [calls EXCEPT ![c] = [calls[c] EXCEPT !.pc = "reread", !.tries = calls[c].tries]]
  BY <1>0 DEF Goto, CallType, IInv, TypeOK
<1> QED BY <1>0, <1>1, RefreshMoves DEF CallType

LEMMA RefreshRereadQuiet ==
  ASSUME IInv, NEW c \in Calls, RefreshReread(c)
  PROVE  QuietStep(c)
<1>0. /\ calls[c].kind = "refresh" /\ calls[c].pc = "reread" /\ mishaps' = mishaps
      /\ UNCHANGED <<server, client, minted, history>>
      /\ calls[c] \in CallType /\ calls[c].s \in Sessions /\ calls[c].tok \in Token
      /\ minted \in Nat
  BY CallFacts DEF RefreshReread, At, CallType, IInv, TypeOK
<1>1. Sound(calls[c].s, NoToken)
  BY <1>0 DEF Sound, NoToken
<1>2. CASE Reply(c, NoToken) /\ ~Live
  BY <1>0, <1>1, <1>2, EmptyTypes, RefreshReplies
<1>3. CASE RecoverOrRefuse(c) /\ ~Current(calls[c].s, calls[c].tok)
  BY <1>0, <1>3, RecoveryIsQuiet
<1>4. CASE Fail(c)
  BY <1>0, <1>4, FailIsQuiet
<1>5. CASE ~(calls[c].tries + 1 >= RereadLimit) /\ calls' = [calls EXCEPT ![c].tries = @ + 1]
  <2>1. calls[c].tries + 1 \in 0 .. RereadLimit
    BY <1>0, <1>5, BoundsAssumption DEF CallType
  <2>2. calls' = [calls EXCEPT ![c] = [calls[c] EXCEPT !.pc = "reread", !.tries = calls[c].tries + 1]]
    <3>1. PICK old \in CallType : old = calls[c] /\ old.pc = "reread"
      BY <1>0
    <3>2. calls' = [calls EXCEPT ![c] = [old EXCEPT !.tries = old.tries + 1]]
      BY <1>5, <3>1
    <3>3. [old EXCEPT !.tries = old.tries + 1] = [old EXCEPT !.pc = "reread", !.tries = old.tries + 1]
      BY <3>1 DEF CallType
    <3> QED BY <3>1, <3>2, <3>3
  <2> QED BY <1>0, <2>1, <2>2, RefreshMoves
<1> QED BY <1>2, <1>3, <1>4, <1>5 DEF RefreshReread

LEMMA LookIsQuiet ==
  ASSUME IInv, NEW c \in Calls, calls[c].kind \in {"select", "signout"}, calls[c].pc # "answered",
         UNCHANGED <<server, client, minted, history>>, mishaps' = mishaps, Look(c, "write")
  PROVE  QuietStep(c)
<1> DEFINE call == [calls[c] EXCEPT !.pc = "write", !.seen = Glance(calls[c].s)]
<1>0. /\ calls[c] \in CallType /\ calls[c].s \in Sessions /\ Glance(calls[c].s) \in GlanceType
      /\ mishaps' \in 0 .. MaxMishaps /\ calls' = [calls EXCEPT ![c] = call]
      /\ sess \in [Sessions -> SessionType] /\ Primary \in Sessions /\ sess[Primary].st # "none"
  BY CallFacts, GlanceTyped DEF CallType, IInv, TypeOK, Look, GrantInv, Sessions
<1>1. /\ call \in CallType /\ call.kind = calls[c].kind /\ call.pc = "write" /\ call.s = calls[c].s
      /\ call.tok = calls[c].tok /\ call.new = NoToken /\ call.seen = Glance(call.s)
      /\ Sound(call.s, call.new)
  BY <1>0, CallFacts DEF CallType
<1>2. call.s = Primary => call.seen.gen = sess[Primary].gen /\ call.seen.st = sess[Primary].st
  BY <1>0, <1>1 DEF Glance, NoGlance
<1>3. CallOK(call)
  BY <1>0, <1>1, <1>2 DEF CallOK, Replacing, SessionType
<1>4. Refreshing(call)
  BY <1>1 DEF Refreshing
<1>5. Allowed(c, call)
  BY <1>1, <1>3, <1>4 DEF Allowed, Replacing
<1> QED BY <1>0, <1>5 DEF QuietStep

\* A call begins with what it read, and no token in hand.
LEMMA BeginIsQuiet ==
  ASSUME IInv, NEW c \in Calls, NEW call \in CallType, Begin(c, call), CallOK(call),
         call.kind # "refresh", call.pc # "answered", call.tok = NoToken, call.new = NoToken,
         UNCHANGED <<server, client, minted, history>>, mishaps' = mishaps
  PROVE  QuietStep(c)
<1>1. Sound(call.s, call.new)
  BY DEF Sound, NoToken, IInv, TypeOK
<1>2. Allowed(c, call)
  BY <1>1 DEF Allowed, Refreshing
<1> QED BY <1>2 DEF QuietStep, Begin, IInv, TypeOK

LEMMA IssueReadQuiet ==
  ASSUME IInv, NEW c \in Calls, IssueRead(c)
  PROVE  QuietStep(c)
<1> DEFINE call == [NoCall EXCEPT !.kind = "issue", !.pc = "write", !.seen = Glance(Primary),
                                  !.grant = device.grant]
<1>0. /\ Primary \in Sessions /\ device.grant \in Grants \union {NoGrant}
      /\ sess \in [Sessions -> SessionType] /\ sess[Primary].st = "active" /\ NoCall \in CallType
  BY EmptyTypes DEF IInv, TypeOK, Sessions, IssueRead, Matches
<1>a. Glance(Primary) \in GlanceType
  BY <1>0, GlanceTyped DEF IInv
<1>b. call \in CallType
  BY <1>0, <1>a DEF CallType
<1>1. /\ call \in CallType /\ call.kind = "issue" /\ call.pc = "write" /\ call.tok = NoToken
      /\ call.new = NoToken /\ call.seen = Glance(Primary)
  BY <1>b DEF NoCall
<1>c. Glance(Primary).gen = sess[Primary].gen
  BY <1>0 DEF Glance, NoGlance
<1> HIDE DEF call
<1>2. call.seen.gen = sess[Primary].gen
  BY <1>1, <1>c
<1>3. CallOK(call)
  BY <1>0, <1>1, <1>2 DEF CallOK, Replacing, SessionType
<1> QED BY <1>1, <1>3, BeginIsQuiet DEF IssueRead, call

LEMMA RegisterReadQuiet ==
  ASSUME IInv, NEW c \in Calls, RegisterRead(c)
  PROVE  QuietStep(c)
<1> DEFINE call == [NoCall EXCEPT !.kind = "register", !.pc = "write", !.seen = Glance(Primary),
                                  !.site = site]
<1>0. /\ Primary \in Sessions /\ Glance(Primary) \in GlanceType /\ NoCall \in CallType /\ site \in Nat
      /\ ~managed
  BY GlanceTyped, EmptyTypes DEF IInv, TypeOK, Sessions, RegisterRead
<1>1. /\ call \in CallType /\ call.kind = "register" /\ call.pc = "write" /\ call.tok = NoToken
      /\ call.new = NoToken /\ call.s = Primary
  BY <1>0 DEF CallType, NoCall
<1>2. CallOK(call)
  BY <1>0, <1>1 DEF CallOK, Replacing
<1> QED BY <1>1, <1>2, BeginIsQuiet DEF RegisterRead

LEMMA SelectSourceQuiet ==
  ASSUME IInv, NEW c \in Calls, NEW s \in Sessions, SelectSource(c, s)
  PROVE  QuietStep(c)
<1> DEFINE call == [NoCall EXCEPT !.kind = "select", !.pc = "resolve", !.s = s]
<1>1. /\ call \in CallType /\ call.kind = "select" /\ call.pc = "resolve" /\ call.tok = NoToken
      /\ call.new = NoToken
  BY EmptyTypes DEF CallType, NoCall
<1>2. CallOK(call)
  BY <1>1 DEF CallOK, Replacing
<1> QED BY <1>1, <1>2, BeginIsQuiet DEF SelectSource

LEMMA RedeemReadQuiet ==
  ASSUME IInv, NEW c \in Calls, NEW s \in Slots, NEW g \in Grants, RedeemRead(c, s, g)
  PROVE  QuietStep(c)
<1> DEFINE call == [NoCall EXCEPT !.kind = "redeem", !.pc = "write", !.s = s, !.grant = g,
                                  !.seen = Glance(s)]
<1>0. /\ s \in Sessions /\ s # Primary /\ Glance(s) \in GlanceType /\ NoCall \in CallType
      /\ g # NoGrant
  BY GlanceTyped, EmptyTypes, NamesAssumption DEF IInv, Sessions
<1>1. /\ call \in CallType /\ call.kind = "redeem" /\ call.pc = "write" /\ call.tok = NoToken
      /\ call.new = NoToken /\ call.s = s /\ call.grant = g /\ call.seen = Glance(s)
  BY <1>0 DEF CallType, NoCall
<1>2. Glance(s).map[s].st = "none"
  <2>1. CASE sess[s].st = "none"
    <3>1. Glance(s).map = [t \in Slots |-> sess[t]]
      BY <2>1 DEF Glance, NoGlance
    <3> QED BY <2>1, <3>1
  <2>2. CASE sess[s].st # "none"
    <3>1. Glance(s).map = [t \in Slots |-> NoSession]
      BY <2>2 DEF Glance, NoGlance
    <3> QED BY <3>1 DEF NoSession
  <2> QED BY <2>1, <2>2
<1>3. CallOK(call)
  BY <1>0, <1>1, <1>2 DEF CallOK, Replacing
<1> QED BY <1>1, <1>3, BeginIsQuiet DEF RedeemRead

QuietAction(c) ==
  \/ RefreshRead(c) \/ RefreshCancelled(c) \/ RefreshReread(c) \/ SelectTarget(c)
  \/ SelectConflict(c) \/ SignOutRead(c) \/ RedeemRefused(c) \/ RegisterConflict(c) \/ Lose(c)
  \/ IssueRead(c) \/ RegisterRead(c) \/ (\E s \in Sessions : SelectSource(c, s))
  \/ (\E s \in Slots, g \in Grants : RedeemRead(c, s, g))

LEMMA QuietActions ==
  ASSUME IInv, NEW c \in Calls, QuietAction(c)
  PROVE  QuietStep(c)
<1>1. CASE SelectTarget(c)
  BY <1>1, LookIsQuiet, FailIsQuiet DEF SelectTarget, At
<1>2. CASE SignOutRead(c)
  BY <1>2, LookIsQuiet, FailIsQuiet DEF SignOutRead, At
<1>3. CASE SelectConflict(c) \/ RedeemRefused(c) \/ RegisterConflict(c) \/ Lose(c)
  BY <1>3, FailIsQuiet DEF SelectConflict, RedeemRefused, RegisterConflict, Lose
<1> QED BY <1>1, <1>2, <1>3, RefreshReadQuiet, RefreshCancelledQuiet, RefreshRereadQuiet,
           IssueReadQuiet, RegisterReadQuiet, SelectSourceQuiet, RedeemReadQuiet DEF QuietAction

-----------------------------------------------------------------------------
(* Where the row and the history stay as they are *)

\* Then what depends on them alone stays as it is.
LEMMA ClientFrame ==
  ASSUME IInv, UNCHANGED <<server, minted, history>>
  PROVE  /\ sess' = sess /\ device' = device /\ managed' = managed /\ site' = site /\ late' = late
         /\ stale' = stale /\ grants' = grants /\ minted' = minted /\ parent' = parent
         /\ over' = over /\ faded' = faded /\ origin' = origin
         /\ JtiInv' /\ GrantInv' /\ OverInv'
         /\ \A s \in Sessions, tok \in Token :
              /\ Sound(s, tok)' = Sound(s, tok) /\ Usable(s, tok)' = Usable(s, tok)
              /\ Current(s, tok)' = Current(s, tok) /\ Ended(s, tok)' = Ended(s, tok)
         /\ Live' = Live
<1>1. /\ sess' = sess /\ device' = device /\ managed' = managed /\ site' = site /\ late' = late
      /\ stale' = stale /\ grants' = grants /\ minted' = minted /\ parent' = parent
      /\ over' = over /\ faded' = faded /\ origin' = origin
  BY DEF server, history
<1>2. JtiInv' /\ GrantInv' /\ OverInv'
  BY <1>1 DEF IInv, JtiInv, GrantInv, OverInv, Unspent
<1> QED BY <1>1, <1>2 DEF Sound, Usable, Current, Matches, Ended, Live

\* And so do their types.
LEMMA ClientTypes ==
  ASSUME IInv, UNCHANGED <<server, minted, history>>, mishaps' = mishaps, leaving' \subseteq Sessions,
         store' \in [Sessions -> Token], attempt' \in [Sessions -> Nat], calls' \in [Calls -> CallType]
  PROVE  TypeOK'
BY ClientFrame DEF IInv, TypeOK

\* What the stores and the calls hold is sound, if it was.
LEMMA ClientTokens ==
  ASSUME IInv, UNCHANGED <<server, minted, history>>,
         \A t \in Sessions : Sound(t, store'[t]),
         \A d \in Calls : Sound(calls'[d].s, calls'[d].tok) /\ Sound(calls'[d].s, calls'[d].new)
  PROVE  TokenInv'
<1>1. sess' = sess /\ device' = device /\ minted' = minted
  BY ClientFrame
<1>2. ASSUME NEW t \in Sessions PROVE Sound(t, store[t])'
  BY <1>1 DEF Sound
<1>3. ASSUME NEW t \in Sessions PROVE Sound(t, sess[t].receipt.next)'
  <2>1. Sound(t, sess[t].receipt.next)
    BY DEF IInv, TokenInv
  <2> QED BY <1>1, <2>1 DEF Sound
<1>4. ASSUME NEW d \in Calls PROVE Sound(calls[d].s, calls[d].tok)'
  BY <1>1 DEF Sound
<1>5. ASSUME NEW d \in Calls PROVE Sound(calls[d].s, calls[d].new)'
  BY <1>1 DEF Sound
<1> QED BY <1>2, <1>3, <1>4, <1>5 DEF TokenInv

-----------------------------------------------------------------------------
(* A quiet step keeps the invariant *)

LEMMA QuietKeeps ==
  ASSUME IInv, NEW c \in Calls, QuietStep(c)
  PROVE  IInv'
<1>0. PICK call : calls' = [calls EXCEPT ![c] = call] /\ Allowed(c, call)
  BY DEF QuietStep
<1>1. /\ calls \in [Calls -> CallType] /\ calls'[c] = call /\ \A d \in Calls \ {c} : calls'[d] = calls[d]
      /\ call \in CallType /\ calls' \in [Calls -> CallType]
  BY <1>0 DEF IInv, TypeOK, Allowed
<1>2. /\ sess' = sess /\ device' = device /\ managed' = managed /\ site' = site /\ late' = late
      /\ stale' = stale /\ grants' = grants /\ store' = store /\ attempt' = attempt
      /\ leaving' = leaving /\ minted' = minted /\ parent' = parent /\ over' = over
      /\ faded' = faded /\ origin' = origin
  BY DEF QuietStep, server, client, history
<1>3. TypeOK'
  BY <1>1, <1>2 DEF IInv, TypeOK, QuietStep
<1>4. JtiInv' /\ GrantInv' /\ OverInv'
  BY <1>2 DEF IInv, JtiInv, GrantInv, OverInv, Unspent
<1>5. ASSUME NEW s \in Sessions, NEW tok \in Token
      PROVE  Sound(s, tok)' = Sound(s, tok)
  BY <1>2 DEF Sound
<1>6. \A d \in Calls : CallOK(calls'[d]) /\ Sound(calls'[d].s, calls'[d].tok) /\ Sound(calls'[d].s, calls'[d].new)
  <2>1. \A s \in Sessions : Sound(s, NoToken)
    BY DEF Sound, NoToken, IInv, TypeOK
  <2>2. CallOK(call) /\ Sound(call.s, call.new) /\ call.s \in Sessions
    BY <1>0, <1>1 DEF Allowed, CallType
  <2>3. Sound(call.s, call.tok)
    BY <1>0, <2>1, <2>2, CallFacts DEF Allowed
  <2> QED BY <1>1, <2>2, <2>3, CallFacts
<1>7. TokenInv'
  <2>1. \A t \in Sessions : Sound(t, store'[t])
    BY <1>2 DEF IInv, TokenInv
  <2>2. UNCHANGED <<server, minted, history>>
    BY DEF QuietStep
  <2> QED BY <1>6, <2>1, <2>2, ClientTokens
<1>8. CallInv'
  BY <1>1, <1>2, <1>6 DEF IInv, CallInv, CallOK, Counts
<1>9. \A d \in Calls : calls'[d].tok = NoToken \/ (calls'[d].s = calls[d].s /\ calls'[d].tok = calls[d].tok)
  BY <1>0, <1>1 DEF Allowed
<1>10. ASSUME NEW s \in Sessions, NEW tok \in Token, tok # NoToken, Unused(s, tok)
       PROVE  Unused(s, tok)'
  BY <1>2, <1>9, <1>10 DEF Unused, Unspent
<1>11. Renewable'
  BY <1>2 DEF IInv, RenewInv, Renewable, Live, Ended, Current, Matches, Recoverable
<1>12. ASSUME NEW s \in Sessions PROVE ReceiptKept(s)'
  <2>1. store[s] # NoToken /\ sess[s].receipt.input = store[s] => sess[s].receipt.next # NoToken
    BY ReceiptFacts
  <2> QED BY <1>2, <1>9, <2>1 DEF IInv, RenewInv, ReceiptKept
<1>13. ASSUME NEW d \in Calls PROVE Refreshing(calls[d])'
  <2>1. Refreshing(calls'[d]) /\ calls'[d] \in CallType
    BY <1>0, <1>1, CallFacts DEF Allowed
  <2>2. \A s \in Sessions, tok \in Token : Usable(s, tok)' = Usable(s, tok)
    BY <1>2 DEF Usable, Live, Ended, Current, Matches
  <2> QED BY <1>2, <1>10, <2>1, <2>2 DEF Refreshing, CallType, Live, Ended
<1>14. ASSUME NEW d \in Calls PROVE Arriving(d)'
  <2> SUFFICES ASSUME calls'[d].kind \in Replacing, calls'[d].pc = "answered"
               PROVE  /\ Usable(calls[d].s, calls[d].new)' /\ Unused(calls[d].s, calls[d].new)'
                      /\ store'[calls'[d].s] # calls'[d].new
                      /\ \A e \in Calls \ {d} : calls'[e].new.jti # calls'[d].new.jti
    BY DEF Arriving
  <2>1. d # c /\ calls'[d] = calls[d]
    BY <1>0, <1>1 DEF Allowed
  <2>2. /\ calls[d].new # NoToken /\ calls[d] \in CallType /\ parent[calls[d].new.jti] = 0
        /\ calls[d].new.jti # 0 /\ Arriving(d)
    BY <2>1, CallFacts DEF CallOK, Sound, IInv, RenewInv
  <2>3. call.new.jti # calls[d].new.jti
    <3>1. CASE call.new = NoToken
      BY <2>2, <3>1 DEF NoToken
    <3>2. CASE call.new # NoToken
      <4>1. call.kind = "refresh" /\ parent[call.new.jti] = call.tok.jti /\ call.tok # NoToken
        BY <1>0, <3>2 DEF Allowed, CallOK
      <4>2. call.tok.jti # 0
        BY <1>0, <4>1, CallFacts DEF Allowed, Sound
      <4> QED BY <2>2, <4>1, <4>2
    <3> QED BY <3>1, <3>2
  <2>4. Usable(calls[d].s, calls[d].new)'
    BY <1>2, <2>1, <2>2 DEF Arriving, Usable, Live, Ended, Current, Matches
  <2> QED BY <1>1, <1>2, <1>10, <2>1, <2>2, <2>3, <2>4 DEF Arriving, CallType
<1> QED BY <1>3, <1>4, <1>7, <1>8, <1>11, <1>12, <1>13, <1>14 DEF IInv, RenewInv

-----------------------------------------------------------------------------
(* A step of a client keeps the invariant *)

\* The store gets a token that was on its way to it.
LEMMA StoredKeeps ==
  ASSUME IInv, UNCHANGED <<server, leaving, mishaps, minted, history>>,
         NEW c \in Calls, NEW s \in Sessions, NEW tok \in Token, s = calls[c].s, tok = calls[c].new,
         tok # NoToken, Usable(s, tok), Unused(s, tok),
         \A d \in Calls \ {c} : calls[d].kind \in Replacing /\ calls[d].pc = "answered" =>
           calls[d].new # tok,
         store' = [store EXCEPT ![s] = tok], attempt' = [attempt EXCEPT ![s] = 0], Fail(c)
  PROVE  IInv'
<1>1. /\ calls \in [Calls -> CallType] /\ calls'[c] = NoCall /\ \A d \in Calls \ {c} : calls'[d] = calls[d]
      /\ calls' \in [Calls -> CallType] /\ store' \in [Sessions -> Token] /\ store \in [Sessions -> Token]
      /\ attempt' \in [Sessions -> Nat] /\ attempt \in [Sessions -> Nat] /\ store'[s] = tok
      /\ \A t \in Sessions \ {s} : store'[t] = store[t] /\ attempt'[t] = attempt[t]
  BY EmptyTypes DEF IInv, TypeOK, Fail
<1>2. /\ NoCall.kind = "none" /\ NoCall.tok = NoToken /\ NoCall.new = NoToken /\ NoToken.jti = 0
  BY DEF NoCall, NoToken
<1>3. TypeOK'
  <2>1. UNCHANGED <<server, minted, history>> /\ mishaps' = mishaps /\ leaving' \subseteq Sessions
    BY DEF IInv, TypeOK
  <2> QED BY <1>1, <2>1, ClientTypes
<1>4. \A d \in Calls : CallOK(calls'[d]) /\ Sound(calls'[d].s, calls'[d].tok) /\ Sound(calls'[d].s, calls'[d].new)
  <2>1. CallOK(NoCall) /\ Sound(NoCall.s, NoToken)
    BY NothingLeft, <1>2 DEF Allowed
  <2> QED BY <1>1, <1>2, <2>1, CallFacts
<1>5. CallInv'
  BY <1>4, ClientFrame DEF CallInv, CallOK, Counts
<1>6. TokenInv'
  <2>1. Sound(s, tok)
    BY CallFacts
  <2>2. \A t \in Sessions : Sound(t, store'[t]) /\ Sound(t, sess[t].receipt.next)
    BY <1>1, <2>1 DEF IInv, TokenInv
  <2> QED BY <1>4, <2>2, ClientTokens
<1>7. ASSUME NEW t \in Sessions, NEW other \in Token, other # NoToken, Unused(t, other)
      PROVE  Unused(t, other)'
  BY <1>1, <1>2, <1>7, ClientFrame DEF Unused, Unspent
<1>8. Renewable'
  <2>1. Live' /\ ~Ended(s, tok)' => Current(s, tok)'
    BY ClientFrame DEF Usable
  <2>2. ASSUME NEW t \in Sessions \ {s}, store[t] # NoToken, Live, ~Ended(t, store[t])
        PROVE  Current(t, store[t]) \/ Recoverable(t, store[t], attempt[t])'
    <3>1. Current(t, store[t]) \/ Recoverable(t, store[t], attempt[t])
      BY <2>2 DEF IInv, RenewInv, Renewable
    <3> QED BY <1>1, <3>1, ClientFrame DEF Recoverable, Current, Matches
  <2>3. \A t \in Sessions \ {s} : Current(t, store[t])' = Current(t, store[t]) /\ Ended(t, store[t])' = Ended(t, store[t])
    BY <1>1, ClientFrame DEF Current, Matches, Ended
  <2>4. Ended(s, store[s])' = Ended(s, tok)' /\ Current(s, store[s])' = Current(s, tok)'
    BY <1>1 DEF Ended, Current, Matches
  <2> QED BY <1>1, <2>1, <2>2, <2>3, <2>4, ClientFrame DEF Renewable
<1>9. ASSUME NEW t \in Sessions PROVE ReceiptKept(t)'
  <2>1. t = s => sess[t].receipt.input # tok
    BY ReceiptFacts DEF Unused, Unspent
  <2>2. store[t] # NoToken /\ sess[t].receipt.input = store[t] => sess[t].receipt.next # NoToken
    BY ReceiptFacts
  <2> QED BY <1>1, <1>2, <2>1, <2>2, ClientFrame DEF IInv, RenewInv, ReceiptKept
<1>10. ASSUME NEW d \in Calls PROVE Refreshing(calls[d])'
  <2>1. CASE d = c
    BY <1>1, <1>2, <2>1 DEF Refreshing
  <2>2. CASE d # c
    <3>1. calls'[d] = calls[d] /\ calls[d] \in CallType /\ Refreshing(calls[d])
      BY <1>1, <2>2, CallFacts
    <3>2. calls[d].s = s => calls[d].tok # tok
      BY DEF Unused
    <3> QED BY <1>1, <1>7, <3>1, <3>2, ClientFrame DEF Refreshing, CallType
  <2> QED BY <2>1, <2>2
<1>11. ASSUME NEW d \in Calls PROVE Arriving(d)'
  <2> SUFFICES ASSUME calls'[d].kind \in Replacing, calls'[d].pc = "answered"
               PROVE  /\ Usable(calls[d].s, calls[d].new)' /\ Unused(calls[d].s, calls[d].new)'
                      /\ store'[calls'[d].s] # calls'[d].new
                      /\ \A e \in Calls \ {d} : calls'[e].new.jti # calls'[d].new.jti
    BY DEF Arriving
  <2>1. d # c /\ calls'[d] = calls[d]
    BY <1>1, <1>2 DEF Replacing
  <2>2. /\ calls[d].new # NoToken /\ calls[d] \in CallType /\ calls[d].new.jti # 0
        /\ Usable(calls[d].s, calls[d].new) /\ Unused(calls[d].s, calls[d].new)
        /\ store[calls[d].s] # calls[d].new /\ calls[d].new # tok
        /\ \A e \in Calls \ {d} : calls[e].new.jti # calls[d].new.jti
    BY <2>1, CallFacts DEF CallOK, Sound, IInv, RenewInv, Arriving
  <2> QED BY <1>1, <1>2, <1>7, <2>1, <2>2, ClientFrame DEF CallType
<1> QED BY <1>3, <1>5, <1>6, <1>8, <1>9, <1>10, <1>11, ClientFrame DEF IInv, RenewInv

\* The store is cleared.
LEMMA ClearedKeeps ==
  ASSUME IInv, UNCHANGED <<server, mishaps, minted, history>>, leaving' \subseteq Sessions,
         NEW s \in Sessions, store' = [store EXCEPT ![s] = NoToken], attempt' = [attempt EXCEPT ![s] = 0],
         calls' = calls \/ \E c \in Calls : Fail(c)
  PROVE  IInv'
<1>0. /\ calls \in [Calls -> CallType] /\ calls' \in [Calls -> CallType]
      /\ \A d \in Calls : calls'[d] \in {calls[d], NoCall}
  <2>0. calls \in [Calls -> CallType] /\ NoCall \in CallType
    BY EmptyTypes DEF IInv, TypeOK
  <2>1. CASE calls' = calls
    BY <2>0, <2>1
  <2>2. ASSUME NEW c \in Calls, Fail(c)
        PROVE  calls' \in [Calls -> CallType] /\ \A d \in Calls : calls'[d] \in {calls[d], NoCall}
    BY <2>0, <2>2 DEF Fail
  <2> QED BY <2>0, <2>1, <2>2
<1>1. /\ calls \in [Calls -> CallType] /\ \A d \in Calls : calls'[d] \in {calls[d], NoCall}
      /\ calls' \in [Calls -> CallType] /\ store' \in [Sessions -> Token] /\ store \in [Sessions -> Token]
      /\ attempt' \in [Sessions -> Nat] /\ attempt \in [Sessions -> Nat] /\ store'[s] = NoToken
      /\ \A t \in Sessions \ {s} : store'[t] = store[t] /\ attempt'[t] = attempt[t]
  BY <1>0, EmptyTypes DEF IInv, TypeOK
<1>2. /\ NoCall.kind = "none" /\ NoCall.tok = NoToken /\ NoCall.new = NoToken /\ NoToken.jti = 0
      /\ NoCall.s \in Sessions
  BY DEF NoCall, NoToken, Sessions
<1>3. TypeOK'
  BY <1>1, ClientTypes
<1>a. \A t \in Sessions : Sound(t, NoToken)
  BY <1>2 DEF Sound, IInv, TypeOK
<1>4. \A d \in Calls : CallOK(calls'[d]) /\ Sound(calls'[d].s, calls'[d].tok) /\ Sound(calls'[d].s, calls'[d].new)
  <2>1. CallOK(NoCall)
    BY <1>2 DEF CallOK, Replacing
  <2> QED BY <1>1, <1>2, <1>a, <2>1, CallFacts
<1>5. CallInv'
  BY <1>4, ClientFrame DEF CallInv, CallOK, Counts
<1>6. TokenInv'
  <2>2. \A t \in Sessions : Sound(t, store'[t]) /\ Sound(t, sess[t].receipt.next)
    BY <1>1, <1>a DEF IInv, TokenInv
  <2> QED BY <1>4, <2>2, ClientTokens
<1>7. ASSUME NEW t \in Sessions, NEW other \in Token, other # NoToken, Unused(t, other)
      PROVE  Unused(t, other)'
  BY <1>1, <1>2, <1>7, ClientFrame DEF Unused, Unspent
<1>8. Renewable'
  <2>2. ASSUME NEW t \in Sessions \ {s}, store[t] # NoToken, Live, ~Ended(t, store[t])
        PROVE  Current(t, store[t]) \/ Recoverable(t, store[t], attempt[t])'
    <3>1. Current(t, store[t]) \/ Recoverable(t, store[t], attempt[t])
      BY <2>2 DEF IInv, RenewInv, Renewable
    <3> QED BY <1>1, <3>1, ClientFrame DEF Recoverable, Current, Matches
  <2>3. \A t \in Sessions \ {s} : Current(t, store[t])' = Current(t, store[t]) /\ Ended(t, store[t])' = Ended(t, store[t])
    BY <1>1, ClientFrame DEF Current, Matches, Ended
  <2> QED BY <1>1, <2>2, <2>3, ClientFrame DEF Renewable
<1>9. ASSUME NEW t \in Sessions PROVE ReceiptKept(t)'
  <2>2. store[t] # NoToken /\ sess[t].receipt.input = store[t] => sess[t].receipt.next # NoToken
    BY ReceiptFacts
  <2> QED BY <1>1, <1>2, <2>2, ClientFrame DEF IInv, RenewInv, ReceiptKept
<1>10. ASSUME NEW d \in Calls PROVE Refreshing(calls[d])'
  <2>1. CASE calls'[d] = NoCall
    BY <1>1, <1>2, <2>1 DEF Refreshing
  <2>2. CASE calls'[d] = calls[d]
    <3>1. calls[d] \in CallType /\ Refreshing(calls[d]) /\ calls[d].kind = "refresh" => calls[d].tok # NoToken
      BY <1>1, CallFacts DEF CallOK
    <3>2. CASE calls[d].s = s
      BY <1>1, <2>2, <3>1, <3>2, CallFacts DEF Refreshing, CallOK
    <3>3. CASE calls[d].s # s
      BY <1>1, <1>7, <2>2, <3>1, <3>3, ClientFrame, CallFacts DEF Refreshing, CallType
    <3> QED BY <3>2, <3>3
  <2> QED BY <1>1, <2>1, <2>2
<1>11. ASSUME NEW d \in Calls PROVE Arriving(d)'
  <2> SUFFICES ASSUME calls'[d].kind \in Replacing, calls'[d].pc = "answered"
               PROVE  /\ Usable(calls[d].s, calls[d].new)' /\ Unused(calls[d].s, calls[d].new)'
                      /\ store'[calls'[d].s] # calls'[d].new
                      /\ \A e \in Calls \ {d} : calls'[e].new.jti # calls'[d].new.jti
    BY DEF Arriving
  <2>1. calls'[d] = calls[d]
    BY <1>1, <1>2 DEF Replacing
  <2>2. /\ calls[d].new # NoToken /\ calls[d] \in CallType /\ calls[d].new.jti # 0
        /\ Usable(calls[d].s, calls[d].new) /\ Unused(calls[d].s, calls[d].new)
        /\ store[calls[d].s] # calls[d].new
        /\ \A e \in Calls \ {d} : calls[e].new.jti # calls[d].new.jti
    BY <2>1, CallFacts DEF CallOK, Sound, IInv, RenewInv, Arriving
  <2> QED BY <1>1, <1>2, <1>7, <2>1, <2>2, ClientFrame DEF CallType
<1> QED BY <1>3, <1>5, <1>6, <1>8, <1>9, <1>10, <1>11, ClientFrame DEF IInv, RenewInv

\* A call begins with the token that is stored.
LEMMA BegunKeeps ==
  ASSUME IInv, UNCHANGED <<server, store, mishaps, minted, history>>, leaving' \subseteq Sessions,
         NEW s \in Sessions, NEW c \in Calls, NEW call \in CallType, Begin(c, call),
         call.s = s, call.tok = store[s], call.new = NoToken, call.pc = "read", store[s] # NoToken,
         \/ call.kind = "signout" /\ attempt' = attempt
         \/ /\ call.kind = "refresh" /\ call.attempt = store[s].jti
            /\ attempt' = [attempt EXCEPT ![s] = store[s].jti]
  PROVE  IInv'
<1>1. /\ calls \in [Calls -> CallType] /\ calls'[c] = call /\ \A d \in Calls \ {c} : calls'[d] = calls[d]
      /\ calls' \in [Calls -> CallType] /\ store \in [Sessions -> Token] /\ store' = store
      /\ attempt' \in [Sessions -> Nat] /\ attempt \in [Sessions -> Nat]
      /\ attempt'[s] \in {attempt[s], store[s].jti}
      /\ \A t \in Sessions \ {s} : attempt'[t] = attempt[t]
  <2>1. /\ calls \in [Calls -> CallType] /\ store \in [Sessions -> Token]
        /\ attempt \in [Sessions -> Nat] /\ calls' = [calls EXCEPT ![c] = call] /\ call \in CallType
    BY DEF IInv, TypeOK, Begin
  <2>2. /\ calls' \in [Calls -> CallType] /\ calls'[c] = call
        /\ \A d \in Calls \ {c} : calls'[d] = calls[d]
    BY <2>1
  <2>3. store[s].jti \in Nat
    BY <2>1 DEF Token
  <2>4. /\ attempt' \in [Sessions -> Nat] /\ attempt'[s] \in {attempt[s], store[s].jti}
        /\ \A t \in Sessions \ {s} : attempt'[t] = attempt[t]
    BY <2>1, <2>3
  <2> QED BY <2>1, <2>2, <2>4
<1>3. TypeOK'
  BY <1>1, ClientTypes
<1>4. \A d \in Calls : CallOK(calls'[d]) /\ Sound(calls'[d].s, calls'[d].tok) /\ Sound(calls'[d].s, calls'[d].new)
  <2>1. CallOK(call)
    BY DEF CallOK, Replacing
  <2>2. Sound(s, store[s])
    BY DEF IInv, TokenInv
  <2>3. Sound(s, NoToken)
    BY DEF Sound, NoToken, IInv, TypeOK
  <2>4. CallOK(calls'[c]) /\ Sound(calls'[c].s, calls'[c].tok) /\ Sound(calls'[c].s, calls'[c].new)
    BY <1>1, <2>1, <2>2, <2>3
  <2>5. ASSUME NEW d \in Calls \ {c}
        PROVE  CallOK(calls'[d]) /\ Sound(calls'[d].s, calls'[d].tok) /\ Sound(calls'[d].s, calls'[d].new)
    <3>1. CallOK(calls[d]) /\ Sound(calls[d].s, calls[d].tok) /\ Sound(calls[d].s, calls[d].new)
      BY CallFacts
    <3> QED BY <1>1, <3>1
  <2> QED BY <2>4, <2>5
<1>5. CallInv'
  BY <1>4, ClientFrame DEF CallInv, CallOK, Counts
<1>6. TokenInv'
  <2>1. \A t \in Sessions : Sound(t, store'[t])
    BY <1>1 DEF IInv, TokenInv
  <2> QED BY <1>4, <2>1, ClientTokens
<1>7. ASSUME NEW t \in Sessions, NEW other \in Token, t # s \/ other # store[s], Unused(t, other)
      PROVE  Unused(t, other)'
  BY <1>1, <1>7, ClientFrame DEF Unused, Unspent
<1>a. sess[s].receipt.input = store[s] => attempt[s] = store[s].jti
  BY DEF IInv, RenewInv, ReceiptKept
<1>8. Renewable'
  <2>1. \A t \in Sessions : Recoverable(t, store[t], attempt[t]) => Recoverable(t, store[t], attempt'[t])
    BY <1>1, <1>a DEF Recoverable
  <2>2. \A t \in Sessions : Recoverable(t, store[t], attempt'[t]) => Recoverable(t, store[t], attempt[t])'
    BY <1>1, ClientFrame DEF Recoverable, Current, Matches
  <2>3. \A t \in Sessions : Current(t, store[t])' = Current(t, store[t]) /\ Ended(t, store[t])' = Ended(t, store[t])
    BY <1>1, ClientFrame DEF Current, Matches, Ended
  <2> QED BY <1>1, <2>1, <2>2, <2>3, ClientFrame DEF IInv, RenewInv, Renewable
<1>9. ASSUME NEW t \in Sessions PROVE ReceiptKept(t)'
  <2>2. store[t] # NoToken /\ sess[t].receipt.input = store[t] => sess[t].receipt.next # store[t]
    BY ReceiptFacts
  <2> QED BY <1>1, <2>2, ClientFrame DEF IInv, RenewInv, ReceiptKept
<1>10. ASSUME NEW d \in Calls PROVE Refreshing(calls[d])'
  <2>1. CASE d = c
    BY <1>1, <2>1 DEF Refreshing
  <2>2. CASE d # c
    <3>1. /\ calls'[d] = calls[d] /\ calls[d] \in CallType /\ Refreshing(calls[d])
          /\ calls[d].kind = "refresh" => calls[d].attempt = calls[d].tok.jti
      BY <1>1, <2>2, CallFacts DEF CallOK
    <3>2. ASSUME calls[d].kind = "refresh", calls[d].new # NoToken, Unused(calls[d].s, calls[d].new)
          PROVE  calls[d].new # calls[d].tok
      <4>0. calls[d].new.jti \in Nat /\ minted \in Nat
        BY <3>1 DEF CallType, Token, IInv, TypeOK
      <4>a. Sound(calls[d].s, calls[d].new)
        BY CallFacts
      <4>b. calls[d].new.jti \in 1 .. minted
        BY <3>2, <4>0, <4>a DEF Sound
      <4>1. parent[calls[d].new.jti] = calls[d].tok.jti /\ calls[d].new.jti \in 1 .. minted
        BY <3>2, <4>b, CallFacts DEF CallOK
      <4> QED BY <3>2, <4>1 DEF Unused, Unspent
    <3>3. calls[d].kind = "refresh" /\ store[calls[d].s] = calls[d].tok => attempt'[calls[d].s] = calls[d].attempt
      BY <1>1, <3>1 DEF Refreshing, CallType
    <3>4. calls[d].s \in Sessions /\ calls[d].new \in Token /\ calls[d].tok \in Token
      BY <3>1 DEF CallType
    <3> QED BY <1>1, <1>7, <3>1, <3>2, <3>3, <3>4, ClientFrame DEF Refreshing
  <2> QED BY <2>1, <2>2
<1>11. ASSUME NEW d \in Calls PROVE Arriving(d)'
  <2> SUFFICES ASSUME calls'[d].kind \in Replacing, calls'[d].pc = "answered"
               PROVE  /\ Usable(calls[d].s, calls[d].new)' /\ Unused(calls[d].s, calls[d].new)'
                      /\ store'[calls'[d].s] # calls'[d].new
                      /\ \A e \in Calls \ {d} : calls'[e].new.jti # calls'[d].new.jti
    BY DEF Arriving
  <2>1. d # c /\ calls'[d] = calls[d]
    BY <1>1 DEF Replacing
  <2>2. /\ calls[d].new # NoToken /\ calls[d] \in CallType /\ calls[d].new.jti # 0
        /\ Usable(calls[d].s, calls[d].new) /\ Unused(calls[d].s, calls[d].new)
        /\ store[calls[d].s] # calls[d].new
        /\ \A e \in Calls \ {d} : calls[e].new.jti # calls[d].new.jti
    BY <2>1, CallFacts DEF CallOK, Sound, IInv, RenewInv, Arriving
  <2>3. NoToken.jti = 0
    BY DEF NoToken
  <2> QED BY <1>1, <1>7, <2>1, <2>2, <2>3, ClientFrame DEF CallType
<1> QED BY <1>3, <1>5, <1>6, <1>8, <1>9, <1>10, <1>11, ClientFrame DEF IInv, RenewInv

ClientAction ==
  \/ \E c \in Calls : RefreshStored(c) \/ RefreshRefused(c) \/ Replaced(c)
  \/ \E c \in Calls, s \in Sessions : BeginRefresh(c, s) \/ BeginSignOut(c, s)
  \/ \E s \in Sessions : ClearStore(s)

LEMMA FailKeeps ==
  ASSUME IInv, NEW c \in Calls, Fail(c), UNCHANGED <<server, client, mishaps, minted, history>>
  PROVE  IInv'
BY FailIsQuiet, QuietKeeps

LEMMA ClientActionsKeep == ASSUME IInv, ClientAction PROVE IInv'
<1>0. calls \in [Calls -> CallType] /\ store \in [Sessions -> Token] /\ leaving \subseteq Sessions
  BY DEF IInv, TypeOK
<1>1. ASSUME NEW c \in Calls, RefreshStored(c) PROVE IInv'
  <2>1. /\ UNCHANGED <<server, leaving, mishaps, minted, history>> /\ Fail(c)
        /\ calls[c].kind = "refresh" /\ calls[c].pc = "answered" /\ calls[c].new # NoToken
        /\ calls[c].s \in Sessions /\ calls[c].new \in Token
    BY <1>0, <1>1 DEF RefreshStored, At, CallType
  <2>2. CASE store[calls[c].s] = calls[c].tok
    <3>1. Usable(calls[c].s, calls[c].new) /\ Unused(calls[c].s, calls[c].new)
      BY <2>1, <2>2, CallFacts DEF Refreshing
    <3>2. parent[calls[c].new.jti] # 0
      BY <2>1, CallFacts DEF CallOK, Sound
    <3>3. \A d \in Calls \ {c} : calls[d].kind \in Replacing /\ calls[d].pc = "answered" =>
            calls[d].new # calls[c].new
      BY <3>2, CallFacts DEF CallOK
    <3>4. /\ store' = [store EXCEPT ![calls[c].s] = calls[c].new]
          /\ attempt' = [attempt EXCEPT ![calls[c].s] = 0]
      BY <1>1, <2>2 DEF RefreshStored
    <3> QED BY <2>1, <3>1, <3>3, <3>4, StoredKeeps
  <2>3. CASE store[calls[c].s] # calls[c].tok
    BY <1>1, <2>1, <2>3, FailKeeps DEF RefreshStored, client
  <2> QED BY <2>2, <2>3
<1>2. ASSUME NEW c \in Calls, RefreshRefused(c) PROVE IInv'
  <2>1. /\ UNCHANGED <<server, leaving, mishaps, minted, history>> /\ Fail(c)
        /\ calls[c].s \in Sessions
    BY <1>0, <1>2 DEF RefreshRefused, At, CallType
  <2>2. CASE store[calls[c].s] = calls[c].tok
    <3>1. /\ store' = [store EXCEPT ![calls[c].s] = NoToken]
          /\ attempt' = [attempt EXCEPT ![calls[c].s] = 0]
      BY <1>2, <2>2 DEF RefreshRefused
    <3> QED BY <1>0, <2>1, <3>1, ClearedKeeps
  <2>3. CASE store[calls[c].s] # calls[c].tok
    BY <1>2, <2>1, <2>3, FailKeeps DEF RefreshRefused, client
  <2> QED BY <2>2, <2>3
<1>3. ASSUME NEW c \in Calls, Replaced(c) PROVE IInv'
  <2>1. /\ UNCHANGED <<server, leaving, mishaps, minted, history>> /\ Fail(c)
        /\ calls[c].kind \in Replacing /\ calls[c].pc = "answered"
        /\ calls[c].s \in Sessions /\ calls[c].new \in Token
        /\ store' = [store EXCEPT ![calls[c].s] = calls[c].new]
        /\ attempt' = [attempt EXCEPT ![calls[c].s] = 0]
    BY <1>0, <1>3 DEF Replaced, Replacing, CallType
  <2>2. /\ calls[c].new # NoToken /\ Usable(calls[c].s, calls[c].new) /\ Unused(calls[c].s, calls[c].new)
        /\ \A d \in Calls \ {c} : calls[d].new # calls[c].new
    BY <2>1, CallFacts DEF CallOK, IInv, RenewInv, Arriving
  <2> QED BY <2>1, <2>2, StoredKeeps
<1>4. ASSUME NEW c \in Calls, NEW s \in Sessions, BeginRefresh(c, s) PROVE IInv'
  <2> DEFINE call == [NoCall EXCEPT !.kind = "refresh", !.pc = "read", !.s = s,
                                    !.tok = store[s], !.attempt = attempt'[s]]
  <2>1. /\ attempt' = [attempt EXCEPT ![s] = store[s].jti] /\ attempt'[s] = store[s].jti
        /\ store[s] \in Token /\ store[s].jti \in Nat
    BY <1>0, <1>4 DEF BeginRefresh, IInv, TypeOK, Token
  <2>2. call \in CallType
    BY <2>1, EmptyTypes DEF CallType
  <2>3. /\ call.kind = "refresh" /\ call.pc = "read" /\ call.s = s /\ call.tok = store[s]
        /\ call.attempt = store[s].jti /\ call.new = NoToken
    BY <2>1 DEF NoCall
  <2>4. Begin(c, call) /\ UNCHANGED <<server, store, leaving, mishaps, minted, history>> /\ store[s] # NoToken
    BY <1>4 DEF BeginRefresh
  <2> HIDE DEF call
  <2> QED BY <1>0, <2>1, <2>2, <2>3, <2>4, BegunKeeps
<1>5. ASSUME NEW c \in Calls, NEW s \in Sessions, BeginSignOut(c, s) PROVE IInv'
  <2> DEFINE call == [NoCall EXCEPT !.kind = "signout", !.pc = "read", !.s = s, !.tok = store[s]]
  <2>1. call \in CallType
    BY <1>0, EmptyTypes DEF CallType
  <2>2. call.kind = "signout" /\ call.pc = "read" /\ call.s = s /\ call.tok = store[s] /\ call.new = NoToken
    BY DEF NoCall
  <2>3. /\ Begin(c, call) /\ UNCHANGED <<server, store, attempt, mishaps, minted, history>>
        /\ store[s] # NoToken /\ leaving' \subseteq Sessions
    BY <1>0, <1>5 DEF BeginSignOut
  <2> HIDE DEF call
  <2> QED BY <2>1, <2>2, <2>3, BegunKeeps
<1>6. ASSUME NEW s \in Sessions, ClearStore(s) PROVE IInv'
  BY <1>0, <1>6, ClearedKeeps DEF ClearStore
<1> QED BY <1>1, <1>2, <1>3, <1>4, <1>5, <1>6 DEF ClientAction

-----------------------------------------------------------------------------
(* Time and the administrator *)

LEMMA MishapType == TypeOK /\ Mishap => mishaps' \in 0 .. MaxMishaps
BY BoundsAssumption DEF TypeOK, Mishap

\* What time does to one session's slot or receipt.
LEMMA FadingKeeps ==
  ASSUME IInv, NEW s \in Sessions, ExpireReceipt(s) \/ (s \in Slots /\ ExpireSlot(s))
  PROVE  IInv'
<1>1. /\ managed' = managed /\ site' = site /\ device' = device /\ sess' = sess /\ grants' = grants
      /\ store' = store /\ attempt' = attempt /\ leaving' = leaving /\ calls' = calls
      /\ minted' = minted /\ parent' = parent /\ over' = over /\ origin' = origin
      /\ faded' = [faded EXCEPT ![s] = minted] /\ Mishap
      /\ \A t \in Sessions \ {s} : (t \in late' <=> t \in late) /\ (t \in stale' <=> t \in stale)
      /\ late' \subseteq late \union (Slots \intersect {s}) /\ stale' \subseteq stale \union {s}
  BY DEF ExpireReceipt, ExpireSlot, Fade, client
<1>2. /\ faded \in [Sessions -> 0 .. minted] /\ minted \in Nat /\ faded' \in [Sessions -> 0 .. minted]
      /\ over \in [Sessions -> 0 .. minted]
      /\ faded'[s] = minted /\ \A t \in Sessions \ {s} : faded'[t] = faded[t]
      /\ calls \in [Calls -> CallType] /\ store \in [Sessions -> Token]
  BY <1>1 DEF IInv, TypeOK
<1>3. TypeOK'
  BY <1>1, <1>2, MishapType DEF IInv, TypeOK
<1>4. JtiInv' /\ OverInv' /\ CallInv' /\ TokenInv'
  <2>1. JtiInv' /\ OverInv'
    BY <1>1 DEF IInv, JtiInv, OverInv, Unspent
  <2>2. CallInv'
    BY <1>1 DEF IInv, CallInv, CallOK, Counts
  <2>3. TokenInv'
    BY <1>1 DEF IInv, TokenInv, Sound
  <2> QED BY <2>1, <2>2, <2>3
<1>5. GrantInv'
  BY <1>1, NamesAssumption DEF IInv, GrantInv
<1>6. ASSUME NEW tok \in Token, Sound(s, tok) PROVE Ended(s, tok)'
  BY <1>1, <1>2, <1>6 DEF Ended, Sound, Token
<1>7. ASSUME NEW t \in Sessions \ {s}, NEW tok \in Token
      PROVE  Current(t, tok)' = Current(t, tok) /\ Ended(t, tok)' = Ended(t, tok) /\ Usable(t, tok)' = Usable(t, tok)
  BY <1>1, <1>2 DEF Current, Matches, Ended, Usable, Live
<1>8. Live' = Live /\ \A t \in Sessions, tok \in Token : Unused(t, tok)' = Unused(t, tok)
  BY <1>1 DEF Live, Unused, Unspent
<1>9. Renewable'
  <2>1. ASSUME NEW t \in Sessions \ {s}, store[t] # NoToken, Live, ~Ended(t, store[t])
        PROVE  Current(t, store[t])' \/ Recoverable(t, store[t], attempt[t])'
    <3>1. Current(t, store[t]) \/ Recoverable(t, store[t], attempt[t])
      BY <2>1 DEF IInv, RenewInv, Renewable
    <3> QED BY <1>1, <3>1 DEF Recoverable, Current, Matches
  <2>2. Ended(s, store[s])'
    BY <1>1, <1>2, <1>6 DEF IInv, TokenInv, Ended
  <2>3. \A t \in Sessions \ {s} : Ended(t, store[t])' = Ended(t, store[t])
    BY <1>1, <1>2 DEF Ended
  <2> QED BY <1>1, <1>8, <2>1, <2>2, <2>3 DEF Renewable
<1>10. ASSUME NEW t \in Sessions PROVE ReceiptKept(t)'
  BY <1>1 DEF IInv, RenewInv, ReceiptKept
<1>11. ASSUME NEW c \in Calls PROVE Refreshing(calls[c])' /\ Arriving(c)'
  <2>1. /\ calls[c] \in CallType /\ Refreshing(calls[c]) /\ Arriving(c)
        /\ Sound(calls[c].s, calls[c].tok) /\ Sound(calls[c].s, calls[c].new)
    BY CallFacts DEF IInv, RenewInv
  <2>2. calls[c].s \in Sessions /\ calls[c].new \in Token /\ calls[c].tok \in Token
    BY <2>1 DEF CallType
  <2>3. CASE calls[c].s = s
    <3>1. Ended(s, calls[c].tok)' /\ Ended(s, calls[c].new)'
      <4>1. \A tok \in Token : Sound(s, tok) => tok.jti <= over'[s] \/ tok.jti <= faded'[s]
        BY <1>6 DEF Ended
      <4> QED BY <1>1, <2>1, <2>2, <2>3, <4>1 DEF Ended
    <3> QED BY <1>1, <1>8, <2>1, <2>2, <2>3, <3>1 DEF Refreshing, Arriving, Usable, Ended
  <2>4. CASE calls[c].s # s
    BY <1>1, <1>7, <1>8, <2>1, <2>2, <2>4 DEF Refreshing, Arriving, Ended, Usable, Current, Matches
  <2> QED BY <2>3, <2>4
<1> QED BY <1>3, <1>4, <1>5, <1>9, <1>10, <1>11 DEF IInv, RenewInv

LEMMA ExpireGrantKeeps == ASSUME IInv, NEW g \in Grants, ExpireGrant(g) PROVE IInv'
<1>1. /\ managed' = managed /\ site' = site /\ device' = device /\ sess' = sess
      /\ late' = late /\ stale' = stale
      /\ store' = store /\ attempt' = attempt /\ leaving' = leaving /\ calls' = calls
      /\ minted' = minted /\ parent' = parent /\ over' = over /\ faded' = faded /\ origin' = origin
      /\ Mishap /\ grants[g].st = "pending" /\ grants' = [grants EXCEPT ![g].st = "expired"]
  BY DEF ExpireGrant, client, history
<1>2. TypeOK'
  BY <1>1, MishapType DEF IInv, TypeOK
<1>3. JtiInv' /\ OverInv' /\ CallInv' /\ TokenInv'
  <2>1. JtiInv' /\ OverInv'
    BY <1>1 DEF IInv, JtiInv, OverInv, Unspent
  <2>2. CallInv'
    BY <1>1 DEF IInv, CallInv, CallOK, Counts
  <2>3. TokenInv'
    BY <1>1 DEF IInv, TokenInv, Sound
  <2> QED BY <2>1, <2>2, <2>3
<1>4. GrantInv'
  BY <1>1 DEF IInv, GrantInv, TypeOK
<1>5. RenewInv'
  BY <1>1 DEF IInv, RenewInv, Renewable, ReceiptKept, Refreshing, Arriving, Usable, Unused, Unspent, Live,
     Ended, Current, Matches, Recoverable
<1> QED BY <1>2, <1>3, <1>4, <1>5 DEF IInv

\* Out of service, nothing is said of the stores.
LEMMA RevokedKeeps == ASSUME IInv, Suspend \/ RevokeSite PROVE IInv'
<1>1. /\ managed' = managed /\ grants' = grants /\ late' = late /\ stale' = stale
      /\ store' = store /\ attempt' = attempt /\ leaving' = leaving /\ calls' = calls
      /\ minted' = minted /\ parent' = parent /\ over' = over /\ faded' = faded /\ origin' = origin
      /\ Mishap
  BY DEF Suspend, RevokeSite, client, history
<1>2. /\ site \in Nat /\ Primary \in Sessions /\ sess \in [Sessions -> SessionType]
      /\ device \in [status : {"active", "suspended"}, site : Nat, grant : Grants \union {NoGrant}]
  BY DEF IInv, TypeOK, Sessions
<1>3. \/ /\ site' = site /\ device' = [device EXCEPT !.status = "suspended"]
         /\ \E gen \in Nat : /\ sess' = [sess EXCEPT ![Primary].gen = gen]
                             /\ managed \/ gen = sess[Primary].gen + 1
      \/ site' = site + 1 /\ device' = device /\ sess' = sess
  <2>1. CASE RevokeSite
    BY <2>1 DEF RevokeSite
  <2>2. CASE Suspend
    <3>1. /\ site' = site /\ device' = [device EXCEPT !.status = "suspended"]
          /\ \E gen \in IF managed THEN 2 .. (sess[Primary].gen + 1) ELSE {sess[Primary].gen + 1} :
               sess' = [sess EXCEPT ![Primary].gen = gen]
      BY <2>2 DEF Suspend
    <3>2. sess[Primary].gen \in Nat
      BY <1>2 DEF SessionType
    <3>3. PICK gen \in IF managed THEN 2 .. (sess[Primary].gen + 1) ELSE {sess[Primary].gen + 1} :
            sess' = [sess EXCEPT ![Primary].gen = gen]
      BY <3>1
    <3>4. gen \in Nat /\ (managed \/ gen = sess[Primary].gen + 1)
      BY <3>2
    <3> QED BY <3>1, <3>3, <3>4
  <2> QED BY <2>1, <2>2
<1>4. /\ device'.site <= site' /\ ~Live' /\ site' \in Nat
      /\ device' \in [status : {"active", "suspended"}, site : Nat, grant : Grants \union {NoGrant}]
  BY <1>2, <1>3 DEF IInv, GrantInv, Live
<1>5. sess' \in [Sessions -> SessionType]
  BY <1>2, <1>3, SMTT(20) DEF SessionType
<1>6. \A s \in Sessions : /\ sess'[s].st = sess[s].st /\ sess'[s].jti = sess[s].jti
                          /\ sess'[s].receipt = sess[s].receipt /\ sess'[s].start = sess[s].start
  BY <1>2, <1>3 DEF SessionType
<1>7. device'.status = "active" => device' = device /\ sess' = sess
  BY <1>2, <1>3
<1>8. Counts' => /\ Counts
                 /\ sess'[Primary].gen = sess[Primary].gen \/ sess'[Primary].gen = sess[Primary].gen + 1
  BY <1>1, <1>2, <1>3 DEF Counts, SessionType
<1>9. TypeOK'
  BY <1>1, <1>4, <1>5, MishapType DEF IInv, TypeOK
<1>10. JtiInv' /\ OverInv'
  BY <1>1, <1>6 DEF IInv, JtiInv, OverInv, Unspent
<1>11. TokenInv'
  BY <1>1, <1>6, <1>7 DEF IInv, TokenInv, Sound
<1>12. GrantInv'
  BY <1>1, <1>2, <1>4, <1>6, <1>7 DEF IInv, GrantInv
<1>13. ASSUME NEW c \in Calls PROVE CallOK(calls[c])'
  <2>1. /\ CallOK(calls[c]) /\ calls[c].seen.gen \in Nat /\ sess[Primary].gen \in Nat
    BY <1>2, CallFacts DEF CallType, GlanceType, SessionType
  <2> QED BY <1>1, <1>2, <1>6, <1>8, <2>1 DEF CallOK
<1>14. RenewInv'
  BY <1>1, <1>4, <1>6 DEF IInv, RenewInv, Renewable, ReceiptKept, Refreshing, Arriving, Usable, Unused, Unspent
<1> QED BY <1>9, <1>10, <1>11, <1>12, <1>13, <1>14 DEF IInv, CallInv

-----------------------------------------------------------------------------
(* Writes of the row.  A session is kept as it is, ended, replaced by one  *)
(* with a new token, or rotated.                                           *)

\* Its tokens are over, now or before.
Closed(t) == over'[t] = minted \/ (over'[t] = over[t] /\ (sess[t].st # "active" \/ t \in late))

Kept(t) ==
  /\ sess'[t] = sess[t] /\ (t \in late' <=> t \in late) /\ (t \in stale' <=> t \in stale)
  /\ over'[t] = over[t]
Gone(t) ==
  /\ Closed(t) /\ sess'[t].st # "active" /\ sess'[t].receipt \in {sess[t].receipt, NoReceipt}
  /\ \/ sess'[t].jti = 0
     \/ sess'[t].jti = sess[t].jti /\ sess'[t].gen > sess[t].gen
Fresh(t) ==
  /\ Closed(t) /\ sess'[t].st = "active" /\ sess'[t].receipt \in {sess[t].receipt, NoReceipt}
  /\ sess'[t].jti = NewJti
Rotated(c) ==
  LET s == calls[c].s IN
  /\ calls[c].kind = "refresh" /\ device.status = "active" /\ sess[s].st = "active"
  /\ sess[s].gen = calls[c].tok.ver /\ sess[s].jti = calls[c].tok.jti /\ over'[s] = over[s]
  /\ sess'[s].st = "active" /\ sess'[s].jti = NewJti /\ s \notin stale'
  /\ sess'[s].receipt = [input |-> calls[c].tok, attempt |-> calls[c].attempt, next |-> calls'[c].new]

Ending(c) == minted' = minted /\ parent' = parent /\ Fail(c)
Minting(c, from) ==
  /\ minted' = NewJti
  /\ parent' = [j \in 1 .. NewJti |-> IF j = NewJti THEN from ELSE parent[j]]
  /\ calls[c].pc = "write"
  /\ \E new \in Token :
       /\ calls' = [calls EXCEPT ![c].pc = "answered", ![c].new = new]
       /\ new.jti = NewJti /\ Current(calls[c].s, new)'

WriteStep(c) ==
  /\ UNCHANGED <<managed, site, client, faded>>
  /\ TypeOK'
  /\ Live' => Live \/ \A t \in Sessions : over'[t] = minted
  /\ device'.status = "active" =>
       device.status = "active" \/ \A t \in Sessions : sess'[t].jti \in {0, NewJti}
  /\ Counts' => Counts
  /\ \/ sess'[Primary].gen > sess[Primary].gen
     \/ sess'[Primary].gen = sess[Primary].gen /\ sess'[Primary].st = sess[Primary].st
  /\ \/ Ending(c) /\ \A t \in Sessions : Kept(t) \/ Gone(t)
     \/ /\ Minting(c, 0) /\ calls[c].kind \in Replacing /\ Fresh(calls[c].s)
        /\ \A t \in Sessions \ {calls[c].s} : Kept(t) \/ Gone(t)
     \/ /\ Minting(c, calls[c].tok.jti) /\ Rotated(c)
        /\ \A t \in Sessions \ {calls[c].s} : Kept(t)

\* What a write leaves of the calls and of the history.
LEMMA WriteFrame ==
  ASSUME IInv, NEW c \in Calls, WriteStep(c)
  PROVE  /\ minted \in Nat /\ minted' \in {minted, NewJti} /\ NewJti = minted + 1
         /\ \A i \in 1 .. minted : parent'[i] = parent[i]
         /\ calls \in [Calls -> CallType] /\ calls' \in [Calls -> CallType]
         /\ \A d \in Calls \ {c} : calls'[d] = calls[d]
         /\ \/ calls'[c] = NoCall
            \/ calls'[c].s = calls[c].s /\ calls'[c].tok = calls[c].tok /\ calls'[c].kind = calls[c].kind
         /\ store' = store /\ attempt' = attempt /\ faded' = faded /\ managed' = managed /\ site' = site
         /\ sess \in [Sessions -> SessionType] /\ sess' \in [Sessions -> SessionType]
         /\ over \in [Sessions -> 0 .. minted] /\ over' \in [Sessions -> 0 .. minted']
         /\ store \in [Sessions -> Token]
<1>1. /\ minted \in Nat /\ NewJti = minted + 1 /\ calls \in [Calls -> CallType]
      /\ calls' \in [Calls -> CallType] /\ parent \in [1 .. minted -> 0 .. minted]
      /\ sess \in [Sessions -> SessionType] /\ sess' \in [Sessions -> SessionType]
      /\ over \in [Sessions -> 0 .. minted] /\ over' \in [Sessions -> 0 .. minted']
      /\ store \in [Sessions -> Token]
  BY DEF IInv, TypeOK, WriteStep, NewJti
<1>2. CASE Ending(c)
  BY <1>1, <1>2 DEF Ending, Fail, WriteStep, client
<1>3. ASSUME NEW from, Minting(c, from)
      PROVE  /\ minted' = NewJti /\ \A i \in 1 .. minted : parent'[i] = parent[i]
             /\ \A d \in Calls \ {c} : calls'[d] = calls[d]
             /\ calls'[c].s = calls[c].s /\ calls'[c].tok = calls[c].tok /\ calls'[c].kind = calls[c].kind
  <2>1. PICK new \in Token : calls' = [calls EXCEPT ![c].pc = "answered", ![c].new = new]
    BY <1>3 DEF Minting
  <2>2. /\ calls'[c].s = calls[c].s /\ calls'[c].tok = calls[c].tok /\ calls'[c].kind = calls[c].kind
        /\ \A d \in Calls \ {c} : calls'[d] = calls[d]
    BY <1>1, <2>1 DEF CallType
  <2>3. /\ minted' = NewJti
        /\ parent' = [j \in 1 .. NewJti |-> IF j = NewJti THEN from ELSE parent[j]]
    BY <1>3 DEF Minting
  <2>4. \A i \in 1 .. minted : parent'[i] = parent[i]
    BY <1>1, <2>3
  <2> QED BY <2>2, <2>3, <2>4
<1>4. CASE \E from : Minting(c, from)
  BY <1>1, <1>3, <1>4 DEF WriteStep, client
<1> QED BY <1>2, <1>4 DEF WriteStep

\* A token is its generation and its jti.
LEMMA SameToken ==
  ASSUME NEW a \in Token, NEW b \in Token, a.ver = b.ver, a.jti = b.jti
  PROVE  a = b
BY DEF Token

\* The token that a write gives out.
LEMMA NewToken ==
  ASSUME IInv, NEW c \in Calls, WriteStep(c), NEW from, Minting(c, from)
  PROVE  /\ minted' = NewJti /\ parent'[NewJti] = from /\ \A i \in 1 .. NewJti : i # NewJti => i \in 1 .. minted
         /\ calls'[c].new \in Token /\ calls'[c].new.jti = NewJti /\ calls'[c].pc = "answered"
         /\ calls'[c].attempt = calls[c].attempt /\ calls'[c].kind = calls[c].kind
         /\ calls'[c].s = calls[c].s /\ calls'[c].tok = calls[c].tok
         /\ calls'[c].grant = calls[c].grant /\ calls[c].s \in Sessions
         /\ calls'[c].new # NoToken /\ Current(calls[c].s, calls[c].new)'
<1>1. PICK new \in Token : /\ calls' = [calls EXCEPT ![c].pc = "answered", ![c].new = new]
                           /\ new.jti = NewJti /\ Current(calls[c].s, new)'
  BY DEF Minting
<1>2. /\ minted \in Nat /\ NewJti = minted + 1 /\ calls \in [Calls -> CallType] /\ minted' = NewJti
      /\ parent' = [j \in 1 .. NewJti |-> IF j = NewJti THEN from ELSE parent[j]]
  BY DEF IInv, TypeOK, NewJti, Minting
<1>3. /\ calls'[c].new = new /\ calls'[c].pc = "answered" /\ calls'[c].attempt = calls[c].attempt
      /\ calls'[c].s = calls[c].s /\ calls'[c].tok = calls[c].tok /\ calls'[c].kind = calls[c].kind
      /\ calls'[c].grant = calls[c].grant /\ calls[c].s \in Sessions
  BY <1>1, <1>2 DEF CallType
<1>4. new # NoToken
  BY <1>1, <1>2 DEF NoToken
<1>5. Current(calls[c].s, calls[c].new)'
  BY <1>1, <1>3 DEF Current, Matches
<1> QED BY <1>1, <1>2, <1>3, <1>4, <1>5

\* The jti of every session after a write, and the spent token if there is one.
LEMMA WriteCases ==
  ASSUME IInv, NEW c \in Calls, WriteStep(c)
  PROVE  \/ Ending(c) /\ \A t \in Sessions : Kept(t) \/ Gone(t)
         \/ \E from \in 0 .. minted :
              /\ Minting(c, from) /\ calls[c].s \in Sessions
              /\ \/ from = 0 /\ Fresh(calls[c].s) /\ calls[c].kind \in Replacing
                 \/ /\ from # 0 /\ Rotated(c) /\ from = calls[c].tok.jti
                    /\ from = sess[calls[c].s].jti /\ Unspent(from)
              /\ \A t \in Sessions \ {calls[c].s} : Kept(t) \/ Gone(t)
<1>0. /\ calls[c] \in CallType /\ calls[c].s \in Sessions /\ calls[c].tok \in Token /\ minted \in Nat
      /\ calls[c].tok.jti \in Nat
  BY CallFacts DEF CallType, Token, IInv, TypeOK
<1>1. CASE Minting(c, calls[c].tok.jti) /\ Rotated(c)
           /\ \A t \in Sessions \ {calls[c].s} : Kept(t)
  <2>1. sess[calls[c].s].st = "active" /\ calls[c].tok.jti = sess[calls[c].s].jti
    BY <1>1 DEF Rotated
  <2>2. calls[c].tok.jti # 0 /\ Unspent(calls[c].tok.jti)
    BY <1>0, <2>1 DEF IInv, JtiInv
  <2>3. calls[c].tok.jti \in 0 .. minted
    BY <1>0, CallFacts DEF Sound
  <2> QED BY <1>0, <1>1, <2>1, <2>2, <2>3
<1> QED BY <1>0, <1>1 DEF WriteStep

LEMMA WriteJti ==
  ASSUME IInv, NEW c \in Calls, WriteStep(c)
  PROVE  JtiInv'
<1>0. /\ minted \in Nat /\ NewJti = minted + 1 /\ minted' \in {minted, NewJti}
      /\ \A i \in 1 .. minted : parent'[i] = parent[i] /\ parent[i] < i /\ parent[i] \in 0 .. minted
      /\ sess \in [Sessions -> SessionType] /\ sess' \in [Sessions -> SessionType]
  BY WriteFrame DEF IInv, JtiInv, TypeOK
<1>a. \A t \in Sessions : /\ sess[t].jti \in Nat /\ sess[t].jti <= minted
                          /\ sess[t].st = "active" => sess[t].jti # 0
                          /\ sess[t].jti # 0 => Unspent(sess[t].jti)
  BY <1>0 DEF IInv, JtiInv, SessionType
<1>b. \A t \in Sessions : Kept(t) \/ Gone(t) =>
        /\ sess'[t].jti \in {0, sess[t].jti} /\ sess'[t].receipt \in {sess[t].receipt, NoReceipt}
        /\ sess'[t].st = "active" => sess'[t].jti # 0
  BY <1>a DEF Kept, Gone
<1>c. \A t \in Sessions : sess[t].receipt # NoReceipt =>
        /\ sess[t].receipt.next.jti \in 1 .. minted /\ sess[t].receipt.input.jti # 0
        /\ parent[sess[t].receipt.next.jti] = sess[t].receipt.input.jti
        /\ sess[t].receipt.attempt = sess[t].receipt.input.jti
  BY DEF IInv, JtiInv
<1>1. CASE Ending(c) /\ \A t \in Sessions : Kept(t) \/ Gone(t)
  BY <1>0, <1>1, <1>a, <1>b, <1>c DEF Ending, IInv, JtiInv, Unspent
<1>2. ASSUME NEW from \in 0 .. minted, Minting(c, from), calls[c].s \in Sessions,
             \/ from = 0 /\ Fresh(calls[c].s)
             \/ /\ from # 0 /\ Rotated(c) /\ from = calls[c].tok.jti
                /\ from = sess[calls[c].s].jti /\ Unspent(from),
             \A t \in Sessions \ {calls[c].s} : Kept(t) \/ Gone(t)
      PROVE  JtiInv'
  <2> DEFINE s == calls[c].s
  <2>0. s \in Sessions
    BY <1>2
  <2>1. /\ minted' = minted + 1 /\ parent'[minted + 1] = from
        /\ \A i \in 1 .. minted' : i \in 1 .. minted \/ i = minted + 1
        /\ calls'[c].new.jti = minted + 1
    BY <1>0, <1>2, NewToken
  <2>2. sess'[s].jti = minted + 1 /\ sess'[s].st = "active"
    BY <1>0, <1>2 DEF Fresh, Rotated
  <2>3. \A i \in 1 .. minted' : parent'[i] \in 0 .. minted /\ parent'[i] < i
    BY <1>0, <2>1
  <2>4. ASSUME NEW t \in Sessions, sess'[t].jti # 0 PROVE Unspent(sess[t].jti)'
    <3>1. CASE t = s
      BY <1>0, <2>1, <2>2, <2>3, <3>1 DEF Unspent
    <3>2. CASE t # s
      <4>1. sess'[t].jti = sess[t].jti /\ sess[t].jti # 0 /\ Unspent(sess[t].jti)
        BY <1>2, <1>a, <1>b, <2>4, <3>2
      <4>2. from # sess[t].jti
        BY <1>2, <2>0, <3>2, <4>1 DEF IInv, JtiInv
      <4> QED BY <1>0, <2>1, <4>1, <4>2 DEF Unspent
    <3> QED BY <3>1, <3>2
  <2>5. ASSUME NEW t \in Sessions, sess'[t].receipt # NoReceipt
        PROVE  /\ sess'[t].receipt.next.jti \in 1 .. minted' /\ sess'[t].receipt.input.jti # 0
               /\ parent'[sess'[t].receipt.next.jti] = sess'[t].receipt.input.jti
               /\ sess'[t].receipt.attempt = sess'[t].receipt.input.jti
    <3>1. CASE sess'[t].receipt = sess[t].receipt
      BY <1>0, <1>c, <2>1, <2>5, <3>1
    <3>2. CASE sess'[t].receipt # sess[t].receipt
      <4>1. t = s /\ Rotated(c) /\ from # 0 /\ from = calls[c].tok.jti
        BY <1>2, <1>b, <2>5, <3>2 DEF Fresh
      <4>2. sess'[t].receipt = [input |-> calls[c].tok, attempt |-> calls[c].attempt, next |-> calls'[c].new]
        BY <4>1 DEF Rotated
      <4>3. calls[c].attempt = calls[c].tok.jti
        BY <4>1, CallFacts DEF CallOK, Rotated
      <4> QED BY <1>0, <2>1, <4>1, <4>2, <4>3
    <3> QED BY <3>1, <3>2
  <2>6. \A t, u \in Sessions : t # u /\ sess'[t].jti = sess'[u].jti => sess'[t].jti = 0
    <3>1. \A t \in Sessions \ {s} : sess'[t].jti \in {0, sess[t].jti} /\ sess'[t].jti # minted + 1
      BY <1>0, <1>2, <1>a, <1>b
    <3> QED BY <2>2, <3>1 DEF IInv, JtiInv
  <2>7. \A i, j \in 1 .. minted' : parent'[i] = parent'[j] /\ parent'[i] # 0 => i = j
    <3>1. \A i \in 1 .. minted : from # 0 => parent[i] # from
      BY <1>2 DEF Unspent
    <3> QED BY <1>0, <2>1, <3>1 DEF IInv, JtiInv
  <2>8. \A t \in Sessions : sess'[t].jti <= minted' /\ (sess'[t].st = "active" => sess'[t].jti # 0)
    BY <1>0, <1>2, <1>a, <1>b, <2>1, <2>2
  <2> QED BY <2>3, <2>4, <2>5, <2>6, <2>7, <2>8 DEF JtiInv
<1> QED BY <1>1, <1>2, WriteCases

\* What a write does to each session.
LEMMA WriteShapes ==
  ASSUME IInv, NEW c \in Calls, WriteStep(c)
  PROVE  \A t \in Sessions :
           /\ Kept(t) \/ Gone(t) \/ (t = calls[c].s /\ (Fresh(t) \/ Rotated(c)))
           /\ over'[t] = over[t] \/ over'[t] = minted
           /\ sess'[t].jti \in {0, sess[t].jti, NewJti}
           /\ t # calls[c].s => sess'[t].jti \in {0, sess[t].jti}
<1>1. \A t \in Sessions : Kept(t) \/ Gone(t) \/ (t = calls[c].s /\ (Fresh(t) \/ Rotated(c)))
  BY WriteCases
<1>2. ASSUME NEW t \in Sessions, Kept(t) \/ Gone(t)
      PROVE  (over'[t] = over[t] \/ over'[t] = minted) /\ sess'[t].jti \in {0, sess[t].jti}
  BY <1>2 DEF Kept, Gone, Closed
<1>3. ASSUME NEW t \in Sessions, t = calls[c].s, Fresh(t) \/ Rotated(c)
      PROVE  (over'[t] = over[t] \/ over'[t] = minted) /\ sess'[t].jti = NewJti
  BY <1>3 DEF Fresh, Rotated, Closed
<1> QED BY <1>1, <1>2, <1>3

\* A token that was sound stays sound.
LEMMA OldTokens ==
  ASSUME IInv, NEW c \in Calls, WriteStep(c), NEW t \in Sessions, NEW tok \in Token, Sound(t, tok)
  PROVE  Sound(t, tok)'
<1>0. /\ tok.jti \in Nat /\ tok.ver \in Nat /\ minted \in Nat /\ NewJti = minted + 1
      /\ minted' \in {minted, NewJti} /\ tok.jti <= minted
      /\ sess \in [Sessions -> SessionType] /\ sess' \in [Sessions -> SessionType]
  BY WriteFrame DEF Token, Sound
<1>1. tok.jti <= minted' /\ tok.jti # NewJti /\ (tok # NoToken => tok.jti # 0)
  BY <1>0 DEF Sound
<1>2. tok.jti # 0 => \A u \in Sessions \ {t} : sess'[u].jti # tok.jti
  BY <1>1, WriteShapes DEF Sound
<1>3. ASSUME device'.status = "active", tok.jti # 0, tok.jti = sess'[t].jti
      PROVE  IF sess'[t].st = "active" THEN tok.ver = sess'[t].gen ELSE tok.ver < sess'[t].gen
  <2>1. device.status = "active"
    BY <1>1, <1>3 DEF WriteStep
  <2>2. CASE Kept(t)
    BY <1>3, <2>1, <2>2 DEF Kept, Sound
  <2>3. CASE Gone(t)
    <3>1. sess'[t].jti = sess[t].jti /\ sess'[t].gen > sess[t].gen /\ sess'[t].st # "active"
      BY <1>3, <2>3 DEF Gone
    <3>2. sess[t].gen \in Nat /\ sess'[t].gen \in Nat
      BY <1>0 DEF SessionType
    <3> QED BY <1>0, <1>3, <2>1, <3>1, <3>2 DEF Sound
  <2>4. CASE t = calls[c].s /\ (Fresh(t) \/ Rotated(c))
    BY <1>1, <1>3, <2>4 DEF Fresh, Rotated
  <2> QED BY <2>2, <2>3, <2>4, WriteShapes
<1> QED BY <1>1, <1>2, <1>3 DEF Sound

LEMMA WriteTokens ==
  ASSUME IInv, NEW c \in Calls, WriteStep(c)
  PROVE  TokenInv'
<1>0. /\ minted \in Nat /\ NewJti = minted + 1 /\ minted' \in {minted, NewJti}
      /\ sess \in [Sessions -> SessionType] /\ sess' \in [Sessions -> SessionType]
      /\ calls \in [Calls -> CallType] /\ calls' \in [Calls -> CallType]
      /\ store \in [Sessions -> Token] /\ store' = store
      /\ \A d \in Calls \ {c} : calls'[d] = calls[d]
  BY WriteFrame
<1>1. ASSUME NEW t \in Sessions, NEW tok \in Token
      PROVE  Sound(t, tok) => Sound(t, tok)'
  BY <1>1, OldTokens
<1>2. \A t \in Sessions : Sound(t, NoToken)
  BY <1>0 DEF Sound, NoToken
<1>3. ASSUME NEW from, Minting(c, from)
      PROVE  calls[c].s \in Sessions /\ Sound(calls[c].s, calls[c].new)'
  <2>1. /\ calls'[c].new \in Token /\ calls'[c].new.jti = NewJti /\ minted' = NewJti
        /\ Current(calls[c].s, calls[c].new)' /\ calls'[c].s = calls[c].s /\ calls[c].s \in Sessions
    BY <1>3, NewToken
  <2>2. \A u \in Sessions \ {calls[c].s} : sess'[u].jti # NewJti
    <3>1. \A u \in Sessions : sess[u].jti \in Nat /\ sess[u].jti <= minted
      BY <1>0 DEF SessionType, IInv, JtiInv
    <3> QED BY <1>0, <3>1, WriteShapes
  <2> QED BY <1>0, <2>1, <2>2 DEF Sound, Current, Matches
<1>4. ASSUME NEW t \in Sessions PROVE Sound(t, store[t])'
  BY <1>0, <1>1 DEF IInv, TokenInv, Sound
<1>5. ASSUME NEW t \in Sessions PROVE Sound(t, sess[t].receipt.next)'
  <2>0. sess[t].receipt.next \in Token /\ Sound(t, sess[t].receipt.next) /\ NoReceipt.next = NoToken
    BY <1>0 DEF SessionType, IInv, TokenInv, NoReceipt
  <2>1. CASE sess'[t].receipt \in {sess[t].receipt, NoReceipt}
    <3>1. \A tok \in {sess[t].receipt.next, NoToken} : Sound(t, tok)'
      BY <1>1, <1>2, <2>0, EmptyTypes
    <3> QED BY <2>0, <2>1, <3>1 DEF Sound
  <2>2. CASE sess'[t].receipt \notin {sess[t].receipt, NoReceipt}
    <3>1. t = calls[c].s /\ Rotated(c)
      BY <2>2, WriteShapes DEF Kept, Gone, Fresh
    <3>2. \E from : Minting(c, from)
      BY <2>2, WriteCases DEF Kept, Gone
    <3>3. sess'[t].receipt.next = calls'[c].new
      BY <3>1 DEF Rotated
    <3>4. calls'[c].s = calls[c].s
      BY <1>0, <3>2 DEF Minting, CallType
    <3> QED BY <1>3, <3>1, <3>2, <3>3, <3>4 DEF Sound
  <2> QED BY <2>1, <2>2
<1>6. ASSUME NEW d \in Calls PROVE Sound(calls[d].s, calls[d].tok)' /\ Sound(calls[d].s, calls[d].new)'
  <2>1. /\ calls[d].s \in Sessions /\ calls[d].tok \in Token /\ calls[d].new \in Token
        /\ Sound(calls[d].s, calls[d].tok) /\ Sound(calls[d].s, calls[d].new)
    BY <1>0, CallFacts DEF CallType
  <2>2. CASE d # c
    BY <1>0, <1>1, <2>1, <2>2 DEF Sound
  <2>3. CASE d = c /\ calls'[c] = NoCall
    <3>1. NoCall.s \in Sessions /\ NoCall.tok = NoToken /\ NoCall.new = NoToken
      BY DEF NoCall, Sessions
    <3>2. Sound(NoCall.s, NoToken)'
      BY <1>1, <1>2, <3>1, EmptyTypes
    <3> QED BY <2>3, <3>1, <3>2 DEF Sound
  <2>4. CASE d = c /\ \E from : Minting(c, from)
    <3>1. calls'[c].s = calls[c].s /\ calls'[c].tok = calls[c].tok
      BY <1>0, <2>4 DEF Minting, CallType
    <3> QED BY <1>1, <1>3, <2>1, <2>4, <3>1 DEF Sound
  <2> QED BY <1>0, <2>2, <2>3, <2>4 DEF WriteStep, Ending, Fail
<1> QED BY <1>4, <1>5, <1>6 DEF TokenInv

LEMMA WriteOver ==
  ASSUME IInv, NEW c \in Calls, WriteStep(c)
  PROVE  OverInv'
<1>0. /\ minted \in Nat /\ NewJti = minted + 1 /\ over \in [Sessions -> 0 .. minted]
      /\ \A t \in Sessions : /\ sess[t].receipt.next.jti \in Nat /\ sess[t].receipt.next.jti <= minted
                             /\ NoReceipt.next.jti = 0
  <2>1. \A t \in Sessions : sess[t].receipt.next \in Token /\ Sound(t, sess[t].receipt.next)
    BY DEF IInv, TypeOK, SessionType, TokenInv
  <2> QED BY <2>1, WriteFrame DEF Sound, Token, NoReceipt, NoToken
<1> SUFFICES ASSUME NEW t \in Sessions, sess'[t].st = "active"
             PROVE  /\ sess'[t].jti > over'[t]
                    /\ sess'[t].receipt.next.jti = sess'[t].jti => sess'[t].receipt.input.jti > over'[t]
  BY DEF OverInv
<1>1. CASE Kept(t)
  BY <1>1 DEF Kept, IInv, OverInv
<1>2. CASE Gone(t)
  BY <1>2 DEF Gone
<1>3. CASE Fresh(t)
  <2>1. sess'[t].jti = NewJti /\ sess'[t].receipt \in {sess[t].receipt, NoReceipt}
    BY <1>3 DEF Fresh
  <2>2. over'[t] \in 0 .. minted
    BY <1>0, WriteShapes
  <2> QED BY <1>0, <2>1, <2>2
<1>4. CASE t = calls[c].s /\ Rotated(c)
  <2>1. /\ sess'[t].jti = NewJti /\ over'[t] = over[t] /\ sess[t].st = "active"
        /\ sess'[t].receipt.input = calls[c].tok /\ calls[c].tok.jti = sess[t].jti
    BY <1>4 DEF Rotated
  <2>2. sess[t].jti > over[t] /\ over[t] \in 0 .. minted
    BY <1>0, <2>1 DEF IInv, OverInv
  <2> QED BY <1>0, <2>1, <2>2
<1> QED BY <1>1, <1>2, <1>3, <1>4, WriteShapes

LEMMA WriteCalls ==
  ASSUME IInv, NEW c \in Calls, WriteStep(c)
  PROVE  CallInv'
<1>0. /\ minted \in Nat /\ NewJti = minted + 1 /\ \A i \in 1 .. minted : parent'[i] = parent[i]
      /\ \A d \in Calls \ {c} : calls'[d] = calls[d]
      /\ managed' = managed /\ Primary \in Sessions
      /\ sess[Primary].gen \in Nat /\ sess'[Primary].gen \in Nat
      /\ \A d \in Calls : calls[d] \in CallType /\ CallOK(calls[d])
  BY WriteFrame, CallFacts DEF SessionType, Sessions
<1>1. ASSUME NEW d \in Calls \ {c} PROVE CallOK(calls[d])'
  <2>1. calls'[d] = calls[d] /\ CallOK(calls[d]) /\ calls[d].seen.gen \in Nat
    BY <1>0 DEF CallType, GlanceType
  <2>2. calls[d].new # NoToken => parent'[calls[d].new.jti] = parent[calls[d].new.jti]
    <3>1. calls[d].new.jti \in Nat /\ Sound(calls[d].s, calls[d].new)
      BY <1>0, CallFacts DEF CallType, Token
    <3> QED BY <1>0, <3>1 DEF Sound
  <2>3. /\ Counts' => Counts
        /\ \/ sess'[Primary].gen > sess[Primary].gen
           \/ sess'[Primary].gen = sess[Primary].gen /\ sess'[Primary].st = sess[Primary].st
    BY DEF WriteStep
  <2> DEFINE call == calls[d]
  <2>4. /\ call.kind = "select" /\ call.pc = "write" /\ call.s = Primary /\ Counts' =>
             /\ call.seen.gen <= sess'[Primary].gen
             /\ call.seen.gen = sess'[Primary].gen => call.seen.st = sess'[Primary].st
        /\ call.kind = "issue" /\ call.pc = "write" /\ Counts' =>
             /\ call.seen.gen <= sess'[Primary].gen
             /\ call.seen.gen = sess'[Primary].gen => sess'[Primary].st = "active"
    BY <1>0, <2>1, <2>3 DEF CallOK
  <2>5. /\ call.kind = "refresh" =>
             /\ call.pc \in {"read", "write", "reread", "answered"}
             /\ call.tok # NoToken /\ call.attempt = call.tok.jti
             /\ call.new # NoToken => parent'[call.new.jti] = call.tok.jti
        /\ call.new # NoToken => call.pc = "answered"
        /\ call.kind \in Replacing /\ call.pc = "answered" =>
             call.new # NoToken /\ parent'[call.new.jti] = 0
        /\ call.kind = "register" => ~managed' /\ call.s = Primary
        /\ call.kind = "redeem" =>
             /\ call.grant # NoGrant /\ call.s # Primary
             /\ call.pc = "write" => call.seen.map[call.s].st = "none"
    BY <1>0, <2>1, <2>2 DEF CallOK
  <2> HIDE DEF call
  <2>6. calls'[d] = call
    BY <2>1 DEF call
  <2> QED BY <2>4, <2>5, <2>6 DEF CallOK
<1>2. ASSUME calls'[c] = NoCall PROVE CallOK(calls[c])'
  BY <1>2 DEF CallOK, NoCall, Replacing
<1>3. ASSUME NEW from \in 0 .. minted, Minting(c, from),
             \/ from = 0 /\ calls[c].kind \in Replacing
             \/ calls[c].kind = "refresh" /\ from = calls[c].tok.jti
      PROVE  CallOK(calls[c])'
  <2>1. /\ calls'[c].kind = calls[c].kind /\ calls'[c].s = calls[c].s /\ calls'[c].tok = calls[c].tok
        /\ calls'[c].attempt = calls[c].attempt /\ calls'[c].grant = calls[c].grant
        /\ calls'[c].pc = "answered" /\ calls[c].pc = "write"
    BY <1>3, NewToken DEF Minting
  <2>2. parent'[calls'[c].new.jti] = from /\ calls'[c].new # NoToken
    BY <1>3, NewToken
  <2>3. calls[c].kind \in Replacing => calls[c].kind # "refresh"
    BY DEF Replacing
  <2>4. CallOK(calls[c]) /\ managed' = managed
    BY <1>0
  <2> QED BY <1>3, <2>1, <2>2, <2>3, <2>4 DEF CallOK
<1>4. CallOK(calls[c])'
  <2>1. CASE Ending(c)
    BY <1>2, <2>1, WriteFrame DEF Ending, Fail
  <2>2. CASE ~Ending(c)
    BY <1>3, <2>2, WriteCases DEF Rotated
  <2> QED BY <2>1, <2>2
<1> QED BY <1>1, <1>4 DEF CallInv

\* What was over stays over.
LEMMA EndedStays ==
  ASSUME IInv, NEW c \in Calls, WriteStep(c), NEW t \in Sessions, NEW tok \in Token, Sound(t, tok)
  PROVE  ~Live \/ Ended(t, tok) => ~Live' \/ Ended(t, tok)'
<1>0. /\ minted \in Nat /\ tok.jti \in Nat /\ tok.jti <= minted /\ over[t] \in 0 .. minted
      /\ faded' = faded /\ over'[t] \in {over[t], minted}
  BY WriteFrame, WriteShapes DEF Sound, Token
<1>1. Live' => Live \/ over'[t] = minted
  BY DEF WriteStep
<1> QED BY <1>0, <1>1 DEF Ended

\* All tokens of a closed session are over.
LEMMA ClosedIsOver ==
  ASSUME IInv, NEW c \in Calls, WriteStep(c), NEW t \in Sessions, NEW tok \in Token, Sound(t, tok),
         Closed(t), Live /\ ~Ended(t, tok) => sess[t].st = "active" /\ t \notin late
  PROVE  ~Live' \/ Ended(t, tok)'
<1>1. tok.jti \in Nat /\ minted \in Nat /\ tok.jti <= minted
  BY WriteFrame DEF Sound, Token
<1>2. CASE over'[t] = minted
  BY <1>1, <1>2 DEF Ended
<1>3. CASE sess[t].st # "active" \/ t \in late
  BY <1>3, EndedStays
<1> QED BY <1>2, <1>3 DEF Closed

\* A token in force that this write does not spend stays in force.
LEMMA UsableStays ==
  ASSUME IInv, NEW c \in Calls, WriteStep(c), NEW t \in Sessions, NEW tok \in Token, Sound(t, tok),
         Usable(t, tok), ~(t = calls[c].s /\ tok = calls[c].tok /\ Rotated(c))
  PROVE  Usable(t, tok)'
<1>1. Live /\ ~Ended(t, tok) => Current(t, tok)
  BY DEF Usable
<1>2. ~Live \/ Ended(t, tok) => ~Live' \/ Ended(t, tok)'
  BY EndedStays
<1>3. CASE Kept(t)
  BY <1>1, <1>2, <1>3 DEF Kept, Usable, Current, Matches
<1>4. CASE Closed(t)
  <2>1. ~Live' \/ Ended(t, tok)'
    BY <1>1, <1>4, ClosedIsOver DEF Current, Matches
  <2> QED BY <2>1 DEF Usable
<1>5. CASE t = calls[c].s /\ Rotated(c)
  <2>1. calls[c].tok \in Token
    BY CallFacts DEF CallType
  <2>2. Current(t, tok) => tok = calls[c].tok
    BY <1>5, <2>1 DEF Rotated, Current, Matches, Token
  <2> QED BY <1>1, <1>2, <1>5, <2>2 DEF Usable
<1> QED BY <1>3, <1>4, <1>5, WriteShapes DEF Gone, Fresh

\* And one that nobody has presented is not presented by it.
LEMMA UnusedStays ==
  ASSUME IInv, NEW c \in Calls, WriteStep(c), NEW t \in Sessions, NEW tok \in Token, Sound(t, tok),
         Unused(t, tok), tok # NoToken
  PROVE  Unused(t, tok)'
<1>0. /\ minted \in Nat /\ NewJti = minted + 1 /\ tok.jti \in Nat /\ tok.jti <= minted /\ tok.jti # 0
      /\ \A i \in 1 .. minted : parent'[i] = parent[i]
      /\ calls[c] \in CallType /\ Sound(calls[c].s, calls[c].tok)
  BY WriteFrame, CallFacts DEF Sound, Token
<1>1. \A d \in Calls : calls'[d].s = t => calls'[d].tok # tok
  <2>1. NoCall.tok = NoToken
    BY DEF NoCall
  <2> QED BY <2>1, WriteFrame DEF Unused
<1>2. Unspent(tok.jti) /\ \A i \in 1 .. minted : parent[i] # tok.jti
  BY DEF Unused, Unspent
<1>3. ASSUME NEW from \in 0 .. minted, Minting(c, from), from # tok.jti
      PROVE  Unspent(tok.jti)'
  BY <1>0, <1>2, <1>3, NewToken DEF Unspent
<1>4. CASE Ending(c)
  BY <1>1, <1>2, <1>4 DEF Ending, Unused, Unspent
<1>5. CASE Rotated(c) /\ Minting(c, calls[c].tok.jti)
  <2>1. calls[c].tok \in Token /\ calls[c].s \in Sessions /\ calls[c].tok.jti \in 0 .. minted
    BY <1>0 DEF CallType, Token, Sound
  <2>2. calls[c].tok.jti # tok.jti
    <3>1. CASE t = calls[c].s
      <4>1. calls[c].tok # tok
        BY <3>1 DEF Unused
      <4>2. calls[c].tok.jti = tok.jti => calls[c].tok.ver = tok.ver
        BY <1>0, <1>5, <3>1 DEF Rotated, Sound
      <4> QED BY <2>1, <4>1, <4>2 DEF Token
    <3>2. CASE t # calls[c].s
      BY <1>0, <1>5, <2>1, <3>2 DEF Rotated, Sound
    <3> QED BY <3>1, <3>2
  <2> QED BY <1>1, <1>3, <1>5, <2>1, <2>2 DEF Unused
<1>6. CASE Minting(c, 0)
  BY <1>0, <1>1, <1>3, <1>6 DEF Unused
<1> QED BY <1>4, <1>5, <1>6 DEF WriteStep

\* The token that a write gives out is in force and new to everybody.
LEMMA NewIsUnused ==
  ASSUME IInv, NEW c \in Calls, WriteStep(c), NEW from \in 0 .. minted, Minting(c, from)
  PROVE  Usable(calls[c].s, calls[c].new)' /\ Unused(calls[c].s, calls[c].new)'
<1>0. /\ minted \in Nat /\ NewJti = minted + 1 /\ minted' = NewJti
      /\ calls'[c].new.jti = NewJti /\ parent'[NewJti] = from /\ calls'[c].s = calls[c].s
      /\ \A i \in 1 .. NewJti : i # NewJti => i \in 1 .. minted
      /\ \A i \in 1 .. minted : parent'[i] = parent[i] /\ parent[i] < i
      /\ Current(calls[c].s, calls[c].new)'
  <2>1. minted \in Nat /\ NewJti = minted + 1 /\ \A i \in 1 .. minted : parent'[i] = parent[i]
    BY WriteFrame
  <2>2. \A i \in 1 .. minted : parent[i] < i
    BY DEF IInv, JtiInv
  <2> QED BY <2>1, <2>2, NewToken
<1>1. \A d \in Calls : calls'[d].tok.jti <= minted
  <2>1. \A d \in Calls : calls[d].tok.jti <= minted
    BY CallFacts DEF Sound
  <2> QED BY <1>0, <2>1, WriteFrame DEF NoCall, NoToken
<1>2. \A i \in 1 .. NewJti : parent'[i] # NewJti
  <2>1. ASSUME NEW i \in 1 .. minted PROVE parent'[i] # NewJti
    BY <1>0
  <2> QED BY <1>0, <2>1
<1> QED BY <1>0, <1>1, <1>2 DEF Usable, Unused, Unspent

LEMMA WriteRenews ==
  ASSUME IInv, NEW c \in Calls, WriteStep(c)
  PROVE  RenewInv'
<1>0. /\ minted \in Nat /\ NewJti = minted + 1 /\ store' = store /\ attempt' = attempt
      /\ calls \in [Calls -> CallType] /\ calls' \in [Calls -> CallType]
      /\ store \in [Sessions -> Token] /\ \A d \in Calls \ {c} : calls'[d] = calls[d]
      /\ \A t \in Sessions : Sound(t, store[t])
      /\ \A d \in Calls : calls[d].s \in Sessions /\ calls[d].tok \in Token /\ calls[d].new \in Token
      /\ \A d \in Calls : Sound(calls[d].s, calls[d].tok) /\ Sound(calls[d].s, calls[d].new)
      /\ NoToken.jti = 0 /\ NoCall.tok = NoToken /\ NoCall.new = NoToken /\ NoReceipt.input = NoToken
  BY WriteFrame DEF IInv, TokenInv, CallType, NoCall, NoToken, NoReceipt
\* What a rotation knows of the store.
<1>1. ASSUME Rotated(c), Minting(c, calls[c].tok.jti)
      PROVE  /\ calls[c].s \in Sessions /\ calls[c].tok # NoToken /\ calls'[c].new.jti = NewJti
             /\ store[calls[c].s] = calls[c].tok =>
                  attempt[calls[c].s] = calls[c].attempt /\ calls[c].attempt = calls[c].tok.jti
             /\ Current(calls[c].s, calls[c].new)' /\ calls'[c].s = calls[c].s
             /\ sess'[calls[c].s].receipt =
                  [input |-> calls[c].tok, attempt |-> calls[c].attempt, next |-> calls'[c].new]
             /\ calls[c].s \notin stale'
  <2>1. /\ calls'[c].new.jti = NewJti /\ Current(calls[c].s, calls[c].new)'
        /\ calls'[c].s = calls[c].s /\ calls[c].s \in Sessions
    BY <1>1, NewToken
  <2>2. /\ calls[c].kind = "refresh" /\ calls[c].s \notin stale'
        /\ sess'[calls[c].s].receipt =
             [input |-> calls[c].tok, attempt |-> calls[c].attempt, next |-> calls'[c].new]
    BY <1>1 DEF Rotated
  <2>3. /\ calls[c].tok # NoToken /\ calls[c].attempt = calls[c].tok.jti
        /\ store[calls[c].s] = calls[c].tok => attempt[calls[c].s] = calls[c].attempt
    BY <2>2, CallFacts DEF Refreshing, CallOK
  <2> QED BY <2>1, <2>2, <2>3
<1>2. ASSUME NEW t \in Sessions, t = calls[c].s, Rotated(c) PROVE Minting(c, calls[c].tok.jti)
  <2>1. sess[t].jti \in Nat /\ sess[t].jti <= minted /\ sess'[t].jti = NewJti
    BY <1>2, WriteFrame DEF Rotated, IInv, JtiInv, SessionType
  <2>2. sess'[t].jti \notin {0, sess[t].jti} /\ Replacing \intersect {"refresh"} = {}
    BY <1>0, <2>1 DEF Replacing
  <2> QED BY <1>2, <2>2 DEF WriteStep, Kept, Gone, Rotated
<1>3. Renewable'
  <2> SUFFICES ASSUME NEW t \in Sessions, store[t] # NoToken, Live', ~Ended(t, store[t])'
               PROVE  Current(t, store[t])' \/ Recoverable(t, store[t], attempt[t])'
    BY <1>0 DEF Renewable
  <2>1. Live /\ ~Ended(t, store[t])
    <3>1. ~Live \/ Ended(t, store[t]) => ~Live' \/ (store[t].jti <= over'[t] \/ store[t].jti <= faded'[t])
      BY <1>0, EndedStays DEF Ended
    <3> QED BY <1>0, <3>1 DEF Ended
  <2>2. Current(t, store[t]) \/ Recoverable(t, store[t], attempt[t])
    BY <2>1 DEF IInv, RenewInv, Renewable
  <2>3. CASE Kept(t)
    BY <1>0, <2>2, <2>3 DEF Kept, Current, Matches, Recoverable
  <2>4. CASE Closed(t)
    <3>1. ~Live' \/ (store[t].jti <= over'[t] \/ store[t].jti <= faded'[t])
      BY <1>0, <2>2, <2>4, ClosedIsOver DEF Current, Matches, Recoverable, Ended
    <3> QED BY <1>0, <3>1 DEF Ended
  <2>5. CASE t = calls[c].s /\ Rotated(c)
    <3>1. ~Recoverable(t, store[t], attempt[t])
      <4>1. ASSUME Recoverable(t, store[t], attempt[t]) PROVE sess[t].receipt.next = calls[c].tok
        <5>1. sess[t].receipt.next \in Token
          BY WriteFrame DEF SessionType
        <5>2. /\ sess[t].receipt.next.ver = sess[t].gen /\ sess[t].receipt.next.jti = sess[t].jti
              /\ calls[c].tok.ver = sess[t].gen /\ calls[c].tok.jti = sess[t].jti
          BY <2>5, <4>1 DEF Recoverable, Current, Matches, Rotated
        <5> QED BY <1>0, <5>1, <5>2, SameToken
      <4> QED BY <2>5, <4>1 DEF Recoverable, IInv, RenewInv, ReceiptKept
    <3>2. store[t] = calls[c].tok
      BY <1>0, <2>2, <2>5, <3>1 DEF Current, Matches, Rotated, Token
    <3>3. /\ attempt[t] = calls[c].attempt /\ t \notin stale'
          /\ sess'[t].receipt = [input |-> calls[c].tok, attempt |-> calls[c].attempt, next |-> calls'[c].new]
          /\ Current(calls[c].s, calls[c].new)' /\ calls'[c].s = calls[c].s
      BY <1>1, <1>2, <2>5, <3>2
    <3> QED BY <1>0, <2>5, <3>2, <3>3 DEF Recoverable, Current, Matches
  <2> QED BY <2>3, <2>4, <2>5, WriteShapes DEF Gone, Fresh
<1>4. ASSUME NEW t \in Sessions PROVE ReceiptKept(t)'
  <2>1. CASE sess'[t].receipt \in {sess[t].receipt, NoReceipt}
    <3> SUFFICES ASSUME store[t] # NoToken, sess'[t].receipt.input = store[t]
                 PROVE  /\ attempt[t] = store[t].jti
                        /\ \A d \in Calls : calls'[d].s = t => calls'[d].tok # sess'[t].receipt.next
      BY <1>0 DEF ReceiptKept
    <3>1. sess'[t].receipt = sess[t].receipt
      BY <1>0, <2>1
    <3>2. /\ attempt[t] = store[t].jti /\ sess[t].receipt.next # NoToken
          /\ \A d \in Calls : calls[d].s = t => calls[d].tok # sess[t].receipt.next
      BY <3>1, ReceiptFacts DEF IInv, RenewInv, ReceiptKept
    <3> QED BY <1>0, <3>1, <3>2, WriteFrame
  <2>2. CASE t = calls[c].s /\ Rotated(c)
    <3>1. /\ sess'[t].receipt.next = calls'[c].new /\ calls'[c].new.jti = NewJti
          /\ sess'[t].receipt.input = calls[c].tok
          /\ store[t] = calls[c].tok => attempt[t] = calls[c].attempt /\ calls[c].attempt = calls[c].tok.jti
      BY <1>1, <1>2, <2>2
    <3>2. \A d \in Calls : calls'[d].tok.jti <= minted
      BY <1>0, WriteFrame DEF Sound
    <3> QED BY <1>0, <3>1, <3>2 DEF ReceiptKept
  <2> QED BY <2>1, <2>2, WriteShapes DEF Kept, Gone, Fresh
<1>5. ASSUME NEW d \in Calls \ {c} PROVE Refreshing(calls[d])' /\ Arriving(d)'
  <2>0. calls'[d] = calls[d] /\ Refreshing(calls[d]) /\ Arriving(d)
    BY <1>0 DEF IInv, RenewInv
  <2>1. ASSUME calls[d].new # NoToken, Usable(calls[d].s, calls[d].new), Unused(calls[d].s, calls[d].new)
        PROVE  Usable(calls[d].s, calls[d].new)' /\ Unused(calls[d].s, calls[d].new)'
    <3> DEFINE t == calls[d].s
               tok == calls[d].new
    <3>1. t \in Sessions /\ tok \in Token /\ Sound(t, tok)
      BY <1>0
    <3>2. ~(t = calls[c].s /\ tok = calls[c].tok)
      BY <2>1 DEF Unused
    <3>3. \A u \in Sessions, x \in Token : u = t /\ x = tok => Usable(u, x)' /\ Unused(u, x)'
      BY <2>1, <3>1, <3>2, UsableStays, UnusedStays
    <3> QED BY <2>0, <3>1, <3>3 DEF Usable, Unused, Current, Matches, Ended
  <2>2. ASSUME ~Live \/ Ended(calls[d].s, calls[d].tok)
        PROVE  ~Live' \/ Ended(calls[d].s, calls[d].tok)'
    <3>1. \A u \in Sessions, x \in Token : u = calls[d].s /\ x = calls[d].tok => ~Live' \/ Ended(u, x)'
      BY <1>0, <2>2, EndedStays
    <3> QED BY <1>0, <2>0, <3>1 DEF Ended
  <2>3. Refreshing(calls[d])'
    BY <1>0, <2>0, <2>1, <2>2 DEF Refreshing
  <2>4. Arriving(d)'
    <3> SUFFICES ASSUME calls[d].kind \in Replacing, calls[d].pc = "answered"
                 PROVE  /\ Usable(calls[d].s, calls[d].new)' /\ Unused(calls[d].s, calls[d].new)'
                        /\ store[calls[d].s] # calls[d].new
                        /\ \A e \in Calls \ {d} : calls'[e].new.jti # calls[d].new.jti
      BY <1>0, <2>0 DEF Arriving
    <3>1. /\ calls[d].new # NoToken /\ Usable(calls[d].s, calls[d].new) /\ Unused(calls[d].s, calls[d].new)
          /\ store[calls[d].s] # calls[d].new /\ calls[d].new.jti \in Nat
          /\ calls[d].new.jti # 0 /\ calls[d].new.jti <= minted
          /\ \A e \in Calls \ {d} : calls[e].new.jti # calls[d].new.jti
      BY <1>0, <2>0, CallFacts DEF CallOK, Arriving, Sound, Token
    <3>2. calls'[c].new.jti \in {0, NewJti}
      BY <1>0, NewToken DEF WriteStep, Ending, Fail
    <3> QED BY <1>0, <2>1, <3>1, <3>2
  <2> QED BY <2>3, <2>4
<1>6. Refreshing(calls[c])' /\ Arriving(c)'
  <2>1. CASE calls'[c] = NoCall
    BY <2>1 DEF Refreshing, Arriving, NoCall, Replacing
  <2>2. ASSUME NEW from \in 0 .. minted, Minting(c, from)
        PROVE  Refreshing(calls[c])' /\ Arriving(c)'
    <3>1. /\ Usable(calls[c].s, calls[c].new)' /\ Unused(calls[c].s, calls[c].new)'
          /\ calls'[c].new # NoToken /\ calls'[c].new.jti = NewJti
          /\ calls'[c].s = calls[c].s /\ calls'[c].tok = calls[c].tok
          /\ calls'[c].kind = calls[c].kind /\ calls'[c].attempt = calls[c].attempt
      BY <2>2, NewIsUnused, NewToken
    <3>2. store[calls[c].s].jti <= minted /\ \A e \in Calls \ {c} : calls'[e].new.jti <= minted
      BY <1>0 DEF Sound
    <3>3. Refreshing(calls[c])
      BY CallFacts
    <3> QED BY <1>0, <3>1, <3>2, <3>3 DEF Refreshing, Arriving
  <2> QED BY <2>1, <2>2, WriteCases DEF Ending, Fail, WriteStep, IInv, TypeOK
<1> QED BY <1>3, <1>4, <1>5, <1>6 DEF RenewInv

LEMMA WriteKeeps ==
  ASSUME IInv, NEW c \in Calls, WriteStep(c), GrantInv'
  PROVE  IInv'
<1>1. TypeOK'
  BY DEF WriteStep
<1> QED BY <1>1, WriteJti, WriteTokens, WriteOver, WriteCalls, WriteRenews DEF IInv

-----------------------------------------------------------------------------
(* The writes, one by one *)

GivenOut(c, tok, from) ==
  /\ parent' = [j \in 1 .. NewJti |-> IF j = NewJti THEN from ELSE parent[j]]
  /\ calls' = [calls EXCEPT ![c].pc = "answered", ![c].new = tok]

LEMMA MintTyped ==
  ASSUME IInv, NEW c \in Calls, NEW tok \in Token, NEW from \in 0 .. minted,
         Mint(calls[c].s, c, tok, from)
  PROVE  /\ minted \in Nat /\ minted' = NewJti /\ NewJti = minted + 1 /\ minted' \in Nat
         /\ \A i \in 0 .. minted : i \in 0 .. minted'
         /\ parent' \in [1 .. minted' -> 0 .. minted'] /\ calls' \in [Calls -> CallType]
         /\ GivenOut(c, tok, from) /\ calls'[c].s = calls[c].s /\ calls'[c].new = tok
<1>1. /\ minted \in Nat /\ NewJti = minted + 1 /\ minted' = NewJti
      /\ parent \in [1 .. minted -> 0 .. minted] /\ calls \in [Calls -> CallType]
      /\ parent' = [j \in 1 .. NewJti |-> IF j = NewJti THEN from ELSE parent[j]]
      /\ calls' = [calls EXCEPT ![c].pc = "answered", ![c].new = tok]
  BY DEF Mint, Reply, NewJti, IInv, TypeOK
<1>2. parent' \in [1 .. minted' -> 0 .. minted']
  <2>1. ASSUME NEW j \in 1 .. minted' PROVE (IF j = NewJti THEN from ELSE parent[j]) \in 0 .. minted'
    <3>1. j # NewJti => j \in 1 .. minted
      BY <1>1, <2>1
    <3> QED BY <1>1, <3>1
  <2> QED BY <1>1, <2>1
<1>3. calls' \in [Calls -> CallType] /\ calls'[c].s = calls[c].s /\ calls'[c].new = tok
  <2>1. PICK old \in CallType : old = calls[c]
    BY <1>1
  <2>2. PICK call \in CallType : call = [old EXCEPT !.pc = "answered", !.new = tok]
    BY DEF CallType
  <2>3. call.s = old.s /\ call.new = tok
    BY <2>2 DEF CallType
  <2>4. calls' = [calls EXCEPT ![c] = call]
    BY <1>1, <2>1, <2>2
  <2> QED BY <1>1, <2>1, <2>3, <2>4
<1> QED BY <1>1, <1>2, <1>3 DEF GivenOut

LEMMA RefreshWrites ==
  ASSUME IInv, NEW c \in Calls, RefreshWrite(c)
  PROVE  WriteStep(c) /\ GrantInv'
<1> DEFINE s == calls[c].s
           tok == calls[c].tok
<1>0. /\ s \in Sessions /\ tok \in Token /\ tok # NoToken /\ tok.ver \in Nat /\ tok.jti \in 0 .. minted
      /\ tok.jti # 0 /\ calls[c].attempt \in Nat /\ minted \in Nat /\ calls[c].kind = "refresh"
      /\ sess \in [Sessions -> SessionType] /\ sess[s] \in SessionType /\ Primary \in Sessions
  <2>1. calls[c].kind = "refresh" /\ minted \in Nat /\ sess \in [Sessions -> SessionType]
    BY DEF RefreshWrite, At, IInv, TypeOK
  <2>2. s \in Sessions /\ tok \in Token /\ tok # NoToken /\ calls[c].attempt \in Nat
    BY <2>1, CallFacts DEF CallType, CallOK
  <2>3. tok.ver \in Nat /\ tok.jti \in Nat
    BY <2>2 DEF Token
  <2>4. tok.jti # 0 /\ tok.jti <= minted
    BY <2>2, CallFacts DEF Sound
  <2> QED BY <2>1, <2>2, <2>3, <2>4 DEF Sessions
<1>z. PICK new \in Token : new = [ver |-> tok.ver + 1, jti |-> NewJti]
  <2>1. [ver |-> tok.ver + 1, jti |-> NewJti] \in Token
    <3>1. tok.ver + 1 \in Nat /\ NewJti \in Nat
      BY <1>0 DEF NewJti
    <3> QED BY <3>1 DEF Token
  <2> QED BY <2>1
<1>1. /\ calls[c].pc = "write" /\ device.status = "active" /\ sess[s].gen = tok.ver /\ sess[s].jti = tok.jti
      /\ sess' = [sess EXCEPT ![s] =
                    [@ EXCEPT !.st = "active", !.gen = new.ver, !.jti = new.jti,
                              !.receipt = [input |-> tok, attempt |-> calls[c].attempt, next |-> new]]]
      /\ late' = late \ {s} /\ stale' = stale \ {s}
      /\ Mint(s, c, new, tok.jti)
      /\ UNCHANGED <<managed, site, device, grants, client, mishaps, over, faded, origin>>
  <2>1. calls[c].pc = "write" /\ MayRotate(s, tok)
    BY DEF RefreshWrite, At
  <2>2. /\ sess' = [sess EXCEPT ![s] =
                      [@ EXCEPT !.st = "active", !.gen = new.ver, !.jti = new.jti,
                                !.receipt = [input |-> tok, attempt |-> calls[c].attempt, next |-> new]]]
        /\ Mint(s, c, new, tok.jti)
    BY <1>z DEF RefreshWrite
  <2>3. /\ late' = late \ {s} /\ stale' = stale \ {s}
        /\ UNCHANGED <<managed, site, device, grants, client, mishaps, over, faded, origin>>
    BY DEF RefreshWrite
  <2> QED BY <2>1, <2>2, <2>3 DEF MayRotate
<1>2. sess[s].st = "active"
  <2>1. Sound(s, tok)
    BY CallFacts
  <2>2. sess[s].gen \in Nat
    BY <1>0 DEF SessionType
  <2> QED BY <1>0, <1>1, <2>1, <2>2 DEF Sound
<1>3. new \in Token /\ new.ver = tok.ver + 1 /\ new.jti = NewJti
  BY <1>z
<1>4. /\ sess'[s] = [sess[s] EXCEPT !.st = "active", !.gen = new.ver, !.jti = new.jti,
                       !.receipt = [input |-> tok, attempt |-> calls[c].attempt, next |-> new]]
      /\ \A t \in Sessions \ {s} : sess'[t] = sess[t]
      /\ sess' = [sess EXCEPT ![s] = sess'[s]]
  <2>1. PICK row : /\ row = [sess[s] EXCEPT !.st = "active", !.gen = new.ver, !.jti = new.jti,
                               !.receipt = [input |-> tok, attempt |-> calls[c].attempt, next |-> new]]
                   /\ sess' = [sess EXCEPT ![s] = row]
    BY <1>1
  <2>2. sess'[s] = row /\ \A t \in Sessions \ {s} : sess'[t] = sess[t]
    BY <1>0, <2>1
  <2> QED BY <2>1, <2>2
<1>5. sess'[s] \in SessionType
  <2>1. new.ver \in Nat /\ new.jti \in Nat
    BY DEF Token
  <2>2. PICK receipt \in [input : Token, attempt : Nat, next : Token] :
          receipt = [input |-> tok, attempt |-> calls[c].attempt, next |-> new]
    BY <1>0
  <2>3. PICK row \in SessionType : row = sess[s]
    BY <1>0
  <2>4. sess'[s] = [row EXCEPT !.st = "active", !.gen = new.ver, !.jti = new.jti, !.receipt = receipt]
    BY <1>4, <2>2, <2>3
  <2> QED BY <2>1, <2>4 DEF SessionType
<1>6. sess' \in [Sessions -> SessionType]
  BY <1>0, <1>4, <1>5
<1>7. /\ sess'[s].st = "active" /\ sess'[s].gen = new.ver /\ sess'[s].jti = NewJti
      /\ sess'[s].start = sess[s].start
      /\ sess'[s].receipt = [input |-> tok, attempt |-> calls[c].attempt, next |-> new]
  BY <1>0, <1>3, <1>4 DEF SessionType
<1>8. /\ minted' = NewJti /\ minted' \in Nat /\ \A i \in 0 .. minted : i \in 0 .. minted'
      /\ parent' \in [1 .. minted' -> 0 .. minted'] /\ calls' \in [Calls -> CallType]
      /\ GivenOut(c, new, tok.jti) /\ calls'[c].s = s /\ calls'[c].new = new
  BY <1>0, <1>1, <1>3, MintTyped
<1>9. TypeOK'
  BY <1>1, <1>6, <1>8 DEF IInv, TypeOK, client
<1>10. Minting(c, tok.jti)
  <2>1. Current(calls[c].s, new)'
    BY <1>1, <1>3, <1>7, <1>8 DEF Current, Matches
  <2> QED BY <1>1, <1>3, <1>8, <2>1 DEF Minting, GivenOut
<1>11. Rotated(c)
  <2>1. calls'[c].new = new
    BY <1>8
  <2> QED BY <1>0, <1>1, <1>2, <1>7, <2>1 DEF Rotated
<1>12. \A t \in Sessions \ {s} : Kept(t)
  BY <1>1, <1>4 DEF Kept
<1>13. \/ sess'[Primary].gen > sess[Primary].gen
       \/ sess'[Primary].gen = sess[Primary].gen /\ sess'[Primary].st = sess[Primary].st
  BY <1>0, <1>1, <1>3, <1>4, <1>7
<1>14. WriteStep(c)
  BY <1>1, <1>9, <1>10, <1>11, <1>12, <1>13 DEF WriteStep, Live, Counts
<1>15. GrantInv'
  BY <1>0, <1>1, <1>2, <1>4, <1>7 DEF IInv, GrantInv
<1> QED BY <1>14, <1>15

\* A session that this write replaces or selects gets a new token.
LEMMA ReplacingWrites ==
  ASSUME IInv, NEW c \in Calls, NEW new \in Token, calls[c].pc = "write",
         calls[c].kind \in Replacing, Mint(calls[c].s, c, new, 0), new.jti = NewJti,
         Current(calls[c].s, new)', UNCHANGED <<managed, site, client, mishaps, faded>>,
         sess' \in [Sessions -> SessionType], late' \subseteq late, stale' = stale,
         over' \in [Sessions -> 0 .. minted], grants' \in [Grants -> [st : {"none", "pending", "redeemed", "expired"}, start : Nat]],
         device' \in [status : {"active", "suspended"}, site : Nat, grant : Grants \union {NoGrant}],
         origin' \in [Slots -> Grants \union {NoGrant}],
         Fresh(calls[c].s), \A t \in Sessions \ {calls[c].s} : Kept(t) \/ Gone(t),
         Live' => Live \/ \A t \in Sessions : over'[t] = minted,
         device'.status = "active" =>
           device.status = "active" \/ \A t \in Sessions : sess'[t].jti \in {0, NewJti},
         Counts' => Counts,
         \/ sess'[Primary].gen > sess[Primary].gen
         \/ sess'[Primary].gen = sess[Primary].gen /\ sess'[Primary].st = sess[Primary].st
  PROVE  WriteStep(c)
<1>1. /\ minted \in Nat /\ minted' = NewJti /\ minted' \in Nat /\ \A i \in 0 .. minted : i \in 0 .. minted'
      /\ parent' \in [1 .. minted' -> 0 .. minted'] /\ calls' \in [Calls -> CallType]
      /\ GivenOut(c, new, 0)
  <2>1. 0 \in 0 .. minted
    BY DEF IInv, TypeOK
  <2>2. Mint(calls[c].s, c, new, 0)
    OBVIOUS
  <2> QED BY <2>1, <2>2, MintTyped
<1>2. TypeOK'
  <2>1. over' \in [Sessions -> 0 .. minted'] /\ faded' \in [Sessions -> 0 .. minted']
    BY <1>1 DEF IInv, TypeOK
  <2>2. managed' \in BOOLEAN /\ site' \in Nat /\ late' \subseteq Slots /\ stale' \subseteq Sessions
        /\ store' \in [Sessions -> Token] /\ attempt' \in [Sessions -> Nat] /\ leaving' \subseteq Sessions
        /\ mishaps' \in 0 .. MaxMishaps
    BY DEF IInv, TypeOK, client
  <2> QED BY <1>1, <2>1, <2>2 DEF TypeOK
<1>3. Minting(c, 0)
  BY <1>1 DEF Minting, GivenOut
<1> QED BY <1>2, <1>3 DEF WriteStep

\* A slot put in the map: the others stay, or are out of time.
LEMMA NewSlotFacts ==
  ASSUME IInv, NEW c \in Calls, NEW s \in Slots, MayCreate(calls[c].seen),
         sess' = WithNewSlot(s, calls[c].seen), late' = late \ {s}, stale' = stale,
         \A t \in Sessions \ {s} : over'[t] = over[t]
  PROVE  /\ sess' \in [Sessions -> SessionType] /\ sess'[Primary] = sess[Primary] /\ s # Primary
         /\ sess'[s] = [NoSession EXCEPT !.st = "active", !.gen = 1, !.jti = NewJti, !.start = 1]
         /\ sess'[s].st = "active" /\ sess'[s].gen = 1 /\ sess'[s].jti = NewJti /\ sess'[s].receipt = NoReceipt
         /\ \A t \in Sessions \ {s} : Kept(t) \/ Gone(t)
<1>0. /\ calls[c].seen \in GlanceType /\ sess \in [Sessions -> SessionType] /\ minted \in Nat
      /\ NewJti \in Nat /\ s # Primary /\ s \in Sessions /\ Primary \in Sessions
  <2>1. calls[c].seen \in GlanceType
    BY CallFacts DEF CallType
  <2>2. sess \in [Sessions -> SessionType] /\ minted \in Nat
    BY DEF IInv, TypeOK
  <2> QED BY <2>1, <2>2, NamesAssumption DEF NewJti, Sessions
<1> DEFINE seen == calls[c].seen
           made == [NoSession EXCEPT !.st = "active", !.gen = 1, !.jti = NewJti, !.start = 1]
<1>1. /\ made \in SessionType /\ made.st = "active" /\ made.gen = 1 /\ made.jti = NewJti
      /\ made.receipt = NoReceipt
  BY <1>0, EmptyTypes DEF SessionType, NoSession
<1>2. /\ sess'[Primary] = sess[Primary] /\ sess'[s] = made
      /\ \A t \in Slots \ {s} : sess'[t] = IF t \in UsableSlots(seen) THEN seen.map[t] ELSE NoSession
  BY <1>0, NamesAssumption DEF WithNewSlot, Sessions
<1>3. \A t \in Slots : sess[t] = seen.map[t]
  BY DEF MayCreate
<1>4. ASSUME NEW t \in Slots \ {s} PROVE Kept(t) \/ Gone(t)
  <2>0. t \in Sessions
    BY DEF Sessions
  <2>1. CASE t \in UsableSlots(seen)
    BY <1>2, <1>3, <2>0, <2>1 DEF Kept
  <2>2. CASE t \notin UsableSlots(seen)
    <3>1. sess[t].st # "active" \/ t \in late
      BY <1>3, <2>2 DEF UsableSlots
    <3>2. sess'[t] = NoSession
      BY <1>2, <2>2
    <3> QED BY <2>0, <3>1, <3>2 DEF Gone, Closed, NoSession
  <2> QED BY <2>1, <2>2
<1>5. Kept(Primary)
  BY <1>0, <1>2 DEF Kept
<1>6. sess' \in [Sessions -> SessionType]
  <2>1. \A t \in Sessions : sess'[t] \in SessionType
    BY <1>0, <1>1, <1>2, <1>3, EmptyTypes DEF Sessions
  <2> QED BY <2>1 DEF WithNewSlot
<1> QED BY <1>0, <1>1, <1>2, <1>4, <1>5, <1>6 DEF Sessions

LEMMA SelectWrites ==
  ASSUME IInv, NEW c \in Calls, SelectWrite(c)
  PROVE  WriteStep(c) /\ GrantInv'
<1> DEFINE s == calls[c].s
           seen == calls[c].seen
<1>0. /\ s \in Sessions /\ seen \in GlanceType /\ minted \in Nat /\ NewJti \in Nat
      /\ sess \in [Sessions -> SessionType] /\ over \in [Sessions -> 0 .. minted]
      /\ sess[s] \in SessionType /\ Primary \in Sessions /\ seen.gen \in Nat
      /\ CallOK(calls[c])
  <2>1. s \in Sessions /\ seen \in GlanceType /\ CallOK(calls[c])
    BY CallFacts DEF CallType
  <2>2. /\ sess \in [Sessions -> SessionType] /\ minted \in Nat
        /\ over \in [Sessions -> 0 .. minted]
    BY DEF IInv, TypeOK
  <2>3. seen.gen \in Nat
    BY <2>1 DEF GlanceType
  <2> QED BY <2>1, <2>2, <2>3 DEF Sessions, NewJti
<1>1. /\ calls[c].kind = "select" /\ calls[c].pc = "write" /\ late' = late \ {s} /\ device.status = "active"
      /\ Mint(s, c, [ver |-> sess'[s].gen, jti |-> NewJti], 0) /\ EndTokens({s})
      /\ UNCHANGED <<managed, site, stale, device, grants, client, mishaps, faded, origin>>
      /\ \/ seen.st # "none" /\ MaySelect(s, seen) /\ sess' = [sess EXCEPT ![s] = Selected(s, seen)]
         \/ seen.st = "none" /\ MayCreate(seen) /\ sess' = WithNewSlot(s, seen)
  BY DEF SelectWrite, At, MaySelect, MayCreate
<1>2. /\ over' \in [Sessions -> 0 .. minted] /\ over'[s] = minted
      /\ \A t \in Sessions \ {s} : over'[t] = over[t]
  BY <1>0, <1>1 DEF EndTokens
<1>p. s = Primary /\ seen.gen = sess[Primary].gen => seen.st = sess[Primary].st
  BY <1>0, <1>1 DEF CallOK, Counts
<1>3. /\ sess' \in [Sessions -> SessionType] /\ sess'[s].st = "active" /\ sess'[s].jti = NewJti
      /\ sess'[s].receipt \in {sess[s].receipt, NoReceipt}
      /\ \A t \in Sessions \ {s} : Kept(t) \/ Gone(t)
      /\ \/ sess'[Primary].gen > sess[Primary].gen /\ s = Primary
         \/ sess'[Primary] = sess[Primary] /\ s # Primary
      /\ sess[Primary].st = "active" => sess'[Primary].start = sess[Primary].start
      /\ sess[Primary].st = "active" => sess'[Primary].st = "active"
      /\ sess'[Primary].st # "none"
  <2>1. CASE seen.st # "none" /\ MaySelect(s, seen) /\ sess' = [sess EXCEPT ![s] = Selected(s, seen)]
    <3>1. /\ sess'[s] = Selected(s, seen) /\ \A t \in Sessions \ {s} : sess'[t] = sess[t]
      BY <1>0, <2>1
    <3>2. /\ Selected(s, seen) \in SessionType /\ Selected(s, seen).st = "active"
          /\ Selected(s, seen).jti = NewJti /\ Selected(s, seen).gen = sess[s].gen + 1
          /\ Selected(s, seen).receipt \in {sess[s].receipt, NoReceipt}
          /\ seen.st = "active" /\ s \notin late => Selected(s, seen).start = sess[s].start
      <4>1. NoReceipt \in [input : Token, attempt : Nat, next : Token]
        BY EmptyTypes DEF SessionType, NoSession
      <4>2. Selected(s, seen) =
              [st |-> "active", gen |-> sess[s].gen + 1, jti |-> NewJti,
               start |-> IF seen.st = "active" /\ s \notin late THEN sess[s].start ELSE seen.gen + 1,
               receipt |-> IF s = Primary THEN sess[s].receipt ELSE NoReceipt]
        <5>1. PICK row \in SessionType : row = sess[s]
          BY <1>0
        <5>2. PICK start, receipt :
                /\ start = IF seen.st = "active" /\ s \notin late THEN sess[s].start ELSE seen.gen + 1
                /\ receipt = IF s = Primary THEN sess[s].receipt ELSE NoReceipt
          OBVIOUS
        <5>3. Selected(s, seen) = [row EXCEPT !.st = "active", !.gen = row.gen + 1, !.jti = NewJti,
                                              !.start = start, !.receipt = receipt]
          BY <5>1, <5>2 DEF Selected
        <5>4. Selected(s, seen) = [st |-> "active", gen |-> row.gen + 1, jti |-> NewJti,
                                   start |-> start, receipt |-> receipt]
          BY <5>3 DEF SessionType
        <5> QED BY <5>1, <5>2, <5>4
      <4>3. /\ sess[s].gen + 1 \in Nat /\ sess[s].start \in Nat /\ seen.gen + 1 \in Nat
            /\ sess[s].receipt \in [input : Token, attempt : Nat, next : Token]
        BY <1>0 DEF SessionType
      <4> QED BY <1>0, <4>1, <4>2, <4>3 DEF SessionType
    <3>3. sess' \in [Sessions -> SessionType]
      BY <1>0, <2>1, <3>2
    <3>4. \A t \in Sessions \ {s} : Kept(t)
      BY <1>1, <1>2, <3>1 DEF Kept
    <3>5. s = Primary => seen.st = sess[Primary].st /\ s \notin late
      BY <1>p, <2>1 DEF MaySelect, IInv, GrantInv
    <3>6. sess[s].gen \in Nat /\ sess[Primary].st # "none"
      BY <1>0 DEF SessionType, IInv, GrantInv
    <3> QED BY <1>0, <3>1, <3>2, <3>3, <3>4, <3>5, <3>6
  <2>2. CASE seen.st = "none" /\ MayCreate(seen) /\ sess' = WithNewSlot(s, seen)
    <3>1. s \in Slots
      BY <1>0, <1>p, <2>2 DEF MayCreate, Sessions, IInv, GrantInv
    <3>2. stale' = stale
      BY <1>1
    <3> QED BY <1>1, <1>2, <2>2, <3>1, <3>2, NewSlotFacts DEF IInv, GrantInv
  <2> QED BY <1>1, <2>1, <2>2
<1>4. PICK new \in Token : new = [ver |-> sess'[s].gen, jti |-> NewJti]
  BY <1>0, <1>3 DEF Token, SessionType
<1>9. Mint(s, c, new, 0) /\ new.jti = NewJti /\ new.ver = sess'[s].gen
  BY <1>1, <1>4
<1>5. Fresh(s)
  BY <1>2, <1>3 DEF Fresh, Closed
<1>6. Current(calls[c].s, new)'
  <2>1. calls'[c].s = s
    BY <1>0, <1>1 DEF Mint, Reply, IInv, TypeOK, CallType
  <2> QED BY <1>1, <1>3, <1>9, <2>1 DEF Current, Matches
<1>7. WriteStep(c)
  <2>1. /\ device' = device /\ managed' = managed /\ site' = site /\ stale' = stale /\ origin' = origin
        /\ grants' = grants /\ late' \subseteq late
    BY <1>1
  <2>2. /\ grants' \in [Grants -> [st : {"none", "pending", "redeemed", "expired"}, start : Nat]]
        /\ device' \in [status : {"active", "suspended"}, site : Nat, grant : Grants \union {NoGrant}]
        /\ origin' \in [Slots -> Grants \union {NoGrant}]
    BY <2>1 DEF IInv, TypeOK
  <2>3. (Live' => Live) /\ (Counts' => Counts)
    BY <2>1 DEF Live, Counts
  <2>4. calls[c].kind \in Replacing
    BY <1>1 DEF Replacing
  <2> QED BY <1>1, <1>2, <1>3, <1>9, <1>5, <1>6, <2>1, <2>2, <2>3, <2>4, ReplacingWrites
<1>8. GrantInv'
  BY <1>1, <1>3 DEF IInv, GrantInv
<1> QED BY <1>7, <1>8

LEMMA RedeemWrites ==
  ASSUME IInv, NEW c \in Calls, RedeemWrite(c)
  PROVE  WriteStep(c) /\ GrantInv'
<1> DEFINE s == calls[c].s
           g == calls[c].grant
<1>0. /\ s \in Slots /\ g \in Grants /\ minted \in Nat /\ NewJti \in Nat
      /\ over \in [Sessions -> 0 .. minted] /\ Primary \notin Slots /\ s \in Sessions
      /\ calls[c].seen.map[s].st = "none"
  <2>1. calls[c].kind = "redeem" /\ calls[c].pc = "write"
    BY DEF RedeemWrite, At
  <2>2. g # NoGrant /\ s # Primary /\ calls[c].seen.map[s].st = "none"
    BY <2>1, CallFacts DEF CallOK
  <2>3. g \in Grants \union {NoGrant} /\ s \in Sessions
    BY CallFacts DEF CallType
  <2> QED BY <2>2, <2>3, NamesAssumption DEF Sessions, IInv, TypeOK, NewJti
<1>1. /\ calls[c].kind = "redeem" /\ calls[c].pc = "write" /\ MayCreate(calls[c].seen)
      /\ device.status = "active"
      /\ sess' = WithNewSlot(s, calls[c].seen) /\ late' = late \ {s}
      /\ device' = [device EXCEPT !.grant = NoGrant]
      /\ grants' = [grants EXCEPT ![g].st = "redeemed"] /\ origin' = [origin EXCEPT ![s] = g]
      /\ Mint(s, c, [ver |-> 1, jti |-> NewJti], 0)
      /\ UNCHANGED <<managed, site, stale, client, mishaps, over, faded>>
  BY DEF RedeemWrite, At, MayRedeem, MayCreate
<1>2. /\ sess' \in [Sessions -> SessionType] /\ sess'[Primary] = sess[Primary] /\ s # Primary
      /\ sess'[s].st = "active" /\ sess'[s].gen = 1 /\ sess'[s].jti = NewJti /\ sess'[s].receipt = NoReceipt
      /\ \A t \in Sessions \ {s} : Kept(t) \/ Gone(t)
  <2>1. stale' = stale /\ \A t \in Sessions \ {s} : over'[t] = over[t]
    BY <1>1
  <2> QED BY <1>0, <1>1, <2>1, NewSlotFacts
<1>9. PICK new \in Token : new = [ver |-> 1, jti |-> NewJti]
  BY <1>0 DEF Token
<1>3. Mint(s, c, new, 0) /\ new.jti = NewJti /\ new.ver = 1
  BY <1>1, <1>9
<1>4. Fresh(s)
  <2>1. sess[s].st = "none"
    BY <1>0, <1>1 DEF MayCreate
  <2>2. over'[s] = over[s]
    BY <1>1
  <2> QED BY <1>2, <2>1, <2>2 DEF Fresh, Closed
<1>5. Current(calls[c].s, new)'
  <2>1. calls'[c].s = s
    BY <1>0, <1>1 DEF Mint, Reply, IInv, TypeOK, CallType
  <2> QED BY <1>1, <1>2, <1>3, <2>1 DEF Current, Matches
<1>6. /\ grants' \in [Grants -> [st : {"none", "pending", "redeemed", "expired"}, start : Nat]]
      /\ device' \in [status : {"active", "suspended"}, site : Nat, grant : Grants \union {NoGrant}]
      /\ origin' \in [Slots -> Grants \union {NoGrant}]
      /\ device'.status = device.status /\ device'.site = device.site /\ device'.grant = NoGrant
      /\ \A t \in Slots : origin'[t] = IF t = s THEN g ELSE origin[t]
      /\ grants'[g].st = "redeemed" /\ \A h \in Grants \ {g} : grants'[h] = grants[h]
  <2>1. /\ grants \in [Grants -> [st : {"none", "pending", "redeemed", "expired"}, start : Nat]]
        /\ device \in [status : {"active", "suspended"}, site : Nat, grant : Grants \union {NoGrant}]
        /\ origin \in [Slots -> Grants \union {NoGrant}]
    BY DEF IInv, TypeOK
  <2>2. /\ grants' \in [Grants -> [st : {"none", "pending", "redeemed", "expired"}, start : Nat]]
        /\ grants'[g].st = "redeemed" /\ \A h \in Grants \ {g} : grants'[h] = grants[h]
    BY <1>0, <1>1, <2>1
  <2>3. /\ device' \in [status : {"active", "suspended"}, site : Nat, grant : Grants \union {NoGrant}]
        /\ device'.status = device.status /\ device'.site = device.site /\ device'.grant = NoGrant
    BY <1>1, <2>1
  <2>4. /\ origin' \in [Slots -> Grants \union {NoGrant}]
        /\ \A t \in Slots : origin'[t] = IF t = s THEN g ELSE origin[t]
    BY <1>0, <1>1, <2>1
  <2> QED BY <2>2, <2>3, <2>4
<1>7. WriteStep(c)
  <2>1. (Live' => Live) /\ (Counts' => Counts)
    BY <1>1, <1>6 DEF Live, Counts
  <2>2. calls[c].kind \in Replacing
    BY <1>1 DEF Replacing
  <2>3. /\ UNCHANGED <<managed, site, client, mishaps, faded>> /\ stale' = stale /\ late' \subseteq late
        /\ over' \in [Sessions -> 0 .. minted]
    BY <1>0, <1>1
  <2>4. /\ calls[c].pc = "write"
        /\ device'.status = "active" =>
             device.status = "active" \/ \A t \in Sessions : sess'[t].jti \in {0, NewJti}
        /\ sess'[Primary].gen = sess[Primary].gen /\ sess'[Primary].st = sess[Primary].st
    BY <1>1, <1>2
  <2>5. sess' \in [Sessions -> SessionType] /\ \A t \in Sessions \ {s} : Kept(t) \/ Gone(t)
    BY <1>2
  <2> QED BY <1>3, <1>4, <1>5, <1>6, <2>1, <2>2, <2>3, <2>4, <2>5, ReplacingWrites
<1>8. GrantInv'
  <2>1. ASSUME NEW t \in Slots, origin'[t] # NoGrant PROVE grants'[origin'[t]].st = "redeemed"
    <3>1. CASE t = s
      BY <1>6, <3>1
    <3>2. CASE t # s
      <4>1. origin'[t] = origin[t] /\ origin[t] \in Grants /\ grants[origin[t]].st = "redeemed"
        BY <1>6, <2>1, <3>2 DEF IInv, GrantInv, TypeOK
      <4> QED BY <1>6, <4>1
    <3> QED BY <3>1, <3>2
  <2> QED BY <1>1, <1>2, <1>6, <2>1 DEF IInv, GrantInv
<1> QED BY <1>7, <1>8

LEMMA RegisterWrites ==
  ASSUME IInv, NEW c \in Calls, RegisterWrite(c)
  PROVE  WriteStep(c) /\ GrantInv'
<1> DEFINE gen == sess[Primary].gen + 1
           made == [NoSession EXCEPT !.st = "active", !.gen = gen, !.jti = NewJti, !.start = gen]
<1>0. /\ calls[c].s = Primary /\ ~managed /\ minted \in Nat /\ NewJti \in Nat /\ Primary \in Sessions
      /\ gen \in Nat /\ gen > sess[Primary].gen /\ site \in Nat
  <2>1. calls[c].kind = "register"
    BY DEF RegisterWrite, At
  <2>2. calls[c].s = Primary /\ ~managed
    BY <2>1, CallFacts DEF CallOK
  <2>3. minted \in Nat /\ site \in Nat /\ sess \in [Sessions -> SessionType] /\ Primary \in Sessions
    BY DEF IInv, TypeOK, Sessions
  <2>4. sess[Primary].gen \in Nat
    BY <2>3 DEF SessionType
  <2> QED BY <2>2, <2>3, <2>4 DEF NewJti
<1>1. /\ calls[c].kind = "register" /\ calls[c].pc = "write"
      /\ sess' = [s \in Sessions |-> IF s = Primary THEN made ELSE NoSession]
      /\ device' = [status |-> "active", site |-> site, grant |-> NoGrant]
      /\ late' = {} /\ stale' = stale
      /\ Mint(Primary, c, [ver |-> gen, jti |-> NewJti], 0) /\ EndTokens(Sessions)
      /\ UNCHANGED <<managed, site, grants, client, mishaps, faded, origin>>
  BY DEF RegisterWrite, At
<1>2. /\ made \in SessionType /\ made.st = "active" /\ made.gen = gen /\ made.jti = NewJti
      /\ made.receipt = NoReceipt
  BY <1>0, EmptyTypes DEF SessionType, NoSession
<1>9. PICK g \in Nat : g = gen
  BY <1>0
<1>a. PICK new \in Token : new = [ver |-> g, jti |-> NewJti]
  BY <1>0 DEF Token
<1>b. Mint(Primary, c, new, 0) /\ new.jti = NewJti /\ new.ver = g
  BY <1>1, <1>9, <1>a
<1> HIDE DEF gen, made
<1>3. /\ sess' \in [Sessions -> SessionType] /\ sess'[Primary] = made
      /\ \A t \in Sessions \ {Primary} : sess'[t] = NoSession
  BY <1>0, <1>1, <1>2, EmptyTypes
<1>4. over' \in [Sessions -> 0 .. minted] /\ \A t \in Sessions : over'[t] = minted
  BY <1>0, <1>1 DEF EndTokens
<1>5. Fresh(Primary) /\ \A t \in Sessions \ {Primary} : Gone(t)
  <2>1. NoSession.st = "none" /\ NoSession.jti = 0 /\ NoSession.receipt = NoReceipt
    BY DEF NoSession
  <2>2. Fresh(Primary)
    BY <1>0, <1>2, <1>3, <1>4 DEF Fresh, Closed
  <2>3. ASSUME NEW t \in Sessions \ {Primary} PROVE Gone(t)
    BY <1>3, <1>4, <2>1 DEF Gone, Closed
  <2> QED BY <2>2, <2>3
<1>6. Current(calls[c].s, new)'
  <2>1. calls'[c].s = Primary
    BY <1>0, <1>1 DEF Mint, Reply, IInv, TypeOK, CallType
  <2> QED BY <1>1, <1>2, <1>3, <1>9, <1>b, <2>1 DEF Current, Matches
<1>7. WriteStep(c)
  <2>1. /\ grants' \in [Grants -> [st : {"none", "pending", "redeemed", "expired"}, start : Nat]]
        /\ device' \in [status : {"active", "suspended"}, site : Nat, grant : Grants \union {NoGrant}]
        /\ origin' \in [Slots -> Grants \union {NoGrant}]
    BY <1>0, <1>1 DEF IInv, TypeOK
  <2>2. Counts /\ calls[c].kind \in Replacing
    BY <1>0, <1>1 DEF Counts, Replacing
  <2>3. UNCHANGED <<managed, site, client, mishaps, faded>> /\ late' \subseteq late
    BY <1>1
  <2>4. \A t \in Sessions : sess'[t].jti \in {0, NewJti}
    BY <1>2, <1>3 DEF NoSession
  <2> QED BY <1>0, <1>1, <1>2, <1>3, <1>b, <1>4, <1>5, <1>6, <2>1, <2>2, <2>3, <2>4, ReplacingWrites
<1>8. GrantInv'
  BY <1>0, <1>1, <1>2, <1>3 DEF IInv, GrantInv
<1> QED BY <1>7, <1>8

LEMMA SignOutWrites ==
  ASSUME IInv, NEW c \in Calls, SignOutWrite(c)
  PROVE  IInv'
<1> DEFINE s == calls[c].s
<1>0. /\ s \in Sessions /\ minted \in Nat /\ sess \in [Sessions -> SessionType]
      /\ sess[s] \in SessionType /\ over \in [Sessions -> 0 .. minted] /\ Primary \in Sessions
  BY CallFacts DEF CallType, IInv, TypeOK, Sessions
<1>1. /\ Fail(c)
      /\ UNCHANGED <<managed, site, stale, late, grants, client, mishaps, minted, parent, faded, origin>>
  BY DEF SignOutWrite
<1>2. CASE ~MaySignOut(s, calls[c].seen)
  <2>1. UNCHANGED <<sess, device, over>>
    BY <1>2 DEF SignOutWrite
  <2> QED BY <1>1, <2>1, FailKeeps DEF server, client, history
<1>3. CASE MaySignOut(s, calls[c].seen)
  <2>1. /\ sess' = [sess EXCEPT ![s] = SignedOut(s)] /\ device.status = "active"
        /\ device' = [device EXCEPT !.grant = IF s = Primary THEN NoGrant ELSE @]
        /\ EndTokens({s})
    BY <1>3 DEF SignOutWrite, MaySignOut
  <2>2. /\ over' \in [Sessions -> 0 .. minted] /\ over'[s] = minted
        /\ \A t \in Sessions \ {s} : over'[t] = over[t]
    BY <1>0, <2>1 DEF EndTokens
  <2>3. /\ SignedOut(s) \in SessionType /\ SignedOut(s).st = "signed_out"
        /\ SignedOut(s).gen = sess[s].gen + 1 /\ SignedOut(s).jti \in {0, sess[s].jti}
        /\ SignedOut(s).receipt = sess[s].receipt /\ sess[s].gen \in Nat
    <3>1. PICK row \in SessionType : row = sess[s]
      BY <1>0
    <3>2. PICK jti \in Nat : jti = IF s = Primary THEN row.jti ELSE 0
      <4>1. row.jti \in Nat
        BY DEF SessionType
      <4> QED BY <4>1
    <3>3. SignedOut(s) = [row EXCEPT !.st = "signed_out", !.gen = row.gen + 1, !.jti = jti]
      BY <3>1, <3>2 DEF SignedOut
    <3>4. SignedOut(s) = [st |-> "signed_out", gen |-> row.gen + 1, jti |-> jti, start |-> row.start,
                          receipt |-> row.receipt]
      BY <3>3 DEF SessionType
    <3>5. /\ jti \in {0, row.jti} /\ row.gen \in Nat /\ row.start \in Nat
          /\ row.receipt \in [input : Token, attempt : Nat, next : Token]
      BY <3>2 DEF SessionType
    <3>6. SignedOut(s) \in SessionType
      BY <3>4, <3>5 DEF SessionType
    <3> QED BY <3>1, <3>4, <3>5, <3>6
  <2>4. /\ sess' \in [Sessions -> SessionType] /\ sess'[s] = SignedOut(s)
        /\ \A t \in Sessions \ {s} : sess'[t] = sess[t]
    BY <1>0, <2>1, <2>3
  <2>5. Gone(s)
    BY <1>0, <2>2, <2>3, <2>4 DEF Gone, Closed
  <2>6. \A t \in Sessions \ {s} : Kept(t)
    BY <1>1, <2>2, <2>4 DEF Kept
  <2>7. /\ device' \in [status : {"active", "suspended"}, site : Nat, grant : Grants \union {NoGrant}]
        /\ device'.status = device.status /\ device'.site = device.site
        /\ device'.grant = IF s = Primary THEN NoGrant ELSE device.grant
    BY <2>1 DEF IInv, TypeOK
  <2>8. TypeOK'
    <3>1. calls' \in [Calls -> CallType]
      BY <1>1, EmptyTypes DEF Fail, IInv, TypeOK
    <3> QED BY <1>1, <2>2, <2>4, <2>7, <3>1 DEF IInv, TypeOK, client
  <2>9. WriteStep(c)
    <3>1. (Live' => Live) /\ (Counts' => Counts)
      BY <1>1, <2>7 DEF Live, Counts
    <3>2. Ending(c)
      BY <1>1 DEF Ending
    <3>3. \/ sess'[Primary].gen > sess[Primary].gen
          \/ sess'[Primary].gen = sess[Primary].gen /\ sess'[Primary].st = sess[Primary].st
      BY <1>0, <2>3, <2>4
    <3> QED BY <1>1, <2>1, <2>5, <2>6, <2>8, <3>1, <3>2, <3>3 DEF WriteStep
  <2>10. GrantInv'
    BY <1>0, <1>1, <2>3, <2>4, <2>7 DEF IInv, GrantInv
  <2> QED BY <2>9, <2>10, WriteKeeps
<1> QED BY <1>2, <1>3

LEMMA IssueWrites ==
  ASSUME IInv, NEW c \in Calls, IssueWrite(c)
  PROVE  IInv'
<1>1. /\ Fail(c) /\ calls[c].kind = "issue" /\ calls[c].pc = "write"
      /\ UNCHANGED <<managed, site, stale, sess, late, client, mishaps, minted, history>>
  BY DEF IssueWrite, At
<1>2. CASE UNCHANGED <<grants, device>>
  BY <1>1, <1>2, FailKeeps DEF server
<1>3. ASSUME NEW g \in Grants, MayIssue(c), grants[g].st = "none",
             grants' = [grants EXCEPT ![g] = [st |-> "pending", start |-> sess[Primary].start]],
             device' = [device EXCEPT !.grant = g]
      PROVE  IInv'
  <2>1. /\ Primary \in Sessions /\ sess \in [Sessions -> SessionType] /\ sess[Primary].start \in Nat
        /\ device.status = "active" /\ sess[Primary].gen = calls[c].seen.gen
    BY <1>3 DEF IInv, TypeOK, Sessions, SessionType, MayIssue
  <2>2. sess[Primary].st = "active"
    BY <1>1, <2>1, CallFacts DEF CallOK, Counts
  <2>3. /\ device' \in [status : {"active", "suspended"}, site : Nat, grant : Grants \union {NoGrant}]
        /\ device'.status = device.status /\ device'.site = device.site /\ device'.grant = g
        /\ grants' \in [Grants -> [st : {"none", "pending", "redeemed", "expired"}, start : Nat]]
        /\ grants'[g].start = sess[Primary].start /\ \A h \in Grants \ {g} : grants'[h] = grants[h]
    BY <1>3, <2>1 DEF IInv, TypeOK
  <2>4. \A t \in Sessions : Kept(t)
    BY <1>1 DEF Kept, history
  <2>5. TypeOK'
    <3>1. calls' \in [Calls -> CallType]
      BY <1>1, EmptyTypes DEF Fail, IInv, TypeOK
    <3> QED BY <1>1, <2>3, <3>1 DEF IInv, TypeOK, client, history
  <2>6. WriteStep(c)
    <3>1. (Live' => Live) /\ (Counts' => Counts)
      BY <1>1, <2>3 DEF Live, Counts
    <3>2. Ending(c)
      BY <1>1 DEF Ending, history
    <3> QED BY <1>1, <2>1, <2>4, <2>5, <3>1, <3>2 DEF WriteStep, history
  <2>7. GrantInv'
    <3>1. ASSUME NEW t \in Slots, origin[t] # NoGrant PROVE grants'[origin[t]].st = "redeemed"
      <4>1. origin[t] \in Grants /\ grants[origin[t]].st = "redeemed"
        BY <3>1 DEF IInv, GrantInv, TypeOK
      <4> QED BY <1>3, <2>3, <4>1
    <3> QED BY <1>1, <2>2, <2>3, <3>1 DEF IInv, GrantInv, history
  <2> QED BY <2>6, <2>7, WriteKeeps
<1> QED BY <1>1, <1>2, <1>3 DEF IssueWrite

-----------------------------------------------------------------------------
(* The theorems *)

LEMMA InitKeeps == Init => IInv
<1> SUFFICES ASSUME Init PROVE IInv
  OBVIOUS
<1>1. /\ Primary \in Sessions /\ Primary \notin Slots /\ minted = 1 /\ mishaps = 0
      /\ site = 0 /\ device = [status |-> "active", site |-> 0, grant |-> NoGrant]
      /\ sess[Primary] = [NoSession EXCEPT !.st = "active", !.gen = 1, !.jti = 1, !.start = 1]
      /\ \A t \in Sessions \ {Primary} : sess[t] = NoSession /\ store[t] = NoToken
      /\ store[Primary] = [ver |-> 1, jti |-> 1]
      /\ parent = [j \in {1} |-> 0] /\ 1 .. minted = {1}
      /\ \A c \in Calls : calls[c] = NoCall
  BY NamesAssumption DEF Init, Sessions
<1>2. /\ NoSession.st = "none" /\ NoSession.jti = 0 /\ NoSession.receipt = NoReceipt
      /\ NoReceipt.next = NoToken /\ NoReceipt.input = NoToken
      /\ NoToken.jti = 0 /\ NoToken.ver = 0
      /\ NoCall.kind = "none" /\ NoCall.s = Primary /\ NoCall.tok = NoToken /\ NoCall.new = NoToken
      /\ NoCall.pc = "idle"
  BY DEF NoSession, NoReceipt, NoToken, NoCall
<1>3. /\ sess[Primary].st = "active" /\ sess[Primary].gen = 1 /\ sess[Primary].jti = 1
      /\ sess[Primary].start = 1 /\ sess[Primary].receipt = NoReceipt /\ sess[Primary] \in SessionType
      /\ store[Primary].ver = 1 /\ store[Primary].jti = 1
  <2>1. PICK row \in SessionType : row = NoSession
    BY EmptyTypes
  <2>2. sess[Primary] = [row EXCEPT !.st = "active", !.gen = 1, !.jti = 1, !.start = 1]
    BY <1>1, <2>1
  <2>3. /\ sess[Primary].st = "active" /\ sess[Primary].gen = 1 /\ sess[Primary].jti = 1
        /\ sess[Primary].start = 1 /\ sess[Primary].receipt = row.receipt /\ sess[Primary] \in SessionType
    <3>1. sess[Primary] = [st |-> "active", gen |-> 1, jti |-> 1, start |-> 1, receipt |-> row.receipt]
      BY <2>2 DEF SessionType
    <3>2. row.receipt \in [input : Token, attempt : Nat, next : Token]
      BY DEF SessionType
    <3> QED BY <3>1, <3>2 DEF SessionType
  <2> QED BY <1>1, <1>2, <2>1, <2>3
<1>a. ASSUME NEW t \in Sessions PROVE sess[t].receipt = NoReceipt
  <2>1. CASE t = Primary
    BY <1>3, <2>1
  <2>2. CASE t # Primary
    BY <1>1, <1>2, <2>2
  <2> QED BY <2>1, <2>2
<1>4. TypeOK
  <2>1. sess \in [Sessions -> SessionType] /\ store \in [Sessions -> Token]
    <3>1. [ver |-> 1, jti |-> 1] \in Token
      BY DEF Token
    <3>2. \A t \in Sessions : sess[t] \in SessionType /\ store[t] \in Token
      BY <1>1, <1>3, <3>1, EmptyTypes
    <3> QED BY <3>2 DEF Init
  <2>2. mishaps \in 0 .. MaxMishaps /\ minted \in Nat /\ parent \in [1 .. minted -> 0 .. minted]
    BY <1>1, BoundsAssumption
  <2>3. calls \in [Calls -> CallType] /\ attempt \in [Sessions -> Nat]
    BY EmptyTypes DEF Init
  <2>4. /\ over \in [Sessions -> 0 .. minted] /\ faded \in [Sessions -> 0 .. minted]
        /\ origin \in [Slots -> Grants \union {NoGrant}]
    BY <1>1 DEF Init
  <2> QED BY <1>1, <2>1, <2>2, <2>3, <2>4 DEF TypeOK, Init
<1>5. JtiInv
  <2>1. parent[1] = 0 /\ \A i \in 1 .. minted : i = 1
    BY <1>1
  <2>3. \A t \in Sessions \ {Primary} : sess[t].st = "none" /\ sess[t].jti = 0
    BY <1>1, <1>2
  <2>2. ASSUME NEW t \in Sessions PROVE sess[t].jti = IF t = Primary THEN 1 ELSE 0
    <3>1. CASE t = Primary
      BY <1>3, <3>1
    <3>2. CASE t # Primary
      BY <2>3, <3>2
    <3> QED BY <3>1, <3>2
  <2>4. ASSUME NEW t \in Sessions
        PROVE  /\ sess[t].jti <= minted
               /\ sess[t].st = "active" => sess[t].jti # 0
               /\ sess[t].jti # 0 => Unspent(sess[t].jti)
    BY <1>1, <2>1, <2>2, <2>3 DEF Unspent
  <2>5. \A i \in 1 .. minted : parent[i] < i
    BY <2>1
  <2> QED BY <1>a, <2>1, <2>2, <2>4, <2>5 DEF JtiInv
<1>6. TokenInv
  <2>1. \A t \in Sessions : Sound(t, NoToken)
    BY <1>1, <1>2 DEF Sound
  <2>2. Sound(Primary, store[Primary])
    BY <1>1, <1>2, <1>3 DEF Sound
  <2>3. \A t \in Sessions : Sound(t, store[t]) /\ Sound(t, sess[t].receipt.next)
    BY <1>1, <1>2, <1>a, <2>1, <2>2
  <2>4. \A c \in Calls : Sound(calls[c].s, calls[c].tok) /\ Sound(calls[c].s, calls[c].new)
    BY <1>1, <1>2, <2>1
  <2> QED BY <2>3, <2>4 DEF TokenInv
<1>7. CallInv
  BY <1>1, <1>2 DEF CallInv, CallOK, Replacing
<1>8. GrantInv
  BY <1>1, <1>3 DEF GrantInv, Init
<1>9. OverInv
  BY <1>1, <1>2, <1>3 DEF OverInv, Init
<1>10. RenewInv
  <2>1. Current(Primary, store[Primary])
    BY <1>1, <1>3 DEF Current, Matches, Init
  <2>2. Renewable
    BY <1>1, <2>1 DEF Renewable
  <2>3. \A t \in Sessions : ReceiptKept(t)
    BY <1>2, <1>a DEF ReceiptKept
  <2>4. \A c \in Calls : Refreshing(calls[c]) /\ Arriving(c)
    BY <1>1, <1>2 DEF Refreshing, Arriving, Replacing
  <2> QED BY <2>2, <2>3, <2>4 DEF RenewInv
<1> QED BY <1>4, <1>5, <1>6, <1>7, <1>8, <1>9, <1>10 DEF IInv

LEMMA NextKeeps == IInv /\ [Next]_vars => IInv'
<1> SUFFICES ASSUME IInv, [Next]_vars PROVE IInv'
  OBVIOUS
<1>1. ASSUME NEW c \in Calls, QuietAction(c) PROVE IInv'
  BY <1>1, QuietActions, QuietKeeps
<1>2. CASE ClientAction
  BY <1>2, ClientActionsKeep
<1>3. ASSUME NEW c \in Calls, RefreshWrite(c) \/ SelectWrite(c) \/ RedeemWrite(c) \/ RegisterWrite(c)
      PROVE  IInv'
  BY <1>3, RefreshWrites, SelectWrites, RedeemWrites, RegisterWrites, WriteKeeps
<1>4. ASSUME NEW c \in Calls, SignOutWrite(c) \/ IssueWrite(c) PROVE IInv'
  BY <1>4, SignOutWrites, IssueWrites
<1>5. ASSUME NEW s \in Sessions, ExpireReceipt(s) \/ (s \in Slots /\ ExpireSlot(s)) PROVE IInv'
  BY <1>5, FadingKeeps
<1>6. ASSUME NEW g \in Grants, ExpireGrant(g) PROVE IInv'
  BY <1>6, ExpireGrantKeeps
<1>7. CASE Suspend \/ RevokeSite
  BY <1>7, RevokedKeeps
<1>8. CASE UNCHANGED vars
  <2>1. /\ UNCHANGED <<managed, site, device, sess, late, stale, grants>>
        /\ UNCHANGED <<store, attempt, leaving, calls, mishaps, minted, parent, over, faded, origin>>
    BY <1>8 DEF vars, server, client, history
  <2>2. TypeOK' /\ JtiInv' /\ OverInv'
    BY <2>1 DEF IInv, TypeOK, JtiInv, OverInv, Unspent
  <2>3. CallInv' /\ GrantInv'
    BY <2>1 DEF IInv, CallInv, GrantInv, CallOK, Counts
  <2>5. TokenInv'
    BY <2>1 DEF IInv, TokenInv, Sound
  <2>4. RenewInv'
    BY <2>1 DEF IInv, RenewInv, Renewable, ReceiptKept, Refreshing, Arriving, Usable, Unused, Unspent, Live,
       Ended, Current, Matches, Recoverable
  <2> QED BY <2>2, <2>3, <2>4, <2>5 DEF IInv
<1> QED BY <1>1, <1>2, <1>3, <1>4, <1>5, <1>6, <1>7, <1>8
        DEF Next, ServerStep, ClientStep, QuietAction, ClientAction, Sessions

\* The inductive invariant holds in every reachable state.
THEOREM Invariance == Spec => []IInv
BY InitKeeps, NextKeeps, PTL DEF Spec

\* The row, its grants, the calls in flight and the stores keep their types.
THEOREM TypeCorrect == Spec => []TypeOK
<1>1. IInv => TypeOK
  BY DEF IInv
<1> QED BY <1>1, Invariance, PTL

\* Retries of a refresh converge, for any number of tabs, calls and lost answers:
\* a token is replaced once, and an answer carries that replacement.
THEOREM RetriesConverge == Spec => []OneSuccessor
<1>1. IInv => OneSuccessor
  BY DEF IInv, JtiInv, CallInv, CallOK, OneSuccessor, At
<1> QED BY <1>1, Invariance, PTL

\* No refresh that was in flight brings a session back that was signed out,
\* selected anew or registered again.
THEOREM NoTokenOutlivesItsSession == Spec => []EndedTokensStayDead
<1>1. IInv => EndedTokensStayDead
  BY DEF IInv, OverInv, EndedTokensStayDead
<1> QED BY <1>1, Invariance, PTL

\* Time and deliberate acts aside, no loss, conflict or race of containers leaves
\* one with a token that can no longer be refreshed.
THEOREM StoresStayRenewable == Spec => []Renewable
<1>1. IInv => Renewable
  BY DEF IInv, RenewInv
<1> QED BY <1>1, Invariance, PTL

\* And none is sent back to enrollment before its session really is over.
THEOREM NoReauthByARace == Spec => ReauthOnlyWhenOver
<1> DEFINE Step == \A s \in Sessions :
                     store[s] # NoToken /\ store'[s] = NoToken /\ s \notin leaving
                       => ~Live \/ Ended(s, store[s])
<1>1. IInv /\ [Next]_vars => [Step]_vars
  <2> SUFFICES ASSUME IInv, Next, NEW s \in Sessions, store[s] # NoToken, store'[s] = NoToken,
                      s \notin leaving
               PROVE  ~Live \/ Ended(s, store[s])
    OBVIOUS
  <2>0. store \in [Sessions -> Token]
    BY DEF IInv, TypeOK
  <2>1. ASSUME NEW c \in Calls, RefreshRefused(c) PROVE ~Live \/ Ended(s, store[s])
    <3>1. /\ calls[c].kind = "refresh" /\ calls[c].pc = "answered" /\ calls[c].new = NoToken
          /\ calls[c].s = s /\ store[s] = calls[c].tok
      BY <2>0, <2>1 DEF RefreshRefused, At
    <3> QED BY <3>1, CallFacts DEF Refreshing
  <2>2. ASSUME NEW c \in Calls, RefreshStored(c) PROVE FALSE
    BY <2>0, <2>2 DEF RefreshStored
  <2>3. ASSUME NEW c \in Calls, Replaced(c) PROVE FALSE
    <3>1. calls[c].new # NoToken
      BY <2>3, CallFacts DEF Replaced, CallOK, Replacing
    <3> QED BY <2>0, <2>3, <3>1 DEF Replaced
  <2>4. ASSUME NEW t \in Sessions, ClearStore(t) PROVE FALSE
    BY <2>0, <2>4 DEF ClearStore
  <2>5. store' # store
    OBVIOUS
  <2>6. ASSUME NEW c \in Calls PROVE ~ServerStep(c) /\ ~Lose(c) /\ ~IssueRead(c) /\ ~RegisterRead(c)
    BY <2>5 DEF client, ServerStep, Lose, IssueRead, RegisterRead, RefreshRead, RefreshWrite,
       RefreshCancelled, RefreshReread, SelectTarget, SelectWrite, SelectConflict, SignOutRead,
       SignOutWrite, IssueWrite, RedeemWrite, RedeemRefused, RegisterWrite, RegisterConflict
  <2>7. ASSUME NEW c \in Calls, NEW t \in Sessions
        PROVE  ~BeginRefresh(c, t) /\ ~SelectSource(c, t) /\ ~BeginSignOut(c, t)
    BY <2>5 DEF client, BeginRefresh, SelectSource, BeginSignOut
  <2>8. ASSUME NEW c \in Calls, NEW t \in Slots, NEW g \in Grants PROVE ~RedeemRead(c, t, g)
    BY <2>5 DEF client, RedeemRead
  <2>9. /\ \A t \in Sessions : ~ExpireReceipt(t)
        /\ \A t \in Slots : ~ExpireSlot(t)
        /\ \A g \in Grants : ~ExpireGrant(g)
        /\ ~Suspend /\ ~RevokeSite
    BY <2>5 DEF client, ExpireReceipt, ExpireSlot, ExpireGrant, Suspend, RevokeSite
  <2> QED BY <2>1, <2>2, <2>3, <2>4, <2>6, <2>7, <2>8, <2>9 DEF Next, ClientStep
<1>2. ReauthOnlyWhenOver <=> [][Step]_vars
  BY DEF ReauthOnlyWhenOver
<1> QED BY <1>1, <1>2, Invariance, PTL DEF Spec

\* A grant makes one slot, for the browser session that asked for it, for any
\* number of grants, launches and lost calls.
THEOREM GrantsAreSpentOnce == Spec => GrantDiesWithItsSession
<1> DEFINE Step == \A s \in Slots :
                     origin'[s] # origin[s]
                       => /\ sess[Primary].st = "active"
                          /\ sess[Primary].start = grants[origin'[s]].start
                          /\ \A t \in Slots \ {s} : origin[t] # origin'[s]
<1>1. IInv /\ [Next]_vars => [Step]_vars
  <2> SUFFICES ASSUME IInv, Next, NEW s \in Slots, origin'[s] # origin[s]
               PROVE  /\ sess[Primary].st = "active"
                      /\ sess[Primary].start = grants[origin'[s]].start
                      /\ \A t \in Slots \ {s} : origin[t] # origin'[s]
    OBVIOUS
  <2>1. PICK c \in Calls : RedeemWrite(c)
    <3>1. origin' # origin
      OBVIOUS
    <3>2. ASSUME NEW c \in Calls
          PROVE  ~ClientStep(c) /\ ~Lose(c) /\ ~IssueRead(c) /\ ~RegisterRead(c)
      BY <3>1 DEF history, ClientStep, RefreshStored, RefreshRefused, Replaced, Lose, IssueRead, RegisterRead
    <3>3. ASSUME NEW c \in Calls, ServerStep(c) PROVE RedeemWrite(c)
      BY <3>1, <3>3 DEF history, ServerStep, RefreshRead, RefreshWrite, RefreshCancelled, RefreshReread,
         SelectTarget, SelectWrite, SelectConflict, SignOutRead, SignOutWrite, IssueWrite, RedeemRefused,
         RegisterWrite, RegisterConflict
    <3>4. ASSUME NEW c \in Calls, NEW t \in Sessions
          PROVE  ~BeginRefresh(c, t) /\ ~SelectSource(c, t) /\ ~BeginSignOut(c, t)
      BY <3>1 DEF history, BeginRefresh, SelectSource, BeginSignOut
    <3>5. ASSUME NEW c \in Calls, NEW t \in Slots, NEW g \in Grants PROVE ~RedeemRead(c, t, g)
      BY <3>1 DEF history, RedeemRead
    <3>6. /\ \A t \in Sessions : ~ClearStore(t) /\ ~ExpireReceipt(t)
          /\ \A t \in Slots : ~ExpireSlot(t)
          /\ \A g \in Grants : ~ExpireGrant(g)
          /\ ~Suspend /\ ~RevokeSite
      BY <3>1 DEF history, ClearStore, ExpireReceipt, ExpireSlot, ExpireGrant, Suspend, RevokeSite
    <3> QED BY <3>2, <3>3, <3>4, <3>5, <3>6 DEF Next
  <2>2. /\ calls[c].kind = "redeem" /\ MayRedeem(c) /\ device.status = "active"
        /\ origin' = [origin EXCEPT ![calls[c].s] = calls[c].grant]
        /\ origin \in [Slots -> Grants \union {NoGrant}]
    BY <2>1 DEF RedeemWrite, At, MayRedeem, MayCreate, IInv, TypeOK
  <2>3. origin'[s] = calls[c].grant /\ calls[c].grant # NoGrant
    BY <2>2, CallFacts DEF CallOK
  <2>4. device.grant = calls[c].grant /\ grants[calls[c].grant].st = "pending"
    BY <2>2 DEF MayRedeem
  <2> QED BY <2>2, <2>3, <2>4 DEF IInv, GrantInv
<1>2. GrantDiesWithItsSession <=> [][Step]_vars
  BY DEF GrantDiesWithItsSession
<1> QED BY <1>1, <1>2, Invariance, PTL DEF Spec
==============================================================================
