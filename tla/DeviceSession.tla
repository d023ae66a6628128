------------------------------ MODULE DeviceSession ------------------------------
(***************************************************************************)
(* The sessions of one device at one site: the DEVICE# row with the        *)
(* primary session (the browser) and a slot for each Home Screen app, the  *)
(* single-use handoff grants that create slots, the API calls that rotate, *)
(* select, sign out, hand off and re-register, and the clients' stores.    *)
(*                                                                         *)
(* A container (the browser, or one installed app) has one store and any   *)
(* number of tabs; Web Locks are not assumed.  A call reads the row, then  *)
(* writes it under a condition; other calls run in between, the call may   *)
(* die, and its answer may be lost.                                        *)
(*                                                                         *)
(* A token is the pair of its generation (ver) and its jti.  Access and    *)
(* refresh tokens of a pair are one token here.  A jti is drawn when its   *)
(* rotation commits: nobody sees it before.                                *)
(***************************************************************************)
EXTENDS Naturals, FiniteSets

CONSTANTS
  Slots,        \* Home Screen apps: their container and their slot's sid
  Grants,       \* handoff grants
  Calls,        \* API calls in flight at a time
  SlotLimit,    \* CONTEXT_SESSION_LIMIT
  MaxJti,       \* bound: a new rotation is begun only if no more are minted
  RereadLimit,  \* 3 in retryableRefresh
  MaxMishaps    \* bound on calls that die, answers lost, conflicts, expiries
                \* and an administrator's acts

ASSUME BoundsAssumption ==
  SlotLimit \in Nat /\ MaxJti \in Nat /\ RereadLimit \in Nat /\ MaxMishaps \in Nat
ASSUME SlotsAssumption == IsFiniteSet(Slots)

Primary == "primary"
NoGrant == "no grant"
ASSUME NamesAssumption == Primary \notin Slots /\ NoGrant \notin Grants

Sessions == Slots \union {Primary}

VARIABLES
  managed,    \* enrolled through a binding; otherwise by a setup code
  site,       \* the site's siteCredentialGeneration
  device,     \* the row's status, copy of that generation, grant pointer
  sess,       \* the row's primary session and its sessions map
  late,       \* slots past their expiresAt
  stale,      \* sessions whose receipt is past its five minutes
  grants,     \* the SESSION_HANDOFF# rows
  store,      \* the token each container keeps in IndexedDB
  attempt,    \* the refreshAttempt kept beside it
  leaving,    \* containers that are signing out
  calls,      \* API calls in flight
  mishaps,
  minted,     \* the last jti
  parent,     \* history: the token a jti was refreshed from
  over,       \* history: a session's tokens up to this jti were ended
  faded,      \* history: and up to this one, time may have ended them
  origin      \* history: the grant a slot was created by

server == <<managed, site, device, sess, late, stale, grants>>
client == <<store, attempt, leaving>>
history == <<parent, over, faded, origin>>
vars == <<server, client, calls, mishaps, minted, history>>

NoToken == [ver |-> 0, jti |-> 0]
NoReceipt ==
  [input |-> NoToken, attempt |-> 0, next |-> NoToken]
NoSession ==
  [st |-> "none", gen |-> 0, jti |-> 0, start |-> 0, receipt |-> NoReceipt]
NoGlance == [st |-> "none", gen |-> 0, start |-> 0, map |-> [s \in Slots |-> NoSession]]
NoCall ==
  [kind |-> "none", pc |-> "idle", s |-> Primary, tok |-> NoToken,
   attempt |-> 0, tries |-> 0, grant |-> NoGrant, site |-> 0,
   seen |-> NoGlance, new |-> NoToken]

Token == [ver : Nat, jti : Nat]
SessionType ==
  [st : {"none", "active", "signed_out"}, gen : Nat, jti : Nat, start : Nat,
   receipt : [input : Token, attempt : Nat, next : Token]]
GlanceType ==
  [st : {"none", "active", "signed_out"}, gen : Nat, start : Nat,
   map : [Slots -> SessionType]]
CallType ==
  [kind : {"none", "refresh", "select", "signout", "issue", "redeem", "register"},
   pc : {"idle", "read", "resolve", "write", "reread", "answered"},
   s : Sessions, tok : Token, attempt : Nat, tries : 0..RereadLimit,
   grant : Grants \union {NoGrant}, site : Nat, seen : GlanceType, new : Token]

TypeOK ==
  /\ managed \in BOOLEAN /\ site \in Nat
  /\ device \in [status : {"active", "suspended"}, site : Nat,
                 grant : Grants \union {NoGrant}]
  /\ sess \in [Sessions -> SessionType]
  /\ late \subseteq Slots /\ stale \subseteq Sessions
  /\ grants \in [Grants -> [st : {"none", "pending", "redeemed", "expired"},
                            start : Nat]]
  /\ store \in [Sessions -> Token] /\ attempt \in [Sessions -> Nat]
  /\ leaving \subseteq Sessions /\ calls \in [Calls -> CallType]
  /\ mishaps \in 0..MaxMishaps /\ minted \in Nat
  /\ parent \in [1..minted -> 0..minted]
  /\ over \in [Sessions -> 0..minted] /\ faded \in [Sessions -> 0..minted]
  /\ origin \in [Slots -> Grants \union {NoGrant}]

\* Enrolled in the browser, nothing rotated yet.
Init ==
  /\ managed \in BOOLEAN /\ site = 0
  /\ device = [status |-> "active", site |-> site, grant |-> NoGrant]
  /\ sess = [s \in Sessions |->
               IF s = Primary
               THEN [NoSession EXCEPT !.st = "active", !.gen = 1, !.jti = 1, !.start = 1]
               ELSE NoSession]
  /\ late = {} /\ stale = {}
  /\ grants = [g \in Grants |-> [st |-> "none", start |-> 0]]
  /\ store = [s \in Sessions |->
                IF s = Primary THEN [ver |-> 1, jti |-> 1] ELSE NoToken]
  /\ attempt = [s \in Sessions |-> 0] /\ leaving = {}
  /\ calls = [c \in Calls |-> NoCall] /\ mishaps = 0 /\ minted = 1
  /\ parent = [j \in {1} |-> 0]
  /\ over = [s \in Sessions |-> 0] /\ faded = [s \in Sessions |-> 0]
  /\ origin = [s \in Slots |-> NoGrant]

-----------------------------------------------------------------------------
(* What the row says *)

Live == device.status = "active" /\ device.site = site
Matches(s, ver) == sess[s].st = "active" /\ sess[s].gen = ver /\ s \notin late
Current(s, tok) == Matches(s, tok.ver) /\ sess[s].jti = tok.jti
Recoverable(s, tok, att) ==
  LET receipt == sess[s].receipt IN
  /\ s \notin stale /\ receipt.input = tok /\ receipt.attempt = att
  /\ Current(s, receipt.next)

(* Steps of a call *)

At(c, kind, pc) == calls[c].kind = kind /\ calls[c].pc = pc
Begin(c, call) == calls[c] = NoCall /\ calls' = [calls EXCEPT ![c] = call]
Goto(c, pc) == calls' = [calls EXCEPT ![c].pc = pc]

\* Of the row, a call keeps what its write's condition compares: the session's
\* own fields, or for a session that is not in the map yet, the whole map and
\* the primary generation.
Glance(s) ==
  IF sess[s].st = "none"
  THEN [NoGlance EXCEPT !.gen = sess[Primary].gen, !.map = [t \in Slots |-> sess[t]]]
  ELSE [NoGlance EXCEPT !.st = sess[s].st, !.gen = sess[s].gen, !.start = sess[s].start]
Look(c, pc) == calls' = [calls EXCEPT ![c].pc = pc, ![c].seen = Glance(calls[c].s)]
Reply(c, tok) == calls' = [calls EXCEPT ![c].pc = "answered", ![c].new = tok]
Fail(c) == calls' = [calls EXCEPT ![c] = NoCall]   \* the client only sees an error

NewJti == minted + 1
\* The write of a new token for s, and its place in the history.
Mint(s, c, tok, from) ==
  /\ minted' = NewJti /\ Reply(c, tok)
  /\ parent' = [j \in 1..NewJti |-> IF j = NewJti THEN from ELSE parent[j]]
EndTokens(ended) == over' = [s \in Sessions |-> IF s \in ended THEN minted ELSE over[s]]

\* The calls that may yet mint; with what they mint there is room for another.
Minters ==
  {c \in Calls : calls[c].kind \in {"refresh", "select", "redeem", "register"}
                    /\ calls[c].pc # "answered"}
Spare == minted + Cardinality(Minters) < MaxJti
Mishap == mishaps < MaxMishaps /\ mishaps' = mishaps + 1

-----------------------------------------------------------------------------
(* Refresh *)

\* prepareRefreshAttempt: one attempt per stored token, kept until the
\* replacement is stored.
BeginRefresh(c, s) ==
  /\ store[s] # NoToken /\ (attempt[s] = store[s].jti \/ Spare)
  /\ attempt' = [attempt EXCEPT ![s] = store[s].jti]
  /\ Begin(c, [NoCall EXCEPT !.kind = "refresh", !.pc = "read", !.s = s,
                             !.tok = store[s], !.attempt = attempt'[s]])
  /\ UNCHANGED <<server, store, leaving, mishaps, minted, history>>

RecoverOrRefuse(c) ==
  LET call == calls[c] IN
  Reply(c, IF Live /\ Recoverable(call.s, call.tok, call.attempt)
           THEN sess[call.s].receipt.next ELSE NoToken)

RefreshRead(c) ==
  LET call == calls[c] IN
  /\ At(c, "refresh", "read")
  /\ IF ~Live THEN Reply(c, NoToken)
     ELSE IF ~Current(call.s, call.tok) THEN RecoverOrRefuse(c)
     ELSE IF sess[call.s].receipt.attempt = call.attempt THEN Reply(c, NoToken)
     ELSE Goto(c, "write")
  /\ UNCHANGED <<server, client, mishaps, minted, history>>

\* Mutant of MayRotate: the write is not conditional on the spent token.
RotateAnyway(s, tok) ==
  device.status = "active" /\ sess[s].gen >= tok.ver /\ (s = Primary \/ sess[s].st = "active")

\* The write's condition: it knows the row, not the site's generation.
MayRotate(s, tok) ==
  /\ device.status = "active"
  /\ sess[s].gen = tok.ver /\ sess[s].jti = tok.jti
  /\ s = Primary \/ sess[s].st = "active"

RefreshWrite(c) ==
  LET call == calls[c]
      s == call.s
      new == [ver |-> call.tok.ver + 1, jti |-> NewJti] IN
  /\ At(c, "refresh", "write") /\ MayRotate(s, call.tok)
  /\ sess' = [sess EXCEPT ![s] =
                [@ EXCEPT !.st = "active", !.gen = new.ver, !.jti = new.jti,
                          !.receipt = [input |-> call.tok, attempt |-> call.attempt,
                                       next |-> new]]]
  /\ late' = late \ {s} /\ stale' = stale \ {s}
  /\ Mint(s, c, new, call.tok.jti)
  /\ UNCHANGED <<managed, site, device, grants, client, mishaps, over, faded, origin>>

\* Cancelled: the condition failed, or another transaction was in the way.
RefreshCancelled(c) ==
  /\ At(c, "refresh", "write")
  /\ IF MayRotate(calls[c].s, calls[c].tok)
     THEN Mishap
     ELSE mishaps' = mishaps
  /\ Goto(c, "reread")
  /\ UNCHANGED <<server, client, minted, history>>

\* Mutant of RefreshReread: the loop has no end.
RereadForever(c) ==
  LET call == calls[c] IN
  /\ At(c, "refresh", "reread")
  /\ IF ~Current(call.s, call.tok) THEN RecoverOrRefuse(c)
     ELSE calls' = [calls EXCEPT ![c].tries = @ + 1]
  /\ UNCHANGED <<server, client, mishaps, minted, history>>

RefreshReread(c) ==
  LET call == calls[c] IN
  /\ At(c, "refresh", "reread")
  /\ IF ~Current(call.s, call.tok) THEN RecoverOrRefuse(c)
     ELSE IF ~Live THEN Reply(c, NoToken)
     ELSE IF call.tries + 1 >= RereadLimit THEN Fail(c)   \* 409 refresh_in_progress
     ELSE calls' = [calls EXCEPT ![c].tries = @ + 1]
  /\ UNCHANGED <<server, client, mishaps, minted, history>>

\* updateSiteSession: only over the token that was spent.
RefreshStored(c) ==
  LET call == calls[c] IN
  /\ At(c, "refresh", "answered") /\ call.new # NoToken
  /\ IF store[call.s] = call.tok
     THEN /\ store' = [store EXCEPT ![call.s] = call.new]
          /\ attempt' = [attempt EXCEPT ![call.s] = 0]
     ELSE UNCHANGED <<store, attempt>>
  /\ Fail(c)
  /\ UNCHANGED <<server, leaving, mishaps, minted, history>>

\* Mutant of RefreshRefused: the store is not read again before giving up.
RefusedForGood(c) ==
  LET s == calls[c].s IN
  /\ At(c, "refresh", "answered") /\ calls[c].new = NoToken
  /\ store' = [store EXCEPT ![s] = NoToken] /\ attempt' = [attempt EXCEPT ![s] = 0]
  /\ Fail(c)
  /\ UNCHANGED <<server, leaving, mishaps, minted, history>>

\* ReauthRequiredError, unless another tab has stored a newer token.  The
\* banner's only way on is to clear the local session.
RefreshRefused(c) ==
  LET call == calls[c] IN
  /\ At(c, "refresh", "answered") /\ call.new = NoToken
  /\ IF store[call.s] = call.tok
     THEN /\ store' = [store EXCEPT ![call.s] = NoToken]
          /\ attempt' = [attempt EXCEPT ![call.s] = 0]
     ELSE UNCHANGED <<store, attempt>>
  /\ Fail(c)
  /\ UNCHANGED <<server, leaving, mishaps, minted, history>>

-----------------------------------------------------------------------------
(* Selecting the binding, by a tab that does not know it is the current one *)

\* currentDevice.  Here and below, a call that carries nothing that ages begins
\* with its read, and one whose read refuses changes nothing.
SelectSource(c, s) ==
  /\ managed /\ store[s] # NoToken /\ Spare
  /\ Live /\ Matches(s, store[s].ver)
  /\ Begin(c, [NoCall EXCEPT !.kind = "select", !.pc = "resolve", !.s = s])
  /\ UNCHANGED <<server, client, mishaps, minted, history>>

\* resolveBinding reads the row once more, and its primary session's status
\* is not asked again.
SelectTarget(c) ==
  /\ At(c, "select", "resolve")
  /\ IF Live THEN Look(c, "write") ELSE Fail(c)
  /\ UNCHANGED <<server, client, mishaps, minted, history>>

UsableSlots(seen) == {s \in Slots : seen.map[s].st = "active" /\ s \notin late}

\* Mutant of MayCreate: the map is not compared with what was read.
CreateBlindly(seen) == device.status = "active" /\ sess[Primary].gen = seen.gen

\* contextSessionWrite for a sid that is not in the map: the whole map and the
\* device's generation must be as they were read.
MayCreate(seen) ==
  /\ device.status = "active"
  /\ sess[Primary].gen = seen.gen /\ \A t \in Slots : sess[t] = seen.map[t]
  /\ Cardinality(UsableSlots(seen)) < SlotLimit
WithNewSlot(s, seen) ==
  [t \in Sessions |->
     IF t = Primary THEN sess[t]
     ELSE IF t = s
     THEN [NoSession EXCEPT !.st = "active", !.gen = 1, !.jti = NewJti, !.start = 1]
     ELSE IF t \in UsableSlots(seen) THEN seen.map[t] ELSE NoSession]

MaySelect(s, seen) ==
  /\ device.status = "active"
  /\ sess[s].gen = seen.gen
  /\ s = Primary \/ sess[s].st = "active"

Selected(s, seen) ==
  [sess[s] EXCEPT
     !.st = "active", !.gen = @ + 1, !.jti = NewJti,
     !.start = IF seen.st = "active" /\ s \notin late THEN @ ELSE seen.gen + 1,
     !.receipt = IF s = Primary THEN @ ELSE NoReceipt]

SelectWrite(c) ==
  LET s == calls[c].s
      seen == calls[c].seen IN
  /\ At(c, "select", "write")
  /\ \/ /\ seen.st # "none" /\ MaySelect(s, seen)
        /\ sess' = [sess EXCEPT ![s] = Selected(s, seen)]
     \/ /\ seen.st = "none" /\ MayCreate(seen)
        /\ sess' = WithNewSlot(s, seen)
  /\ late' = late \ {s}
  /\ Mint(s, c, [ver |-> sess'[s].gen, jti |-> NewJti], 0) /\ EndTokens({s})
  /\ UNCHANGED <<managed, site, stale, device, grants, client, mishaps, faded, origin>>

SelectConflict(c) ==
  LET s == calls[c].s
      seen == calls[c].seen IN
  /\ At(c, "select", "write")
  /\ IF seen.st = "none" THEN ~MayCreate(seen) ELSE ~MaySelect(s, seen)
  /\ Fail(c)
  /\ UNCHANGED <<server, client, mishaps, minted, history>>

\* setSite, redeem's saved session and a registration replace what is stored.
Replaced(c) ==
  LET call == calls[c] IN
  /\ call.kind \in {"select", "redeem", "register"} /\ call.pc = "answered"
  /\ store' = [store EXCEPT ![call.s] = call.new]
  /\ attempt' = [attempt EXCEPT ![call.s] = 0]
  /\ Fail(c)
  /\ UNCHANGED <<server, leaving, mishaps, minted, history>>

-----------------------------------------------------------------------------
(* Sign-out: the server is told first, for three seconds at most *)

BeginSignOut(c, s) ==
  /\ store[s] # NoToken /\ s \notin leaving
  /\ leaving' = leaving \union {s}
  /\ Begin(c, [NoCall EXCEPT !.kind = "signout", !.pc = "read", !.s = s,
                             !.tok = store[s]])
  /\ UNCHANGED <<server, store, attempt, mishaps, minted, history>>

ClearStore(s) ==
  /\ s \in leaving /\ leaving' = leaving \ {s}
  /\ store' = [store EXCEPT ![s] = NoToken]
  /\ attempt' = [attempt EXCEPT ![s] = 0]
  /\ UNCHANGED <<server, calls, mishaps, minted, history>>

\* The authorizer's answer may be cached: the caller's generation may be an
\* older one of the same enrollment.
OfThisEnrollment(s, ver) == sess[s].start <= ver /\ ver <= sess[s].gen

SignOutRead(c) ==
  LET s == calls[c].s IN
  /\ At(c, "signout", "read")
  /\ IF /\ OfThisEnrollment(s, calls[c].tok.ver)
        /\ s = Primary \/ sess[s].st = "active"
     THEN Look(c, "write") ELSE Fail(c)
  /\ UNCHANGED <<server, client, mishaps, minted, history>>

MaySignOut(s, seen) ==
  /\ device.status = "active" /\ sess[s].start = seen.start
  /\ s = Primary \/ sess[s].st = "active"

\* Mutant of SignedOut: the generation is not advanced.
SignedOutInPlace(s) == [sess[s] EXCEPT !.st = "signed_out"]

SignedOut(s) ==
  [sess[s] EXCEPT !.st = "signed_out", !.gen = @ + 1,
                  !.jti = IF s = Primary THEN @ ELSE 0]

SignOutWrite(c) ==
  LET s == calls[c].s IN
  /\ At(c, "signout", "write")
  /\ IF MaySignOut(s, calls[c].seen)
     THEN /\ sess' = [sess EXCEPT ![s] = SignedOut(s)]
          /\ device' = [device EXCEPT !.grant = IF s = Primary THEN NoGrant ELSE @]
          /\ EndTokens({s})
     ELSE UNCHANGED <<sess, device, over>>
  /\ Fail(c)
  /\ UNCHANGED <<managed, site, stale, late, grants, client, mishaps, minted, parent, faded, origin>>

-----------------------------------------------------------------------------
(* Handing the session to a Home Screen app *)

\* A cached grant that is still pending is only given out again.
IssueRead(c) ==
  /\ store[Primary] # NoToken /\ \E g \in Grants : grants[g].st = "none"
  /\ device.status = "active" /\ Matches(Primary, store[Primary].ver)
  /\ Begin(c, [NoCall EXCEPT !.kind = "issue", !.pc = "write", !.seen = Glance(Primary),
                             !.grant = device.grant])
  /\ UNCHANGED <<server, client, mishaps, minted, history>>

MayIssue(c) ==
  /\ device.status = "active" /\ device.grant = calls[c].grant
  /\ sess[Primary].gen = calls[c].seen.gen

IssueWrite(c) ==
  /\ At(c, "issue", "write")
  /\ \/ \E g \in Grants :
          /\ MayIssue(c) /\ grants[g].st = "none"
          /\ grants' = [grants EXCEPT ![g] = [st |-> "pending",
                                              start |-> sess[Primary].start]]
          /\ device' = [device EXCEPT !.grant = g]
     \/ ~MayIssue(c) /\ UNCHANGED <<grants, device>>
     \/ (\A g \in Grants : grants[g].st # "none") /\ UNCHANGED <<grants, device>>
  /\ Fail(c)
  /\ UNCHANGED <<managed, site, stale, sess, late, client, mishaps, minted, history>>

\* A launch presents the grant of its cookie or its address: any grant that
\* was ever issued, and more than once.
RedeemRead(c, s, g) ==
  /\ Spare /\ origin[s] = NoGrant
  /\ ~\E d \in Calls : calls[d].kind = "redeem" /\ calls[d].s = s
  /\ grants[g].st = "pending" /\ Live
  /\ device.grant = g /\ sess[Primary].st # "signed_out"
  /\ Begin(c, [NoCall EXCEPT !.kind = "redeem", !.pc = "write", !.s = s, !.grant = g,
                             !.seen = Glance(s)])
  /\ UNCHANGED <<server, client, mishaps, minted, history>>

\* Mutant of MayRedeem: the grant and the pointer are not looked at again, nor
\* the map that has changed.
RedeemAnyway(c) == device.status = "active" /\ calls[c].grant # NoGrant

MayRedeem(c) ==
  /\ MayCreate(calls[c].seen)
  /\ device.grant = calls[c].grant /\ grants[calls[c].grant].st = "pending"

RedeemWrite(c) ==
  LET s == calls[c].s
      g == calls[c].grant IN
  /\ At(c, "redeem", "write") /\ MayRedeem(c)
  /\ sess' = WithNewSlot(s, calls[c].seen) /\ late' = late \ {s}
  /\ device' = [device EXCEPT !.grant = NoGrant]
  /\ grants' = [grants EXCEPT ![g].st = "redeemed"]
  /\ origin' = [origin EXCEPT ![s] = g]
  /\ Mint(s, c, [ver |-> 1, jti |-> NewJti], 0)
  /\ UNCHANGED <<managed, site, stale, client, mishaps, over, faded>>

RedeemRefused(c) ==
  /\ At(c, "redeem", "write") /\ ~MayRedeem(c) /\ Fail(c)
  /\ UNCHANGED <<server, client, mishaps, minted, history>>

-----------------------------------------------------------------------------
(* Registering again with a setup code *)

RegisterRead(c) ==
  /\ ~managed /\ Spare
  /\ Begin(c, [NoCall EXCEPT !.kind = "register", !.pc = "write",
                             !.seen = Glance(Primary), !.site = site])
  /\ UNCHANGED <<server, client, mishaps, minted, history>>

MayRegister(c) ==
  calls[c].seen.gen = sess[Primary].gen /\ calls[c].site = site

\* The whole row is put: slots, receipt, grant pointer and status go.
RegisterWrite(c) ==
  LET gen == sess[Primary].gen + 1 IN
  /\ At(c, "register", "write") /\ MayRegister(c)
  /\ sess' = [s \in Sessions |->
                IF s = Primary
                THEN [NoSession EXCEPT !.st = "active", !.gen = gen,
                                       !.jti = NewJti, !.start = gen]
                ELSE NoSession]
  /\ device' = [status |-> "active", site |-> site, grant |-> NoGrant]
  /\ late' = {} /\ stale' = stale
  /\ Mint(Primary, c, [ver |-> gen, jti |-> NewJti], 0) /\ EndTokens(Sessions)
  /\ UNCHANGED <<managed, site, grants, client, mishaps, faded, origin>>

RegisterConflict(c) ==
  /\ At(c, "register", "write") /\ ~MayRegister(c) /\ Fail(c)
  /\ UNCHANGED <<server, client, mishaps, minted, history>>

-----------------------------------------------------------------------------
(* The administrator, time, and failures *)

\* A managed device takes its generation from the binding's row, which
\* refreshes do not advance.
Suspend ==
  /\ Mishap /\ device.status = "active"
  /\ device' = [device EXCEPT !.status = "suspended"]
  /\ \E gen \in IF managed THEN 2..(sess[Primary].gen + 1) ELSE {sess[Primary].gen + 1} :
       sess' = [sess EXCEPT ![Primary].gen = gen]
  /\ UNCHANGED <<managed, site, stale, late, grants, client, calls, minted, history>>

RevokeSite ==
  /\ Mishap /\ site' = site + 1
  /\ UNCHANGED <<managed, device, stale, sess, late, grants, client, calls, minted, history>>

Fade(s) == faded' = [faded EXCEPT ![s] = minted]

ExpireReceipt(s) ==
  /\ Mishap /\ sess[s].receipt # NoReceipt /\ s \notin stale /\ stale' = stale \union {s} /\ Fade(s)
  /\ UNCHANGED <<managed, site, device, sess, late, grants, client, calls, minted,
                 parent, over, origin>>

ExpireSlot(s) ==
  /\ Mishap /\ sess[s].st = "active" /\ s \notin late /\ late' = late \union {s} /\ Fade(s)
  /\ UNCHANGED <<managed, site, stale, device, sess, grants, client, calls, minted,
                 parent, over, origin>>

ExpireGrant(g) ==
  /\ Mishap /\ grants[g].st = "pending" /\ grants' = [grants EXCEPT ![g].st = "expired"]
  /\ UNCHANGED <<managed, site, stale, device, sess, late, client, calls, minted, history>>

\* The function dies, the answer is lost, or its token could not be stored.
Lose(c) ==
  /\ calls[c] # NoCall /\ Mishap
  /\ Fail(c)
  /\ UNCHANGED <<server, client, minted, history>>

-----------------------------------------------------------------------------
ServerStep(c) ==
  \/ RefreshRead(c) \/ RefreshWrite(c) \/ RefreshCancelled(c) \/ RefreshReread(c)
  \/ SelectTarget(c) \/ SelectWrite(c) \/ SelectConflict(c)
  \/ SignOutRead(c) \/ SignOutWrite(c)
  \/ IssueWrite(c) \/ RedeemWrite(c) \/ RedeemRefused(c)
  \/ RegisterWrite(c) \/ RegisterConflict(c)

ClientStep(c) == RefreshStored(c) \/ RefreshRefused(c) \/ Replaced(c)

Next ==
  \/ \E c \in Calls : ServerStep(c) \/ ClientStep(c) \/ Lose(c)
                      \/ IssueRead(c) \/ RegisterRead(c)
  \/ \E c \in Calls, s \in Sessions :
       BeginRefresh(c, s) \/ SelectSource(c, s) \/ BeginSignOut(c, s)
  \/ \E c \in Calls, s \in Slots, g \in Grants : RedeemRead(c, s, g)
  \/ \E s \in Sessions : ClearStore(s) \/ ExpireReceipt(s)
  \/ \E s \in Slots : ExpireSlot(s)
  \/ \E g \in Grants : ExpireGrant(g)
  \/ Suspend \/ RevokeSite

Spec == Init /\ [][Next]_vars

-----------------------------------------------------------------------------
(* Properties *)

\* ADR 0020: retries of a refresh converge on the same result.  A token is
\* replaced once, whatever tabs, retries and cancelled writes do, and an answer
\* carries that replacement.
OneSuccessor ==
  /\ \A i, j \in 1..minted : parent[i] = parent[j] /\ parent[i] # 0 => i = j
  /\ \A c \in Calls :
       At(c, "refresh", "answered") /\ calls[c].new # NoToken
         => parent[calls[c].new.jti] = calls[c].tok.jti

\* Time and deliberate acts aside, what a container keeps can be refreshed: its
\* token is the current one, or the attempt beside it recovers the current one,
\* whatever was lost, cancelled or written by another container.
Ended(s, tok) == tok.jti <= over[s] \/ tok.jti <= faded[s]
Renewable ==
  \A s \in Sessions :
    store[s] # NoToken /\ Live /\ ~Ended(s, store[s])
      => Current(s, store[s]) \/ Recoverable(s, store[s], attempt[s])

\* A container is sent back to enrollment only when its session really is over:
\* never by the answer to a call that lost a race.
ReauthOnlyWhenOver ==
  [][\A s \in Sessions :
       store[s] # NoToken /\ store'[s] = NoToken /\ s \notin leaving
         => ~Live \/ Ended(s, store[s])]_vars

\* Once a session was signed out, selected anew or registered again, no token
\* of before is accepted, and no receipt turns one into a live one, whichever
\* refresh was in flight then.
EndedTokensStayDead ==
  \A s \in Sessions :
    sess[s].st = "active"
      => /\ sess[s].jti > over[s]
         /\ sess[s].receipt.next.jti = sess[s].jti
              => sess[s].receipt.input.jti > over[s]

\* A grant makes one slot, and only while the browser session that asked for
\* it is still signed in, as the same enrollment.
GrantDiesWithItsSession ==
  [][\A s \in Slots :
       origin'[s] # origin[s]
         => /\ sess[Primary].st = "active"
            /\ sess[Primary].start = grants[origin'[s]].start
            /\ \A t \in Slots \ {s} : origin[t] # origin'[s]]_vars
=============================================================================
