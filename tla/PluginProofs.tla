------------------------------ MODULE PluginProofs ------------------------------
(***************************************************************************)
(* Proofs about plugins: the import sessions (ImportSessions), for any set  *)
(* of requests and any life time; guests, workflows and lifecycle           *)
(* operations (PluginGuests), for any set of guests and any limits; and the *)
(* managed packages (ManagedPlugins), for any finite set of packages, any   *)
(* ids and any number of faults and acts of the user.                       *)
(***************************************************************************)
EXTENDS ImportSessions, PluginGuests, ManagedPlugins, FiniteSetTheorems, SequenceTheorems,
        WellFoundedInduction, TLAPS

\* A lease is held exactly while the session is the one it opened: a lease that
\* outlives its session is already marked as such and cannot end another one.
Leases ==
    /\ session.state # "idle" => session.owner \in Requests
    /\ \A r \in Requests : prepare[r] = "held" <=> Owned("preparing", r)
    /\ \A r \in Requests : commit[r] <=> Owned("committing", r)

\* A preview is ready once: its request has published it, and neither committed
\* nor cancelled it.
Unspent(r) == commits[r] = 0 /\ r \notin cancelled

Previews ==
    \A r \in Requests :
        /\ commits[r] <= 1 /\ (r \in cancelled => commits[r] = 0)
        /\ prepare[r] \in {"none", "held"} => Unspent(r)
        /\ Owned("ready", r) => Unspent(r) /\ prepare[r] \in {"published", "dropped"}

IInv == TypeOK /\ Leases /\ Previews
-----------------------------------------------------------------------------
Session == [state : {"idle", "preparing", "ready", "committing"},
            owner : Requests \cup {0}, until : 0 .. MaxTime + Life]

LEMMA Types ==
  ASSUME TypeOK
  PROVE  /\ session \in Session /\ Idle \in Session /\ Current \in Session
         /\ Idle.state = "idle"
         /\ \A r \in Requests : State("preparing", r, 0) \in Session /\ State("committing", r, 0) \in Session
         /\ \A r \in Requests : State("ready", r, now + Life) \in Session
         /\ \A s, r, u : State(s, r, u).state = s /\ State(s, r, u).owner = r
  <1>1. 0 \in 0 .. MaxTime + Life /\ now + Life \in 0 .. MaxTime + Life
    BY TimeAssumption DEF TypeOK
  <1>2. session \in Session /\ Idle \in Session /\ Idle.state = "idle"
    BY <1>1 DEF TypeOK, Session, Idle
  <1> QED BY <1>1, <1>2 DEF Session, State, Current

\* expire ends a ready session or leaves it alone.
LEMMA CurrentFacts ==
  ASSUME TypeOK
  PROVE  /\ Current.state # "idle" => Current = session
         /\ Current.state = "idle" => session.state \in {"idle", "ready"}
  BY Types DEF Current, Expired, Session

LEMMA InitIInv == Init => IInv
  BY TimeAssumption DEF Init, IInv, TypeOK, Leases, Previews, Unspent, Owned, Idle

\* A request that finds nothing for it, or a cancellation: a ready session, at
\* most, ends.
LEMMA EndsReady ==
  ASSUME IInv, session' \in {session, Idle}, session' = Idle => session.state \in {"idle", "ready"},
         UNCHANGED <<prepare, commit, now, issued, commits>>,
         \/ UNCHANGED cancelled
         \/ \E r \in Requests : /\ Owned("ready", r) /\ session' = Idle
                                /\ cancelled' = cancelled \cup {r}
  PROVE  IInv'
  <1>0. TypeOK /\ session \in Session /\ Idle \in Session /\ Idle.state = "idle"
    BY Types DEF IInv
  <1>1. TypeOK'
    BY <1>0 DEF TypeOK, Session
  <1>2. Leases'
    BY <1>0 DEF IInv, Leases, Owned
  <1>3. Previews'
    <2>1. CASE UNCHANGED cancelled
      BY <1>0, <2>1 DEF IInv, Previews, Unspent, Owned
    <2>2. ASSUME NEW r \in Requests, Owned("ready", r), session' = Idle, cancelled' = cancelled \cup {r}
          PROVE  Previews'
      <3>1. Unspent(r) /\ prepare[r] \in {"published", "dropped"}
        BY <2>2 DEF IInv, Previews
      <3> QED BY <1>0, <2>2, <3>1 DEF IInv, Previews, Unspent, Owned
    <2> QED BY <2>1, <2>2
  <1> QED BY <1>1, <1>2, <1>3 DEF IInv

LEMMA ReserveInv ==
  ASSUME IInv, NEW r \in Requests, Reserve(r)
  PROVE  IInv'
  <1>0. TypeOK /\ session \in Session /\ Idle.state = "idle"
    BY Types DEF IInv
  <1>1. CASE Current.state # "idle"
    BY <1>0, <1>1, CurrentFacts, EndsReady DEF Reserve
  <1>2. CASE Current.state = "idle"
    <2>1. /\ session' \in Session /\ session'.state = "preparing" /\ session'.owner = r
          /\ prepare' = [prepare EXCEPT ![r] = "held"]
          /\ UNCHANGED <<commit, now, issued, cancelled, commits>>
      BY <1>0, <1>2, Types DEF Reserve
    <2>2. session.state \in {"idle", "ready"} /\ prepare[r] = "none"
      BY <1>0, <1>2, CurrentFacts DEF Reserve
    <2>3. /\ prepare' \in [Requests -> {"none", "held", "published", "dropped"}] /\ prepare'[r] = "held"
          /\ \A i \in Requests : i # r => prepare'[i] = prepare[i]
      BY <1>0, <2>1 DEF TypeOK
    <2>4. TypeOK'
      BY <1>0, <2>1, <2>3 DEF TypeOK, Session
    <2>5. Leases'
      BY <2>1, <2>2, <2>3 DEF IInv, Leases, Owned
    <2>6. Previews'
      BY <2>1, <2>2, <2>3 DEF IInv, Previews, Unspent, Owned
    <2> QED BY <2>4, <2>5, <2>6 DEF IInv
  <1> QED BY <1>1, <1>2

LEMMA PublishInv ==
  ASSUME IInv, NEW r \in Requests, Publish(r)
  PROVE  IInv'
  <1>0. TypeOK /\ session \in Session
    BY Types DEF IInv
  <1>1. /\ session' \in Session /\ session'.state = "ready" /\ session'.owner = r
        /\ UNCHANGED <<commit, now, cancelled, commits>>
    BY <1>0, Types DEF Publish
  <1>2. session.state = "preparing" /\ session.owner = r /\ prepare[r] = "held"
    BY DEF Publish, Owned
  <1>3. /\ prepare' \in [Requests -> {"none", "held", "published", "dropped"}] /\ prepare'[r] = "published"
        /\ \A i \in Requests : i # r => prepare'[i] = prepare[i]
    BY <1>0 DEF TypeOK, Publish
  <1>4. issued' \in [Requests -> -1 .. MaxTime]
    BY <1>0, TimeAssumption DEF TypeOK, Publish
  <1>5. TypeOK'
    BY <1>0, <1>1, <1>3, <1>4 DEF TypeOK, Session
  <1>6. Leases'
    BY <1>1, <1>2, <1>3 DEF IInv, Leases, Owned
  <1>7. Previews'
    BY <1>1, <1>2, <1>3 DEF IInv, Previews, Unspent, Owned
  <1> QED BY <1>5, <1>6, <1>7 DEF IInv

LEMMA DropPrepareInv ==
  ASSUME IInv, NEW r \in Requests, DropPrepare(r)
  PROVE  IInv'
  <1>0. TypeOK /\ session \in Session /\ Idle \in Session /\ Idle.state = "idle"
    BY Types DEF IInv
  <1>1. /\ session' \in Session
        /\ session' = IF Owned("preparing", r) THEN Idle ELSE session
        /\ prepare[r] \in {"held", "published"}
        /\ UNCHANGED <<commit, now, issued, cancelled, commits>>
    BY <1>0 DEF DropPrepare
  <1>2. /\ prepare' \in [Requests -> {"none", "held", "published", "dropped"}] /\ prepare'[r] = "dropped"
        /\ \A i \in Requests : i # r => prepare'[i] = prepare[i]
    BY <1>0 DEF TypeOK, DropPrepare
  <1>3. TypeOK'
    BY <1>0, <1>1, <1>2 DEF TypeOK, Session
  <1>4. Leases'
    BY <1>0, <1>1, <1>2 DEF IInv, Leases, Owned
  <1>5. Previews'
    BY <1>0, <1>1, <1>2 DEF IInv, Previews, Unspent, Owned
  <1> QED BY <1>3, <1>4, <1>5 DEF IInv

LEMMA ClaimInv ==
  ASSUME IInv, NEW r \in Requests, Claim(r)
  PROVE  IInv'
  <1>0. TypeOK /\ session \in Session /\ Idle.state = "idle"
    BY Types DEF IInv
  <1>1. CASE ~(Current.state = "ready" /\ Current.owner = r)
    <2>1. session' = Current /\ UNCHANGED <<prepare, commit, now, issued, cancelled, commits>>
      BY <1>1 DEF Claim
    <2>2. session' \in {session, Idle} /\ (session' = Idle => session.state \in {"idle", "ready"})
      BY <1>0, <2>1, CurrentFacts DEF Current
    <2> QED BY <2>1, <2>2, EndsReady
  <1>2. CASE Current.state = "ready" /\ Current.owner = r
    <2>1. /\ session' \in Session /\ session'.state = "committing" /\ session'.owner = r
          /\ UNCHANGED <<prepare, now, issued, cancelled>>
      BY <1>0, <1>2, Types DEF Claim
    <2>2. session.state = "ready" /\ session.owner = r
      BY <1>0, <1>2, CurrentFacts
    <2>3. Unspent(r) /\ prepare[r] \in {"published", "dropped"}
      BY <2>2 DEF IInv, Previews, Owned
    <2>4. /\ commit' \in [Requests -> BOOLEAN] /\ commit'[r] = TRUE
          /\ \A i \in Requests : i # r => commit'[i] = commit[i]
      BY <1>0, <1>2 DEF TypeOK, Claim
    <2>5. /\ commits' \in [Requests -> Nat] /\ commits'[r] = 1
          /\ \A i \in Requests : i # r => commits'[i] = commits[i]
      BY <1>0, <1>2, <2>3 DEF TypeOK, Claim, Unspent
    <2>6. TypeOK'
      BY <1>0, <2>1, <2>4, <2>5 DEF TypeOK, Session
    <2>7. Leases'
      BY <2>1, <2>2, <2>4 DEF IInv, Leases, Owned
    <2>8. Previews'
      BY <2>1, <2>2, <2>3, <2>5 DEF IInv, Previews, Unspent, Owned
    <2> QED BY <2>6, <2>7, <2>8 DEF IInv
  <1> QED BY <1>1, <1>2

LEMMA CancelInv ==
  ASSUME IInv, NEW r \in Requests, Cancel(r)
  PROVE  IInv'
  <1>0. TypeOK /\ session \in Session /\ Idle.state = "idle"
    BY Types DEF IInv
  <1>1. CASE ~(Current.state = "ready" /\ Current.owner = r)
    <2>1. session' = Current /\ UNCHANGED <<prepare, commit, now, issued, cancelled, commits>>
      BY <1>1 DEF Cancel
    <2>2. session' \in {session, Idle} /\ (session' = Idle => session.state \in {"idle", "ready"})
      BY <1>0, <2>1, CurrentFacts DEF Current
    <2> QED BY <2>1, <2>2, EndsReady
  <1>2. CASE Current.state = "ready" /\ Current.owner = r
    <2>1. /\ session' = Idle /\ cancelled' = cancelled \cup {r}
          /\ UNCHANGED <<prepare, commit, now, issued, commits>>
      BY <1>2 DEF Cancel
    <2>2. Owned("ready", r)
      BY <1>0, <1>2, CurrentFacts DEF Owned
    <2> QED BY <2>1, <2>2, EndsReady DEF Owned
  <1> QED BY <1>1, <1>2

LEMMA DropCommitInv ==
  ASSUME IInv, NEW r \in Requests, DropCommit(r)
  PROVE  IInv'
  <1>0. TypeOK /\ session \in Session /\ Idle \in Session /\ Idle.state = "idle"
    BY Types DEF IInv
  <1>1. /\ Owned("committing", r) /\ session' = Idle
        /\ UNCHANGED <<prepare, now, issued, cancelled, commits>>
    BY DEF DropCommit, IInv, Leases
  <1>2. /\ commit' \in [Requests -> BOOLEAN] /\ commit'[r] = FALSE
        /\ \A i \in Requests : i # r => commit'[i] = commit[i]
    BY <1>0 DEF TypeOK, DropCommit
  <1>3. TypeOK'
    BY <1>0, <1>1, <1>2 DEF TypeOK, Session
  <1>4. Leases'
    BY <1>0, <1>1, <1>2 DEF IInv, Leases, Owned
  <1>5. Previews'
    BY <1>0, <1>1 DEF IInv, Previews, Unspent, Owned
  <1> QED BY <1>3, <1>4, <1>5 DEF IInv

LEMMA TickInv ==
  ASSUME IInv, Tick
  PROVE  IInv'
  <1>1. TypeOK'
    BY TimeAssumption DEF IInv, TypeOK, Tick
  <1>2. Leases' /\ Previews'
    BY DEF IInv, Leases, Previews, Unspent, Owned, Tick
  <1> QED BY <1>1, <1>2 DEF IInv

LEMMA NextIInv == IInv /\ [Next]_vars => IInv'
  <1> SUFFICES ASSUME IInv, [Next]_vars PROVE IInv'
    OBVIOUS
  <1>1. CASE UNCHANGED vars
    BY <1>1 DEF vars, IInv, TypeOK, Leases, Previews, Unspent, Owned
  <1> QED
    BY <1>1, ReserveInv, PublishInv, DropPrepareInv, ClaimInv, CancelInv, DropCommitInv, TickInv DEF Next

\* The inductive invariant of the import sessions.
THEOREM Invariance == Spec => []IInv
  BY InitIInv, NextIInv, PTL DEF Spec

LEMMA AtMostOneElement ==
  ASSUME NEW S, NEW a, S \subseteq {a}
  PROVE  Cardinality(S) <= 1
  <1>1. CASE S = {}
    BY <1>1, FS_EmptySet
  <1>2. CASE S # {}
    <2>1. S = {a}
      BY <1>2
    <2> QED BY <2>1, FS_Singleton
  <1> QED BY <1>1, <1>2

\* For any number of prepare, commit and cancel requests, and leases that end in
\* any order: one import at a time, each preview is committed at most once and
\* never after its cancellation, and every session under way is ended by its lease.
THEOREM SessionsCorrect == Spec => []SessionsSafe
  <1>1. IInv => SessionsSafe
    <2> SUFFICES ASSUME IInv PROVE SessionsSafe
      OBVIOUS
    <2>1. OneImport
      <3>1. {r \in Requests : prepare[r] = "held"} \cup {r \in Requests : commit[r]} \subseteq {session.owner}
        BY DEF IInv, Leases, Owned
      <3> QED BY <3>1, AtMostOneElement DEF OneImport
    <2>2. CommitsOnce
      BY DEF IInv, Previews, CommitsOnce
    <2>3. SessionEnds
      BY DEF IInv, Leases, Owned, SessionEnds
    <2> QED BY <2>1, <2>2, <2>3 DEF IInv, SessionsSafe
  <1> QED BY <1>1, Invariance, PTL

-----------------------------------------------------------------------------
(* Guests, workflows and lifecycle operations: PluginGuests.               *)

Before  == {"idle", "asked", "locked"}
Holding == {"leased", "running", "orphan"}

\* A binding is of the past, and what rests on it can no longer be used.
Past(b) == b.epoch <= computeEpoch /\ b.sess <= accountSession
Overtaken(b, intent) == b.epoch < computeEpoch \/ b.sess < accountSession \/ intent < grant.intent

\* Guests and confirmations enter an empty gate only, so they stand at its head;
\* a lifecycle operation that raised the epoch stands in it until it is over.
Turns ==
  /\ \A i \in 2..Len(opGate) : opGate[i] \in {"grants", "life"}
  /\ \A g \in Guests : Admitting(g) <=> Holds(g)
  /\ confirm.step # "idle" <=> Holds("confirm")
  /\ life \in {"bump", "invalidate", "wait"} => \E i \in 1..Len(opGate) : opGate[i] = "life"

\* The slot names the guest that has the lease, whoever waits for it.
Seats == \A g \in Guests : slot = g <=> guest[g].step \in Holding

\* What is known of one guest: it is marked old only when its binding or its grant
\* has been overtaken, and one that runs across a lifecycle operation was told so.
Tracked(g) ==
  /\ guest[g].step \in Before => ~guest[g].old
  /\ guest[g].step \in Before \cup {"captured"} => ~guest[g].cancel
  /\ guest[g].seen <= published
  /\ guest[g].step \in {"captured", "leased"} => guest[g].seen = published
  /\ Past(guest[g].b) /\ guest[g].g.intent <= grant.intent
  /\ guest[g].kind = "workflow" /\ guest[g].step \in {"captured", "leased", "running", "done"} => grant # NoGrant
  /\ guest[g].old /\ guest[g].kind = "compute" => guest[g].b.epoch < computeEpoch
  /\ guest[g].old => Overtaken(guest[g].b, guest[g].g.intent)
  /\ guest[g].step \in Holding /\ guest[g].cancel /\ ~guest[g].told => life # "idle" \/ published > guest[g].seen
  /\ guest[g].kind = "compute" /\ life \in {"invalidate", "wait"} /\ guest[g].step \in {"locked", "captured"} \cup Holding
       => guest[g].b.epoch < computeEpoch
  /\ guest[g].kind = "compute" /\ life = "wait" /\ Running(g) => guest[g].cancel
  /\ guest[g].kind = "compute" /\ Running(g) /\ published > guest[g].seen
       => guest[g].cancel /\ guest[g].b.epoch < computeEpoch

\* A proposal outlives its guest, is never executed before, and is marked old only
\* when it has been overtaken.
Executed(x) == \E i \in 1..Len(executed) : executed[i] = x

Offered(p) ==
  /\ p.id \in Guests /\ guest[p.id].step = "gone" /\ ~Executed(p.id)
  /\ Past(p.b) /\ p.intent <= grant.intent
  /\ p.old => Overtaken(p.b, p.intent)

Proposed ==
  /\ \A p \in pending : Offered(p)
  /\ \A p, q \in pending : p.id = q.id => p = q
  /\ confirm.step = "taken" => Offered(confirm.p) /\ \A p \in pending : p.id # confirm.p.id
  /\ \A x \in Guests : Executed(x) => guest[x].step = "gone"

\* Numbers in their limits; nothing rests on a grant before there is one.
Counted ==
  /\ life \in {"reserve", "bump"} => computeEpoch < MaxLife
  /\ grant.intent <= serial
  /\ pending # {} \/ confirm.step = "taken" => grant # NoGrant

GuestsInv ==
  /\ GuestsTypeOK /\ Turns /\ Seats /\ (\A g \in Guests : Tracked(g)) /\ Proposed /\ Counted
  /\ NothingStale /\ ExecutedOnce

-----------------------------------------------------------------------------
LEMMA NumberFacts ==
  ASSUME GuestsTypeOK
  PROVE  /\ computeEpoch \in Nat /\ accountSession \in Nat /\ serial \in Nat /\ catalog \in Nat /\ published \in Nat
         /\ Binding \in Bindings
         /\ Binding.cat = catalog /\ Binding.epoch = computeEpoch /\ Binding.sess = accountSession
  BY LimitAssumption DEF GuestsTypeOK, Binding, Bindings

LEMMA NoneFacts ==
  /\ NoBinding \in Bindings /\ NoGrant \in Grants /\ NoGrant.intent = 0 /\ NoGrant.rev = 0
  /\ NoBinding.epoch = 0 /\ NoBinding.sess = 0
  BY DEF NoBinding, NoGrant, Bindings, Grants

LEMMA FreshFacts ==
  /\ Fresh \in GuestRecs /\ Fresh.step = "idle" /\ ~Fresh.old /\ ~Fresh.cancel /\ Fresh.seen = 0
  /\ Fresh.b = NoBinding /\ Fresh.g = NoGrant /\ Fresh.kind = "compute"
  BY NoneFacts DEF Fresh, GuestRecs, GuestSteps

LEMMA RestFacts ==
  /\ NoSetting \in SettingRecs /\ NoConfirm \in ConfirmRecs /\ NoConfirm.step = "idle" /\ NoSetting.step = "idle"
  BY NoneFacts DEF NoSetting, SettingRecs, NoConfirm, ConfirmRecs, Proposals

LEMMA GuestsInitInv == GuestsInit => GuestsInv
  <1> SUFFICES ASSUME GuestsInit PROVE GuestsInv
    OBVIOUS
  <1>1. guest \in [Guests -> GuestRecs] /\ \A g \in Guests : guest[g] = Fresh
    BY FreshFacts DEF GuestsInit
  <1>2. PendingOK /\ opGate \in Gates /\ executed \in Seq(Guests) /\ Len(opGate) = 0 /\ Len(executed) = 0
    BY FS_EmptySet, LimitAssumption DEF PendingOK, GuestsInit, Gates
  <1>3. GuestsTypeOK
    <2>1. computeEpoch \in 0..MaxLife /\ accountSession \in 1..MaxSession /\ serial \in 0..MaxSerial
      BY LimitAssumption DEF GuestsInit
    <2>2. catalog \in Nat /\ published \in Nat /\ stale \in BOOLEAN /\ grant \in Grants
      BY NoneFacts DEF GuestsInit
    <2> QED BY <1>1, <1>2, <2>1, <2>2, RestFacts DEF GuestsInit, GuestsTypeOK
  <1>4. Turns
    BY <1>1, <1>2, FreshFacts, RestFacts DEF Turns, GuestsInit, Admitting, Holds
  <1>5. Seats
    BY <1>1, FreshFacts, GuestAssumption DEF Seats, GuestsInit, Holding
  <1>6. \A g \in Guests : Tracked(g)
    BY <1>1, FreshFacts, NoneFacts DEF Tracked, Running, Past, Before, Holding, GuestsInit
  <1>7. Proposed /\ Counted
    BY <1>2, NoneFacts, RestFacts DEF Proposed, Counted, Executed, GuestsInit
  <1>8. NothingStale /\ ExecutedOnce
    BY <1>2 DEF NothingStale, ExecutedOnce, GuestsInit
  <1> QED BY <1>3, <1>4, <1>5, <1>6, <1>7, <1>8 DEF GuestsInv

-----------------------------------------------------------------------------
\* The gate.
Behind(q) == \A i \in 1..Len(q) : q[i] \in {"grants", "life"}
HasLife(q) == \E i \in 1..Len(q) : q[i] = "life"

LEMMA Popped ==
  ASSUME GuestsInv, NEW who, Holds(who)
  PROVE  /\ Tail(opGate) \in Gates /\ Behind(Tail(opGate))
         /\ who # "life" /\ HasLife(opGate) => HasLife(Tail(opGate))
  <1>1. opGate \in Gates /\ opGate # <<>> /\ Head(opGate) = who
    BY DEF GuestsInv, GuestsTypeOK, Holds
  <1>2. /\ Tail(opGate) \in Gates /\ Len(Tail(opGate)) = Len(opGate) - 1
        /\ \A i \in 1..Len(Tail(opGate)) : Tail(opGate)[i] = opGate[i + 1]
    BY <1>1, HeadTailProperties DEF Gates
  <1>3. Len(opGate) \in Nat /\ opGate[1] = who
    BY <1>1 DEF Gates
  <1>4. Behind(Tail(opGate))
    <2> SUFFICES ASSUME NEW i \in 1..Len(Tail(opGate)) PROVE Tail(opGate)[i] \in {"grants", "life"}
      BY DEF Behind
    <2>1. i + 1 \in 2..Len(opGate)
      BY <1>2, <1>3
    <2> QED BY <1>2, <2>1 DEF GuestsInv, Turns
  <1>5. who # "life" /\ HasLife(opGate) => HasLife(Tail(opGate))
    <2> SUFFICES ASSUME who # "life", NEW i \in 1..Len(opGate), opGate[i] = "life" PROVE HasLife(Tail(opGate))
      BY DEF HasLife
    <2>1. i # 1 /\ i - 1 \in 1..Len(Tail(opGate)) /\ (i - 1) + 1 = i
      BY <1>2, <1>3
    <2>2. Tail(opGate)[i - 1] = opGate[i]
      BY <1>2, <2>1
    <2> QED BY <2>1, <2>2 DEF HasLife
  <1> QED BY <1>2, <1>4, <1>5

\* Nobody of the guests, and no confirmation, stands in what is behind the head.
LEMMA BehindFacts ==
  ASSUME NEW q \in Gates, Behind(q)
  PROVE  /\ \A i \in 2..Len(q) : q[i] \in {"grants", "life"}
         /\ q # <<>> => Head(q) \in {"grants", "life"} /\ Head(q) \notin Guests /\ Head(q) # "confirm"
  <1>1. Len(q) \in Nat /\ (q # <<>> => Head(q) = q[1] /\ Len(q) >= 1)
    BY DEF Gates
  <1> QED BY <1>1, GuestAssumption DEF Behind

LEMMA Appended ==
  ASSUME NEW q \in Gates, NEW x \in {"grants", "life"}
  PROVE  /\ Append(q, x) \in Gates /\ Append(q, x) # <<>>
         /\ Head(Append(q, x)) = IF q = <<>> THEN x ELSE Head(q)
         /\ (\A i \in 2..Len(q) : q[i] \in {"grants", "life"}) => \A i \in 2..Len(Append(q, x)) : Append(q, x)[i] \in {"grants", "life"}
         /\ HasLife(q) \/ x = "life" => HasLife(Append(q, x))
  <1>1. /\ Append(q, x) \in Gates /\ Len(Append(q, x)) = Len(q) + 1 /\ Append(q, x)[Len(q) + 1] = x
        /\ \A i \in 1..Len(q) : Append(q, x)[i] = q[i]
    BY AppendProperties DEF Gates
  <1>2. Len(q) \in Nat /\ (q # <<>> => Head(q) = q[1] /\ Len(q) >= 1) /\ (q = <<>> => Len(q) = 0)
    BY DEF Gates
  <1>3. Append(q, x) # <<>> /\ Head(Append(q, x)) = Append(q, x)[1]
    <2> DEFINE a == Append(q, x)
    <2>1. a \in Gates /\ Len(a) # 0
      BY <1>1, <1>2
    <2> HIDE DEF a
    <2>2. a # <<>> /\ Head(a) = a[1]
      BY <2>1 DEF Gates
    <2> QED BY <2>2 DEF a
  <1>4. HasLife(q) \/ x = "life" => HasLife(Append(q, x))
    <2>1. CASE x = "life"
      <3>1. Len(q) + 1 \in 1..Len(Append(q, x))
        BY <1>1, <1>2
      <3> QED BY <1>1, <2>1, <3>1 DEF HasLife
    <2>2. ASSUME NEW i \in 1..Len(q), q[i] = "life" PROVE HasLife(Append(q, x))
      <3>1. i \in 1..Len(Append(q, x))
        BY <1>1, <1>2
      <3> QED BY <1>1, <2>2, <3>1 DEF HasLife
    <2> QED BY <2>1, <2>2 DEF HasLife
  <1>5. \A i \in 1..Len(Append(q, x)) : i \in 1..Len(q) \/ Append(q, x)[i] = x
    BY <1>1, <1>2
  <1>6. ASSUME \A i \in 2..Len(q) : q[i] \in {"grants", "life"}, NEW i \in 2..Len(Append(q, x))
        PROVE  Append(q, x)[i] \in {"grants", "life"}
    <2>1. i \in 2..Len(q) \/ Append(q, x)[i] = x
      BY <1>1, <1>2
    <2>2. i \in 2..Len(q) => Append(q, x)[i] = q[i]
      BY <1>1, <1>2
    <2> QED BY <1>6, <2>1, <2>2
  <1>7. Head(Append(q, x)) = IF q = <<>> THEN x ELSE Head(q)
    BY <1>1, <1>2, <1>3
  <1> QED BY <1>1, <1>3, <1>4, <1>6, <1>7

-----------------------------------------------------------------------------
\* Grants only grow: a new one, or a new intent, has a number nobody has seen.
Grown ==
  /\ grant' \in Grants /\ serial' \in 0..MaxSerial
  /\ grant.intent <= grant'.intent /\ grant'.intent <= serial'
  /\ grant # NoGrant => grant' # NoGrant

LEMMA GrantNumbers ==
  ASSUME GuestsInv
  PROVE  grant \in Grants /\ grant.intent \in Nat /\ grant.intent <= serial /\ serial \in Nat /\ serial \in 0..MaxSerial
  BY NumberFacts DEF GuestsInv, GuestsTypeOK, Counted, Grants

LEMMA SameGrown ==
  ASSUME GuestsInv, UNCHANGED <<serial, grant>>
  PROVE  Grown
  <1>1. grant' = grant /\ serial' = serial
    OBVIOUS
  <1> QED BY <1>1, GrantNumbers DEF Grown

\* What WorkflowState::grant returns for the binding in force.
LEMMA GrantFacts ==
  ASSUME GuestsInv, serial < MaxSerial, NEW f, f = GrantOf(Binding)
  PROVE  /\ f.serial \in Nat /\ serial <= f.serial /\ f.serial <= serial + 1 /\ f.serial <= MaxSerial
         /\ f.pending \subseteq pending
         /\ f.grant \in Grants /\ f.grant # NoGrant
         /\ grant.intent <= f.grant.intent /\ f.grant.intent <= f.serial
         /\ f = [serial |-> f.serial, grant |-> f.grant, pending |-> f.pending]
  <1>0. MaxSerial \in Nat
    BY LimitAssumption
  <1>1. CASE grant # NoGrant /\ grant.b = Binding
    <2> DEFINE kept == {p \in pending : p.fresh /\ p.b.epoch = Binding.epoch}
    <2>1. f = [serial |-> serial, grant |-> grant, pending |-> kept]
      BY <1>1 DEF GrantOf
    <2>2. kept \subseteq pending
      OBVIOUS
    <2> HIDE DEF kept
    <2> QED BY <1>0, <1>1, <2>1, <2>2, GrantNumbers
  <1>2. CASE ~(grant # NoGrant /\ grant.b = Binding)
    <2> DEFINE n == [b |-> Binding, rev |-> serial + 1, intent |-> serial + 1, caps |-> FALSE]
    <2>1. f = [serial |-> serial + 1, pending |-> {}, grant |-> n]
      BY <1>2 DEF GrantOf
    <2>2. n \in Grants /\ n.rev = serial + 1 /\ n.intent = serial + 1
      BY GrantNumbers, NumberFacts DEF Grants, GuestsInv
    <2>3. n # NoGrant
      BY <2>2, NoneFacts, GrantNumbers
    <2> HIDE DEF n
    <2> QED BY <1>0, <2>1, <2>2, <2>3, GrantNumbers
  <1> QED BY <1>1, <1>2

LEMMA GrantGrown ==
  ASSUME GuestsInv, serial < MaxSerial, NEW f, f = GrantOf(Binding), serial' = f.serial, grant' = f.grant
  PROVE  Grown /\ grant' # NoGrant
  <1>0. MaxSerial \in Nat
    BY LimitAssumption
  <1> QED BY <1>0, GrantFacts, NumberFacts DEF GuestsInv, Grown

-----------------------------------------------------------------------------
OnlyGuest(g) == guest' \in [Guests -> GuestRecs] /\ \A h \in Guests : h # g => guest'[h] = guest[h]

LEMMA Written ==
  ASSUME GuestsTypeOK, NEW g \in Guests, NEW e \in GuestRecs, guest' = [guest EXCEPT ![g] = e]
  PROVE  OnlyGuest(g) /\ guest'[g] = e
  BY DEF GuestsTypeOK, OnlyGuest

LEMMA GuestTypes ==
  ASSUME GuestsTypeOK, NEW g \in Guests
  PROVE  /\ guest[g] \in GuestRecs /\ guest[g].b \in Bindings /\ guest[g].g \in Grants
         /\ guest[g].seen \in Nat /\ guest[g].b.epoch \in Nat /\ guest[g].b.sess \in Nat /\ guest[g].g.intent \in Nat
  <1>1. guest[g] \in GuestRecs
    BY DEF GuestsTypeOK
  <1>2. guest[g].b \in Bindings /\ guest[g].g \in Grants /\ guest[g].seen \in Nat
    BY <1>1 DEF GuestRecs
  <1>3. guest[g].b.epoch \in Nat /\ guest[g].b.sess \in Nat /\ guest[g].g.intent \in Nat
    BY <1>2 DEF Bindings, Grants
  <1> QED BY <1>1, <1>2, <1>3

\* A guest that is not touched stays tracked while grants grow.
LEMMA TrackedKept ==
  ASSUME GuestsInv, NEW h \in Guests, guest'[h] = guest[h], Grown,
         UNCHANGED <<computeEpoch, accountSession, life, published>>
  PROVE  Tracked(h)'
  <1>1. Tracked(h)
    BY DEF GuestsInv
  <1>2. guest[h].g.intent \in Nat /\ grant.intent \in Nat /\ grant'.intent \in Nat /\ grant.intent <= grant'.intent
    BY GuestTypes, GrantNumbers DEF Grown, Grants, GuestsInv
  <1>3. grant # NoGrant => grant' # NoGrant
    BY DEF Grown
  <1>4. Overtaken(guest[h].b, guest[h].g.intent) => Overtaken(guest[h].b, guest[h].g.intent)'
    BY <1>2 DEF Overtaken
  <1>5. guest[h].g.intent <= grant.intent => guest[h].g.intent <= grant'.intent
    BY <1>2
  <1>6. Past(guest[h].b) => Past(guest[h].b)'
    BY DEF Past
  <1> QED BY <1>1, <1>3, <1>4, <1>5, <1>6 DEF Tracked, Running

LEMMA ProposalTypes ==
  ASSUME NEW ids, NEW p \in Proposals(ids)
  PROVE  p.id \in ids /\ p.b \in Bindings /\ p.intent \in Nat /\ p.b.epoch \in Nat /\ p.b.sess \in Nat
  <1>1. p.id \in ids /\ p.b \in Bindings /\ p.intent \in Nat
    BY DEF Proposals
  <1> QED BY <1>1 DEF Bindings

\* A proposal stays on offer while its guest stays gone, grants grow and nothing is executed.
LEMMA OfferedKept ==
  ASSUME GuestsInv, NEW ids, NEW p \in Proposals(ids), Offered(p), Grown,
         guest'[p.id] = guest[p.id], UNCHANGED <<computeEpoch, accountSession, executed>>
  PROVE  Offered(p)'
  <1>1. p.intent \in Nat /\ grant.intent \in Nat /\ grant'.intent \in Nat /\ grant.intent <= grant'.intent
    BY ProposalTypes, GrantNumbers DEF Grown, Grants
  <1>2. Past(p.b)' /\ p.intent <= grant'.intent
    BY <1>1 DEF Offered, Past
  <1>3. Overtaken(p.b, p.intent) => Overtaken(p.b, p.intent)'
    BY <1>1 DEF Overtaken
  <1>4. Executed(p.id)' = Executed(p.id)
    BY DEF Executed
  <1> QED BY <1>2, <1>3, <1>4 DEF Offered

-----------------------------------------------------------------------------
\* What the step of one guest may do to the gate, the slot and the proposals.
Admitted == {"locked", "captured", "leased"}

GateMove(g) ==
  \/ opGate' = opGate /\ (guest'[g].step \in Admitted <=> guest[g].step \in Admitted)
  \/ opGate = <<>> /\ opGate' = <<g>> /\ guest'[g].step \in Admitted
  \/ Holds(g) /\ opGate' = Tail(opGate) /\ guest'[g].step \notin Admitted

SlotMove(g) ==
  \/ slot' = slot /\ (guest'[g].step \in Holding <=> guest[g].step \in Holding)
  \/ slot = "none" /\ slot' = g /\ guest'[g].step \in Holding
  \/ slot' = Released(g) /\ guest'[g].step \notin Holding

PendingMove(g) ==
  \/ pending' \subseteq pending
  \/ /\ guest'[g].step = "gone" /\ grant' # NoGrant /\ ~guest[g].old
     /\ guest'[g].b = guest[g].b /\ guest'[g].g = guest[g].g
     /\ \E ps \in SUBSET pending : Cardinality(ps) < MaxPending /\ pending' = ps \cup {Proposal(g)}

\* The gate after a step that leaves the confirmation and the lifecycle operation alone.
LEMMA GateTurns ==
  ASSUME GuestsInv, NEW g \in Guests, OnlyGuest(g), GateMove(g), UNCHANGED <<confirm, life>>
  PROVE  opGate' \in Gates /\ Turns'
  <1> USE DEF Admitted
  <1>0. /\ opGate \in Gates /\ Turns /\ g \notin {"none", "grants", "life", "confirm"}
        /\ \A h \in Guests : h # g => guest'[h] = guest[h]
    BY GuestAssumption DEF GuestsInv, GuestsTypeOK, OnlyGuest
  <1>1. CASE opGate' = opGate /\ (guest'[g].step \in Admitted <=> guest[g].step \in Admitted)
    <2>1. \A h \in Guests : guest'[h].step \in Admitted <=> guest[h].step \in Admitted
      BY <1>0, <1>1
    <2> QED BY <1>0, <1>1, <2>1 DEF Turns, Admitting, Holds
  <1>2. CASE opGate = <<>> /\ opGate' = <<g>> /\ guest'[g].step \in Admitted
    <2>1. opGate' \in Gates /\ Len(opGate') = 1 /\ Head(opGate') = g /\ opGate' # <<>> /\ Len(opGate) = 0
      BY <1>2 DEF Gates
    <2>2. \A h \in Guests : ~Admitting(h)
      BY <1>0, <1>2 DEF Turns, Holds
    <2>3. confirm.step = "idle" /\ life \notin {"bump", "invalidate", "wait"}
      BY <1>0, <1>2, <2>1 DEF Turns, Holds
    <2>4. \A h \in Guests : Admitting(h)' <=> h = g
      BY <1>0, <1>2, <2>2 DEF Admitting
    <2>5. \A i \in 2..Len(opGate') : opGate'[i] \in {"grants", "life"}
      BY <2>1
    <2> QED BY <1>0, <2>1, <2>3, <2>4, <2>5 DEF Turns, Holds
  <1>3. CASE Holds(g) /\ opGate' = Tail(opGate) /\ guest'[g].step \notin Admitted
    <2>1. opGate' \in Gates /\ Behind(opGate') /\ (HasLife(opGate) => HasLife(opGate'))
      BY <1>0, <1>3, Popped
    <2>2. /\ \A i \in 2..Len(opGate') : opGate'[i] \in {"grants", "life"}
          /\ opGate' # <<>> => Head(opGate') \notin Guests /\ Head(opGate') # "confirm"
      BY <2>1, BehindFacts
    <2>3. confirm.step = "idle" /\ \A h \in Guests : h # g => ~Admitting(h)
      BY <1>0, <1>3 DEF Turns, Holds
    <2>4. \A h \in Guests : ~Admitting(h)'
      BY <1>0, <1>3, <2>3 DEF Admitting
    <2>5. \A h \in Guests \cup {"confirm"} : ~Holds(h)'
      BY <2>2 DEF Holds
    <2>6. life \in {"bump", "invalidate", "wait"} => HasLife(opGate')
      BY <1>0, <2>1 DEF Turns, HasLife
    <2> QED BY <2>1, <2>2, <2>3, <2>4, <2>5, <2>6 DEF Turns, HasLife
  <1> QED BY <1>1, <1>2, <1>3 DEF GateMove

LEMMA SlotSeats ==
  ASSUME GuestsInv, NEW g \in Guests, OnlyGuest(g), SlotMove(g)
  PROVE  slot' \in Guests \cup {"none"} /\ Seats'
  <1>0. /\ slot \in Guests \cup {"none"} /\ Seats /\ "none" \notin Guests
        /\ \A h \in Guests : h # g => guest'[h] = guest[h]
    BY GuestAssumption DEF GuestsInv, GuestsTypeOK, OnlyGuest
  <1>1. CASE slot' = slot /\ (guest'[g].step \in Holding <=> guest[g].step \in Holding)
    BY <1>0, <1>1 DEF Seats
  <1>2. CASE slot = "none" /\ slot' = g /\ guest'[g].step \in Holding
    BY <1>0, <1>2 DEF Seats
  <1>3. CASE slot' = Released(g) /\ guest'[g].step \notin Holding
    BY <1>0, <1>3 DEF Seats, Released
  <1> QED BY <1>1, <1>2, <1>3 DEF SlotMove

LEMMA ProposalOffered ==
  ASSUME GuestsInv, NEW g \in Guests, guest[g].step # "gone", guest'[g].step = "gone", ~guest[g].old,
         guest'[g].b = guest[g].b, guest'[g].g = guest[g].g, Tracked(g)', UNCHANGED executed,
         NEW p, p = Proposal(g)
  PROVE  p \in Proposals(Guests) /\ p.id = g /\ Offered(p)'
  <1>1. p.id = g /\ p.b = guest[g].b /\ p.intent = guest[g].g.intent /\ p.old = guest[g].old
    BY DEF Proposal
  <1>2. p \in Proposals(Guests)
    <2>1. guest[g].b \in Bindings /\ guest[g].g.rev \in Nat /\ guest[g].g.intent \in Nat /\ guest[g].old \in BOOLEAN
      BY GuestTypes DEF GuestsInv, GuestRecs, Grants
    <2> QED BY <2>1 DEF Proposal, Proposals
  <1>3. ~Executed(g)'
    BY DEF GuestsInv, Proposed, Executed
  <1> QED BY <1>1, <1>2, <1>3 DEF Offered, Tracked

LEMMA ProposalsKept ==
  ASSUME GuestsInv, NEW g \in Guests, OnlyGuest(g), guest[g].step # "gone", Grown, PendingMove(g), Tracked(g)',
         UNCHANGED <<computeEpoch, accountSession, executed, confirm>>
  PROVE  PendingOK' /\ Proposed' /\ ((pending' # {} \/ confirm'.step = "taken") => grant' # NoGrant)
  <1>0. /\ PendingOK /\ Proposed /\ confirm \in ConfirmRecs /\ (grant # NoGrant => grant' # NoGrant)
        /\ pending \subseteq Proposals(Guests)
        /\ \A h \in Guests : h # g => guest'[h] = guest[h]
    BY DEF GuestsInv, GuestsTypeOK, OnlyGuest, PendingOK, Grown
  <1>1. \A p \in pending : p.id # g /\ Offered(p)'
    <2> TAKE p \in pending
    <2>1. p \in Proposals(Guests) /\ Offered(p) /\ p.id \in Guests /\ p.id # g
      BY <1>0 DEF Proposed, Offered
    <2> QED BY <1>0, <2>1, OfferedKept
  <1>2. confirm'.step = "taken" => Offered(confirm.p)' /\ confirm.p.id # g
    <2> SUFFICES ASSUME confirm.step = "taken" PROVE Offered(confirm.p)' /\ confirm.p.id # g
      OBVIOUS
    <2>1. ASSUME NEW p, p = confirm.p PROVE Offered(p)' /\ p.id # g
      <3>1. p \in Proposals(Guests \cup {"none"})
        BY <1>0, <2>1 DEF ConfirmRecs
      <3>2. Offered(p) /\ p.id \in Guests /\ p.id # g
        BY <1>0, <2>1 DEF Proposed, Offered
      <3> QED BY <1>0, <3>1, <3>2, OfferedKept
    <2> QED BY <2>1 DEF Offered, Past, Overtaken, Executed
  <1>3. \A x \in Guests : Executed(x)' => x # g /\ guest'[x].step = "gone"
    BY <1>0 DEF Proposed, Executed
  <1>4. CASE pending' \subseteq pending
    <2>1. IsFiniteSet(pending') /\ Cardinality(pending') <= Cardinality(pending)
      BY <1>0, <1>4, FS_Subset DEF PendingOK
    <2>2. PendingOK'
      <3>1. Cardinality(pending) \in Nat /\ Cardinality(pending') \in Nat /\ MaxPending \in Nat
        BY <1>0, <2>1, FS_CardinalityType, LimitAssumption DEF PendingOK
      <3> QED BY <1>0, <1>4, <2>1, <3>1 DEF PendingOK
    <2>3. Proposed'
      BY <1>0, <1>1, <1>2, <1>3, <1>4 DEF Proposed
    <2>4. (pending' # {} \/ confirm'.step = "taken") => grant' # NoGrant
      BY <1>0, <1>4 DEF GuestsInv, Counted
    <2> QED BY <2>2, <2>3, <2>4
  <1>5. ASSUME guest'[g].step = "gone", grant' # NoGrant, ~guest[g].old, guest'[g].b = guest[g].b, guest'[g].g = guest[g].g,
               NEW ps \in SUBSET pending, Cardinality(ps) < MaxPending,
               NEW p, p = Proposal(g), pending' = ps \cup {p}
        PROVE  PendingOK' /\ Proposed'
    <2>1. p \in Proposals(Guests) /\ p.id = g /\ Offered(p)'
      BY <1>5, ProposalOffered
    <2>2. IsFiniteSet(ps) /\ Cardinality(ps) \in Nat /\ MaxPending \in Nat
      BY <1>0, FS_Subset, FS_CardinalityType, LimitAssumption DEF PendingOK
    <2>3. IsFiniteSet(pending') /\ Cardinality(pending') <= MaxPending
      <3>1. p \notin ps
        BY <1>1, <2>1
      <3>2. IsFiniteSet(ps \cup {p}) /\ Cardinality(ps \cup {p}) = Cardinality(ps) + 1
        BY <2>2, <3>1, FS_AddElement
      <3> QED BY <1>5, <2>2, <3>2
    <2>4. PendingOK'
      BY <1>0, <1>5, <2>1, <2>3 DEF PendingOK
    <2>5. \A q \in pending' : Offered(q)' /\ (q = p \/ (q \in pending /\ q.id # g))
      BY <1>1, <1>5, <2>1
    <2>6. \A q, r \in pending' : q.id = r.id => q = r
      BY <1>0, <2>1, <2>5 DEF Proposed
    <2>7. confirm'.step = "taken" => \A q \in pending' : q.id # confirm'.p.id
      BY <1>0, <1>2, <2>1, <2>5 DEF Proposed
    <2>8. Proposed'
      BY <1>2, <1>3, <2>5, <2>6, <2>7 DEF Proposed
    <2> QED BY <2>4, <2>8
  <1> QED BY <1>4, <1>5 DEF PendingMove

LEMMA GuestStep ==
  ASSUME GuestsInv, NEW g \in Guests, OnlyGuest(g), guest[g].step # "gone", UNCHANGED guestRest, Grown,
         GateMove(g), SlotMove(g), PendingMove(g), Tracked(g)', stale' = FALSE
  PROVE  GuestsInv'
  <1>0. UNCHANGED <<computeEpoch, catalog, life, accountSession, setting, confirm, executed, published>>
    BY DEF guestRest
  <1>1. opGate' \in Gates /\ Turns'
    BY <1>0, GateTurns
  <1>2. slot' \in Guests \cup {"none"} /\ Seats'
    BY SlotSeats
  <1>3. PendingOK' /\ Proposed' /\ ((pending' # {} \/ confirm'.step = "taken") => grant' # NoGrant)
    BY <1>0, ProposalsKept
  <1>4. \A h \in Guests : Tracked(h)'
    <2> TAKE h \in Guests
    <2>1. CASE h = g
      BY <2>1
    <2>2. CASE h # g
      BY <1>0, <2>2, TrackedKept DEF OnlyGuest
    <2> QED BY <2>1, <2>2
  <1>5. GuestsTypeOK'
    BY <1>0, <1>1, <1>2, <1>3 DEF GuestsInv, GuestsTypeOK, OnlyGuest, Grown
  <1>6. Counted'
    BY <1>0, <1>3 DEF GuestsInv, Counted, Grown
  <1>7. NothingStale' /\ ExecutedOnce'
    BY <1>0 DEF GuestsInv, NothingStale, ExecutedOnce
  <1> QED BY <1>1, <1>2, <1>3, <1>4, <1>5, <1>6, <1>7 DEF GuestsInv

-----------------------------------------------------------------------------
\* A guest moves on with the binding and the grant it has.
Same(g) ==
  /\ guest'[g].b = guest[g].b /\ guest'[g].g = guest[g].g /\ guest'[g].kind = guest[g].kind
  /\ guest'[g].old = guest[g].old /\ guest'[g].seen = guest[g].seen

LEMMA StepTo ==
  ASSUME GuestsTypeOK, NEW g \in Guests, NEW s \in GuestSteps, guest' = [guest EXCEPT ![g].step = s]
  PROVE  /\ OnlyGuest(g) /\ guest'[g].step = s /\ Same(g)
         /\ guest'[g].cancel = guest[g].cancel /\ guest'[g].told = guest[g].told
  <1> DEFINE e == [guest[g] EXCEPT !.step = s]
  <1>1. e \in GuestRecs /\ e.step = s
    BY GuestTypes DEF GuestRecs
  <1>2. /\ e.b = guest[g].b /\ e.g = guest[g].g /\ e.kind = guest[g].kind /\ e.old = guest[g].old
        /\ e.seen = guest[g].seen /\ e.cancel = guest[g].cancel /\ e.told = guest[g].told
    BY GuestTypes DEF GuestRecs
  <1>3. guest' = [guest EXCEPT ![g] = e]
    OBVIOUS
  <1> HIDE DEF e
  <1>4. OnlyGuest(g) /\ guest'[g] = e
    BY <1>1, <1>3, Written
  <1> QED BY <1>1, <1>2, <1>4 DEF Same

LEMMA StepToTold ==
  ASSUME GuestsTypeOK, NEW g \in Guests, NEW s \in GuestSteps,
         guest' = [guest EXCEPT ![g] = [guest[g] EXCEPT !.step = s, !.cancel = TRUE, !.told = TRUE]]
  PROVE  /\ OnlyGuest(g) /\ guest'[g].step = s /\ Same(g)
         /\ guest'[g].cancel = TRUE /\ guest'[g].told = TRUE
  <1> DEFINE e == [guest[g] EXCEPT !.step = s, !.cancel = TRUE, !.told = TRUE]
  <1>1. e \in GuestRecs /\ e.step = s /\ e.cancel = TRUE /\ e.told = TRUE
    BY GuestTypes DEF GuestRecs
  <1>2. /\ e.b = guest[g].b /\ e.g = guest[g].g /\ e.kind = guest[g].kind /\ e.old = guest[g].old
        /\ e.seen = guest[g].seen
    BY GuestTypes DEF GuestRecs
  <1>3. guest' = [guest EXCEPT ![g] = e]
    OBVIOUS
  <1> HIDE DEF e
  <1>4. OnlyGuest(g) /\ guest'[g] = e
    BY <1>1, <1>3, Written
  <1> QED BY <1>1, <1>2, <1>4 DEF Same

\* It stays tracked when its steps come in order and only compute that is still
\* current starts to run.
LEMMA TrackedMoves ==
  ASSUME GuestsInv, NEW g \in Guests, Grown, UNCHANGED <<computeEpoch, accountSession, life, published>>, Same(g),
         guest'[g].step \notin Before \cup {"captured"},
         guest'[g].step = "leased" => guest[g].step = "captured",
         guest'[g].step \in {"leased", "running", "done"} => guest[g].step \in {"captured", "leased", "running", "done"},
         guest'[g].step \in Holding => guest[g].step \in {"captured"} \cup Holding,
         guest'[g].cancel /\ ~guest'[g].told => guest[g].cancel /\ ~guest[g].told,
         guest[g].cancel => guest'[g].cancel,
         Running(g)' => Running(g) \/ (guest[g].step = "leased" /\ (guest[g].kind = "compute" => guest[g].b.epoch = computeEpoch))
  PROVE  Tracked(g)'
  <1>1. Tracked(g)
    BY DEF GuestsInv
  <1>2. guest[g].g.intent \in Nat /\ grant.intent \in Nat /\ grant'.intent \in Nat /\ grant.intent <= grant'.intent
    BY GuestTypes, GrantNumbers DEF Grown, Grants, GuestsInv
  <1>3. grant # NoGrant => grant' # NoGrant
    BY DEF Grown
  <1>4. Overtaken(guest[g].b, guest[g].g.intent) => Overtaken(guest[g].b, guest[g].g.intent)'
    BY <1>2 DEF Overtaken, Same
  <1>5. Past(guest[g].b)' /\ guest'[g].g.intent <= grant'.intent
    <2>1. Past(guest[g].b) /\ guest[g].g.intent <= grant.intent
      BY <1>1 DEF Tracked
    <2>2. Past(guest[g].b)'
      BY <2>1 DEF Past, Same
    <2>3. guest'[g].g.intent <= grant'.intent
      BY <1>2, <2>1 DEF Same
    <2> QED BY <2>2, <2>3
  <1>6. /\ guest[g].seen \in Nat /\ published \in Nat /\ guest[g].b.epoch \in Nat /\ computeEpoch \in Nat
    BY GuestTypes, NumberFacts DEF GuestsInv
  <1>7. /\ guest'[g].seen <= published'
        /\ guest'[g].step \in {"captured", "leased"} => guest'[g].seen = published'
    BY <1>1 DEF Same, Tracked
  <1>8. guest'[g].step \in Holding /\ guest'[g].cancel /\ ~guest'[g].told => life' # "idle" \/ published' > guest'[g].seen
    BY <1>1 DEF Same, Tracked
  <1>9. guest'[g].kind = "compute" /\ life' \in {"invalidate", "wait"} /\ guest'[g].step \in Holding
           => guest'[g].b.epoch < computeEpoch'
    BY <1>1 DEF Same, Tracked
  <1>10. guest'[g].kind = "compute" /\ life' = "wait" /\ Running(g)' => guest'[g].cancel
    <2>1. guest[g].kind = "compute" /\ life = "wait" /\ guest[g].step = "leased" => guest[g].b.epoch < computeEpoch
      BY <1>1 DEF Tracked, Holding
    <2>2. guest[g].kind = "compute" /\ life = "wait" /\ Running(g) => guest[g].cancel
      BY <1>1 DEF Tracked
    <2> QED BY <1>6, <2>1, <2>2 DEF Same
  <1>11. guest'[g].kind = "compute" /\ Running(g)' /\ published' > guest'[g].seen
            => guest'[g].cancel /\ guest'[g].b.epoch < computeEpoch'
    <2>1. guest[g].step = "leased" => guest[g].seen = published
      BY <1>1 DEF Tracked
    <2>2. guest[g].kind = "compute" /\ Running(g) /\ published > guest[g].seen
             => guest[g].cancel /\ guest[g].b.epoch < computeEpoch
      BY <1>1 DEF Tracked
    <2> QED BY <1>6, <2>1, <2>2 DEF Same
  <1>12. guest'[g].old /\ guest'[g].kind = "compute" => guest'[g].b.epoch < computeEpoch'
    BY <1>1 DEF Same, Tracked
  <1>13. guest'[g].old => Overtaken(guest[g].b, guest[g].g.intent)'
    BY <1>1, <1>4 DEF Same, Tracked
  <1>14. guest'[g].kind = "workflow" /\ guest'[g].step \in {"captured", "leased", "running", "done"} => grant' # NoGrant
    BY <1>1, <1>3 DEF Same, Tracked
  <1> QED BY <1>5, <1>7, <1>8, <1>9, <1>10, <1>11, <1>12, <1>13, <1>14 DEF Tracked, Before

\* What does not touch grants, proposals or history.
LEMMA FlowKept ==
  ASSUME GuestsInv, UNCHANGED <<flow, stale>>, NEW g \in Guests
  PROVE  Grown /\ PendingMove(g) /\ stale' = FALSE
  <1>1. UNCHANGED <<serial, grant, pending>> /\ stale' = stale
    BY DEF flow
  <1>2. Grown
    BY <1>1, SameGrown
  <1>3. stale = FALSE
    BY DEF GuestsInv, NothingStale, GuestsTypeOK
  <1> QED BY <1>1, <1>2, <1>3 DEF PendingMove

LEMMA HoldsGate ==
  ASSUME GuestsInv, NEW g \in Guests, guest[g].step \in Admitted
  PROVE  Holds(g)
  BY DEF GuestsInv, Turns, Admitting, Admitted

-----------------------------------------------------------------------------
\* The steps of a guest.
LEMMA ReadEpochInv ==
  ASSUME GuestsInv, NEW g \in Guests, ReadEpoch(g)
  PROVE  GuestsInv'
  <1> DEFINE nb == [guest[g].b EXCEPT !.epoch = computeEpoch]
             e  == [guest[g] EXCEPT !.step = "asked", !.kind = "compute", !.b = nb]
  <1>0. /\ GuestsTypeOK /\ guest[g].step = "idle" /\ Tracked(g) /\ computeEpoch \in Nat
        /\ UNCHANGED <<opGate, slot, flow, stale, guestRest>>
    BY NumberFacts DEF ReadEpoch, GuestsInv
  <1>1. nb \in Bindings /\ nb.epoch = computeEpoch /\ nb.sess = guest[g].b.sess
    BY <1>0, GuestTypes DEF Bindings
  <1>2. guest' = [guest EXCEPT ![g] = e]
    BY DEF ReadEpoch
  <1> HIDE DEF nb
  <1>3. e \in GuestRecs /\ e.step = "asked" /\ e.kind = "compute" /\ e.b = nb
    BY <1>0, <1>1, GuestTypes DEF GuestRecs, GuestSteps
  <1>4. /\ e.g = guest[g].g /\ e.old = guest[g].old /\ e.seen = guest[g].seen
        /\ e.cancel = guest[g].cancel /\ e.told = guest[g].told
    BY <1>0, GuestTypes DEF GuestRecs
  <1> HIDE DEF e
  <1>5. OnlyGuest(g) /\ guest'[g] = e
    BY <1>0, <1>2, <1>3, Written
  <1>6. Grown /\ PendingMove(g) /\ stale' = FALSE
    BY <1>0, FlowKept
  <1>7. Tracked(g)'
    <2>0. UNCHANGED <<computeEpoch, accountSession, life, published, grant>>
      BY <1>0 DEF guestRest, flow
    <2>1. ~guest'[g].old /\ ~guest'[g].cancel /\ guest'[g].seen <= published' /\ guest'[g].step = "asked"
      BY <1>0, <1>3, <1>4, <1>5, <2>0 DEF Tracked, Before
    <2>2. Past(guest[g].b)' /\ guest'[g].g.intent <= grant'.intent
      BY <1>0, <1>1, <1>3, <1>4, <1>5, <2>0 DEF Tracked, Past
    <2> QED BY <2>1, <2>2 DEF Tracked, Running, Holding
  <1>8. GateMove(g) /\ SlotMove(g)
    BY <1>0, <1>3, <1>5 DEF GateMove, SlotMove, Admitted, Holding
  <1> QED BY <1>0, <1>5, <1>6, <1>7, <1>8, GuestStep

LEMMA TryGateInv ==
  ASSUME GuestsInv, NEW g \in Guests, TryGate(g)
  PROVE  GuestsInv'
  <1>0. /\ GuestsTypeOK /\ guest[g].step \in {"idle", "asked"} /\ Tracked(g)
        /\ UNCHANGED <<slot, flow, stale, guestRest>>
    BY DEF TryGate, GuestsInv
  <1>1. Grown /\ PendingMove(g) /\ stale' = FALSE
    BY <1>0, FlowKept
  <1>2. UNCHANGED <<computeEpoch, accountSession, life, published, grant>>
    BY <1>0 DEF guestRest, flow
  <1>3. ASSUME opGate = <<>>, opGate' = <<g>>, NEW k \in {"compute", "workflow"},
               guest[g].step = "idle" => k = "workflow",
               guest' = [guest EXCEPT ![g].step = "locked", ![g].kind = k]
        PROVE  GuestsInv'
    <2> DEFINE e == [guest[g] EXCEPT !.step = "locked", !.kind = k]
    <2>1. guest' = [guest EXCEPT ![g] = e]
      BY <1>3
    <2>2. e \in GuestRecs /\ e.step = "locked" /\ e.kind = k
      BY <1>0, GuestTypes DEF GuestRecs, GuestSteps
    <2>3. /\ e.g = guest[g].g /\ e.old = guest[g].old /\ e.seen = guest[g].seen /\ e.b = guest[g].b
          /\ e.cancel = guest[g].cancel /\ e.told = guest[g].told
      BY <1>0, GuestTypes DEF GuestRecs
    <2> HIDE DEF e
    <2>4. OnlyGuest(g) /\ guest'[g] = e
      BY <1>0, <2>1, <2>2, Written
    <2>5. life \notin {"invalidate", "wait"}
      <3>1. Len(opGate) = 0
        BY <1>3
      <3> QED BY <3>1 DEF GuestsInv, Turns
    <2>6. Tracked(g)'
      <3>1. ~guest'[g].old /\ ~guest'[g].cancel /\ guest'[g].seen <= published' /\ guest'[g].step = "locked"
        BY <1>0, <1>2, <2>2, <2>3, <2>4 DEF Tracked, Before
      <3>2. Past(guest[g].b)' /\ guest'[g].g.intent <= grant'.intent
        BY <1>0, <1>2, <2>3, <2>4 DEF Tracked, Past
      <3> QED BY <1>2, <2>5, <3>1, <3>2 DEF Tracked, Running, Holding
    <2>7. GateMove(g) /\ SlotMove(g)
      BY <1>0, <1>3, <2>2, <2>4 DEF GateMove, SlotMove, Admitted, Holding
    <2> QED BY <1>0, <1>1, <2>4, <2>6, <2>7, GuestStep
  <1>4. CASE opGate # <<>> /\ guest' = [guest EXCEPT ![g].step = "gone"] /\ UNCHANGED opGate
    <2>1. /\ OnlyGuest(g) /\ guest'[g].step = "gone" /\ Same(g)
          /\ guest'[g].cancel = guest[g].cancel /\ guest'[g].told = guest[g].told
      BY <1>0, <1>4, StepTo DEF GuestSteps
    <2>2. Tracked(g)'
      BY <1>1, <1>2, <2>1, TrackedMoves DEF Before, Holding, Running
    <2>3. GateMove(g) /\ SlotMove(g)
      BY <1>0, <1>4, <2>1 DEF GateMove, SlotMove, Admitted, Holding
    <2> QED BY <1>0, <1>1, <2>1, <2>2, <2>3, GuestStep
  <1>5. CASE opGate = <<>>
    <2> DEFINE k == IF guest[g].step = "idle" THEN "workflow" ELSE guest[g].kind
    <2>1. k \in {"compute", "workflow"} /\ (guest[g].step = "idle" => k = "workflow")
      BY <1>0, GuestTypes DEF GuestRecs
    <2>2. opGate' = <<g>> /\ guest' = [guest EXCEPT ![g].step = "locked", ![g].kind = k]
      BY <1>0, <1>5 DEF TryGate, GuestsTypeOK
    <2> HIDE DEF k
    <2> QED BY <1>3, <1>5, <2>1, <2>2
  <1> QED BY <1>4, <1>5 DEF TryGate

LEMMA CaptureComputeInv ==
  ASSUME GuestsInv, NEW g \in Guests, CaptureCompute(g)
  PROVE  GuestsInv'
  <1> DEFINE nb == [guest[g].b EXCEPT !.cat = catalog]
             e  == [guest[g] EXCEPT !.step = "captured", !.b = nb, !.seen = published]
  <1>0. /\ GuestsTypeOK /\ guest[g].step = "locked" /\ guest[g].kind = "compute" /\ Tracked(g)
        /\ catalog \in Nat /\ published \in Nat
        /\ UNCHANGED <<opGate, slot, flow, stale, guestRest>>
    BY NumberFacts DEF CaptureCompute, GuestsInv
  <1>1. nb \in Bindings /\ nb.epoch = guest[g].b.epoch /\ nb.sess = guest[g].b.sess
    BY <1>0, GuestTypes DEF Bindings
  <1>2. guest' = [guest EXCEPT ![g] = e]
    BY DEF CaptureCompute
  <1> HIDE DEF nb
  <1>3. e \in GuestRecs /\ e.step = "captured" /\ e.b = nb /\ e.seen = published
    BY <1>0, <1>1, GuestTypes DEF GuestRecs, GuestSteps
  <1>4. /\ e.g = guest[g].g /\ e.old = guest[g].old /\ e.kind = guest[g].kind
        /\ e.cancel = guest[g].cancel /\ e.told = guest[g].told
    BY <1>0, GuestTypes DEF GuestRecs
  <1> HIDE DEF e
  <1>5. OnlyGuest(g) /\ guest'[g] = e
    BY <1>0, <1>2, <1>3, Written
  <1>6. Grown /\ PendingMove(g) /\ stale' = FALSE
    BY <1>0, FlowKept
  <1>7. Tracked(g)'
    <2>0. UNCHANGED <<computeEpoch, accountSession, life, published, grant>>
      BY <1>0 DEF guestRest, flow
    <2>1. /\ ~guest'[g].old /\ ~guest'[g].cancel /\ guest'[g].seen = published' /\ guest'[g].step = "captured"
          /\ guest'[g].kind = "compute"
      BY <1>0, <1>3, <1>4, <1>5, <2>0 DEF Tracked, Before
    <2>2. Past(guest[g].b)' /\ guest'[g].g.intent <= grant'.intent
      BY <1>0, <1>1, <1>3, <1>4, <1>5, <2>0 DEF Tracked, Past
    <2>3. life' \in {"invalidate", "wait"} => guest'[g].b.epoch < computeEpoch'
      BY <1>0, <1>1, <1>3, <1>5, <2>0 DEF Tracked
    <2> QED BY <1>0, <2>0, <2>1, <2>2, <2>3 DEF Tracked, Running, Holding
  <1>8. GateMove(g) /\ SlotMove(g)
    BY <1>0, <1>3, <1>5 DEF GateMove, SlotMove, Admitted, Holding
  <1> QED BY <1>0, <1>5, <1>6, <1>7, <1>8, GuestStep

LEMMA CaptureWorkflowInv ==
  ASSUME GuestsInv, NEW g \in Guests, CaptureWorkflow(g)
  PROVE  GuestsInv'
  <1>0. /\ GuestsTypeOK /\ guest[g].step = "locked" /\ guest[g].kind = "workflow" /\ Tracked(g) /\ serial < MaxSerial
        /\ UNCHANGED <<slot, stale, guestRest>> /\ published \in Nat /\ stale' = FALSE
    BY NumberFacts DEF CaptureWorkflow, GuestsInv, GuestsTypeOK, NothingStale
  <1>1. PICK f : /\ f = GrantOf(Binding) /\ SetFlow(f)
                 /\ \/ /\ guest' = [guest EXCEPT ![g].step = "captured", ![g].b = Binding, ![g].g = f.grant, ![g].seen = published]
                       /\ UNCHANGED opGate
                    \/ /\ guest' = [guest EXCEPT ![g].step = "gone"]
                       /\ opGate' = Tail(opGate)
    BY DEF CaptureWorkflow
  <1>2. Grown /\ grant' # NoGrant /\ grant' = f.grant
    BY <1>0, <1>1, GrantGrown DEF SetFlow
  <1>3. PendingMove(g)
    BY <1>0, <1>1, GrantFacts DEF SetFlow, PendingMove
  <1>4. UNCHANGED <<computeEpoch, accountSession, life, published>>
    BY <1>0 DEF guestRest
  <1>5. CASE guest' = [guest EXCEPT ![g].step = "captured", ![g].b = Binding, ![g].g = f.grant, ![g].seen = published] /\ UNCHANGED opGate
    <2> DEFINE nb == Binding
               e  == [guest[g] EXCEPT !.step = "captured", !.b = nb, !.g = f.grant, !.seen = published]
    <2>1. nb \in Bindings /\ nb.epoch = computeEpoch /\ nb.sess = accountSession /\ f.grant \in Grants
      BY <1>0, <1>2, NumberFacts DEF Grown
    <2>2. guest' = [guest EXCEPT ![g] = e]
      BY <1>5
    <2> HIDE DEF nb
    <2>3. e \in GuestRecs /\ e.step = "captured" /\ e.b = nb /\ e.g = f.grant /\ e.seen = published
      BY <1>0, <2>1, GuestTypes DEF GuestRecs, GuestSteps
    <2>4. e.old = guest[g].old /\ e.kind = guest[g].kind /\ e.cancel = guest[g].cancel /\ e.told = guest[g].told
      BY <1>0, GuestTypes DEF GuestRecs
    <2> HIDE DEF e
    <2>5. OnlyGuest(g) /\ guest'[g] = e
      BY <1>0, <2>2, <2>3, Written
    <2>6. Tracked(g)'
      <3>1. /\ ~guest'[g].old /\ ~guest'[g].cancel /\ guest'[g].seen = published' /\ guest'[g].step = "captured"
            /\ guest'[g].kind = "workflow"
        BY <1>0, <1>4, <2>3, <2>4, <2>5 DEF Tracked, Before
      <3>2. Past(guest[g].b)'
        BY <1>0, <1>4, <2>1, <2>3, <2>5, NumberFacts DEF Past
      <3>3. guest'[g].g.intent <= grant'.intent
        BY <1>2, <2>3, <2>5 DEF Grown, Grants
      <3> QED BY <1>0, <1>2, <1>4, <3>1, <3>2, <3>3 DEF Tracked, Running, Holding
    <2>7. GateMove(g) /\ SlotMove(g)
      BY <1>0, <1>5, <2>3, <2>5 DEF GateMove, SlotMove, Admitted, Holding
    <2> QED BY <1>0, <1>2, <1>3, <2>5, <2>6, <2>7, GuestStep
  <1>6. CASE guest' = [guest EXCEPT ![g].step = "gone"] /\ opGate' = Tail(opGate)
    <2>1. /\ OnlyGuest(g) /\ guest'[g].step = "gone" /\ Same(g)
          /\ guest'[g].cancel = guest[g].cancel /\ guest'[g].told = guest[g].told
      BY <1>0, <1>6, StepTo DEF GuestSteps
    <2>2. Tracked(g)'
      BY <1>2, <1>4, <2>1, TrackedMoves DEF Before, Holding, Running
    <2>3. GateMove(g) /\ SlotMove(g)
      BY <1>0, <1>6, <2>1, HoldsGate DEF GateMove, SlotMove, Admitted, Holding
    <2> QED BY <1>0, <1>2, <1>3, <2>1, <2>2, <2>3, GuestStep
  <1> QED BY <1>1, <1>5, <1>6

\* A guest that moves on without touching grants.
LEMMA MovesOn ==
  ASSUME GuestsInv, NEW g \in Guests, NEW s \in GuestSteps \ (Before \cup {"captured"}), guest[g].step # "gone",
         guest' = [guest EXCEPT ![g].step = s],
         UNCHANGED <<flow, stale, guestRest>>,
         s = "leased" => guest[g].step = "captured",
         s \in {"leased", "running", "done"} => guest[g].step \in {"captured", "leased", "running", "done"},
         s \in Holding => guest[g].step \in {"captured"} \cup Holding,
         s \in {"running", "orphan"} => Running(g) \/ (guest[g].step = "leased" /\ (guest[g].kind = "compute" => guest[g].b.epoch = computeEpoch)),
         \/ opGate' = opGate /\ (s \in Admitted <=> guest[g].step \in Admitted)
         \/ guest[g].step \in Admitted /\ opGate' = Tail(opGate) /\ s \notin Admitted,
         \/ slot' = slot /\ (s \in Holding <=> guest[g].step \in Holding)
         \/ slot = "none" /\ slot' = g /\ s \in Holding
         \/ slot' = Released(g) /\ s \notin Holding
  PROVE  GuestsInv'
  <1>0. s \in GuestSteps /\ GuestsTypeOK
    BY DEF GuestsInv
  <1>1. Grown /\ PendingMove(g) /\ stale' = FALSE
    BY FlowKept
  <1>2. UNCHANGED <<computeEpoch, accountSession, life, published>>
    BY DEF guestRest
  <1>3. /\ OnlyGuest(g) /\ guest'[g].step = s /\ Same(g)
        /\ guest'[g].cancel = guest[g].cancel /\ guest'[g].told = guest[g].told
    BY <1>0, StepTo
  <1>4. Running(g)' <=> s \in {"running", "orphan"}
    BY <1>3 DEF Running
  <1>5. Tracked(g)'
    BY <1>1, <1>2, <1>3, <1>4, TrackedMoves
  <1>6. GateMove(g)
    BY <1>3, HoldsGate DEF GateMove
  <1>7. SlotMove(g)
    BY <1>3 DEF SlotMove
  <1> QED BY <1>1, <1>3, <1>5, <1>6, <1>7, GuestStep

LEMMA LeaseInv ==
  ASSUME GuestsInv, NEW g \in Guests, Lease(g)
  PROVE  GuestsInv'
  <1>0. guest[g].step = "captured" /\ UNCHANGED <<flow, stale, guestRest>>
    BY DEF Lease
  <1>1. CASE slot = "none" /\ slot' = g /\ guest' = [guest EXCEPT ![g].step = "leased"] /\ UNCHANGED opGate
    BY <1>0, <1>1, MovesOn DEF GuestSteps, Before, Holding, Admitted
  <1>2. CASE guest' = [guest EXCEPT ![g].step = "gone"] /\ opGate' = Tail(opGate) /\ UNCHANGED slot
    BY <1>0, <1>2, MovesOn DEF GuestSteps, Before, Holding, Admitted
  <1> QED BY <1>1, <1>2 DEF Lease, Acquire

LEMMA LaunchInv ==
  ASSUME GuestsInv, NEW g \in Guests, NEW whole, Launch(g) \/ Snapshot(g, whole)
  PROVE  GuestsInv'
  <1>0. guest[g].step = "leased" /\ opGate' = Tail(opGate) /\ UNCHANGED <<flow, stale, guestRest>>
    BY DEF Launch, Snapshot
  <1>1. CASE /\ guest' = [guest EXCEPT ![g].step = "running"] /\ slot' = slot
             /\ guest[g].kind = "compute" => guest[g].b.epoch = computeEpoch
    BY <1>0, <1>1, MovesOn DEF GuestSteps, Before, Holding, Admitted
  <1>2. CASE guest' = [guest EXCEPT ![g].step = "gone"] /\ slot' = Released(g)
    BY <1>0, <1>2, MovesOn DEF GuestSteps, Before, Holding, Admitted
  <1>3. CASE Launch(g)
    BY <1>1, <1>2, <1>3 DEF Launch, Launched, Refused
  <1>4. CASE Snapshot(g, whole)
    BY <1>1, <1>2, <1>4 DEF Snapshot, Launched, Refused
  <1> QED BY <1>3, <1>4

LEMMA WorkerEndsInv ==
  ASSUME GuestsInv, NEW g \in Guests, NEW ok, WorkerEnds(g, ok)
  PROVE  GuestsInv'
  <1>0. /\ guest[g].step \in {"running", "orphan"} /\ slot' = Released(g)
        /\ UNCHANGED <<opGate, flow, stale, guestRest>>
    BY DEF WorkerEnds, Running
  <1>1. CASE ok /\ guest[g].step = "running"
    <2>1. guest' = [guest EXCEPT ![g].step = "done"]
      BY <1>1 DEF WorkerEnds
    <2> QED BY <1>0, <1>1, <2>1, MovesOn DEF GuestSteps, Before, Holding, Admitted
  <1>2. CASE ~(ok /\ guest[g].step = "running")
    <2>1. guest' = [guest EXCEPT ![g].step = "gone"]
      BY <1>2 DEF WorkerEnds
    <2> QED BY <1>0, <2>1, MovesOn DEF GuestSteps, Before, Holding, Admitted
  <1> QED BY <1>1, <1>2

LEMMA NotDeliveredInv ==
  ASSUME GuestsInv, NEW g \in Guests, NotDelivered(g)
  PROVE  GuestsInv'
  <1>0. /\ guest[g].step = "done" /\ guest' = [guest EXCEPT ![g].step = "gone"]
        /\ UNCHANGED <<opGate, slot, flow, stale, guestRest>>
    BY DEF NotDelivered, EndsGuest
  <1> QED BY <1>0, MovesOn DEF GuestSteps, Before, Holding, Admitted

\* A result whose guest was marked old has an epoch of the past.
LEMMA DeliverComputeInv ==
  ASSUME GuestsInv, NEW g \in Guests, DeliverCompute(g)
  PROVE  GuestsInv'
  <1>0. /\ guest[g].step = "done" /\ guest' = [guest EXCEPT ![g].step = "gone"]
        /\ UNCHANGED <<opGate, slot, flow, guestRest>>
    BY DEF DeliverCompute, EndsGuest
  <1>1. ~(Usable(g) /\ guest[g].old)
    <2>1. guest[g].old => guest[g].b.epoch < computeEpoch
      BY DEF GuestsInv, Tracked, DeliverCompute
    <2>2. guest[g].b.epoch \in Nat /\ computeEpoch \in Nat
      BY GuestTypes, NumberFacts DEF GuestsInv
    <2> QED BY <2>1, <2>2 DEF Usable
  <1>2. stale \in BOOLEAN /\ ~stale /\ stale' = (stale \/ (opGate = <<>> /\ Usable(g) /\ guest[g].old))
    BY DEF DeliverCompute, GuestsInv, GuestsTypeOK, NothingStale
  <1>3. stale' = stale
    BY <1>1, <1>2
  <1> QED BY <1>0, <1>3, MovesOn DEF GuestSteps, Before, Holding, Admitted

LEMMA CancelComputeInv ==
  ASSUME GuestsInv, NEW g \in Guests, CancelCompute(g)
  PROVE  GuestsInv'
  <1>0. /\ GuestsTypeOK /\ slot = g /\ guest[g].step \in Holding
        /\ UNCHANGED <<opGate, slot, flow, stale, guestRest>>
    BY DEF CancelCompute, GuestsInv, Seats
  <1>1. guest[g].step \in GuestSteps
    BY <1>0, GuestTypes DEF GuestRecs
  <1>2. guest' = [guest EXCEPT ![g] = [guest[g] EXCEPT !.step = guest[g].step, !.cancel = TRUE, !.told = TRUE]]
    <2>1. guest[g] \in GuestRecs /\ guest \in [Guests -> GuestRecs]
      BY <1>0, GuestTypes DEF GuestsTypeOK
    <2>2. [guest[g] EXCEPT !.cancel = TRUE, !.told = TRUE] = [guest[g] EXCEPT !.step = guest[g].step, !.cancel = TRUE, !.told = TRUE]
      BY <2>1 DEF GuestRecs
    <2>3. guest' = [guest EXCEPT ![g] = [guest[g] EXCEPT !.cancel = TRUE, !.told = TRUE]]
      BY <2>1 DEF CancelCompute, Cancelled
    <2> QED BY <2>2, <2>3
  <1>3. /\ OnlyGuest(g) /\ guest'[g].step = guest[g].step /\ Same(g)
        /\ guest'[g].cancel = TRUE /\ guest'[g].told = TRUE
    BY <1>0, <1>1, <1>2, StepToTold
  <1>4. Grown /\ PendingMove(g) /\ stale' = FALSE
    BY <1>0, FlowKept
  <1>5. UNCHANGED <<computeEpoch, accountSession, life, published>>
    BY <1>0 DEF guestRest
  <1>6. Tracked(g)'
    <2>1. guest'[g].step \notin Before \cup {"captured"} /\ guest[g].step \in {"leased", "running", "orphan"}
      BY <1>0, <1>3 DEF Before, Holding
    <2>2. CASE guest[g].step = "leased"
      <3>1. Tracked(g) /\ Past(guest[g].b)' /\ guest'[g].g.intent <= grant'.intent
        BY <1>0, <1>3, <1>5 DEF GuestsInv, Tracked, Same, Past, flow
      <3>2. UNCHANGED <<grant>>
        BY <1>0 DEF flow
      <3>3. guest'[g].old => Overtaken(guest[g].b, guest[g].g.intent)'
        BY <1>3, <1>5, <3>1, <3>2 DEF Same, Tracked, Overtaken
      <3> QED BY <1>3, <1>5, <2>1, <2>2, <3>1, <3>2, <3>3 DEF Same, Tracked, Running, Before, Holding
    <2>3. CASE guest[g].step # "leased"
      <3>1. Running(g) /\ guest'[g].step \in {"running", "orphan"}
        BY <1>3, <2>1, <2>3 DEF Running
      <3> QED BY <1>0, <1>3, <1>4, <1>5, <2>1, <2>3, <3>1, TrackedMoves DEF Holding
    <2> QED BY <2>2, <2>3
  <1>7. GateMove(g) /\ SlotMove(g)
    BY <1>0, <1>3 DEF GateMove, SlotMove
  <1> QED BY <1>0, <1>3, <1>4, <1>6, <1>7, GuestStep DEF Holding

LEMMA AbandonInv ==
  ASSUME GuestsInv, NEW g \in Guests, Abandon(g)
  PROVE  GuestsInv'
  <1> DEFINE s == IF guest[g].step = "running" THEN "orphan" ELSE "gone"
  <1>0. /\ GuestsTypeOK /\ guest[g].step \notin {"idle", "orphan", "gone"}
        /\ UNCHANGED <<flow, stale, guestRest>>
    BY DEF Abandon, GuestsInv
  <1>1. s \in {"orphan", "gone"} /\ (s = "orphan" <=> guest[g].step = "running")
    OBVIOUS
  <1>2. guest' = [guest EXCEPT ![g] = [guest[g] EXCEPT !.step = s, !.cancel = TRUE, !.told = TRUE]]
    BY <1>0 DEF Abandon, GuestsTypeOK
  <1> HIDE DEF s
  <1>3. /\ OnlyGuest(g) /\ guest'[g].step = s /\ Same(g)
        /\ guest'[g].cancel = TRUE /\ guest'[g].told = TRUE
    BY <1>0, <1>1, <1>2, StepToTold DEF GuestSteps
  <1>4. Grown /\ PendingMove(g) /\ stale' = FALSE
    BY <1>0, FlowKept
  <1>5. UNCHANGED <<computeEpoch, accountSession, life, published>>
    BY <1>0 DEF guestRest
  <1>6. Tracked(g)'
    BY <1>1, <1>3, <1>4, <1>5, TrackedMoves DEF Before, Holding, Running
  <1>7. GateMove(g)
    BY <1>1, <1>3, HoldsGate DEF GateMove, Abandon, Admitting, Admitted
  <1>8. SlotMove(g)
    BY <1>1, <1>3 DEF SlotMove, Abandon, AbandonedSlot, Holding
  <1> QED BY <1>0, <1>3, <1>4, <1>6, <1>7, <1>8, GuestStep

\* A proposal is made only of a result that nothing has overtaken.
LEMMA DeliverWorkflowInv ==
  ASSUME GuestsInv, NEW g \in Guests, NEW trades, DeliverWorkflow(g, trades)
  PROVE  GuestsInv'
  <1>0. /\ GuestsTypeOK /\ guest[g].step = "done" /\ serial < MaxSerial /\ Tracked(g)
        /\ guest' = [guest EXCEPT ![g].step = "gone"] /\ stale \in BOOLEAN /\ ~stale
        /\ UNCHANGED <<opGate, slot, guestRest>>
    BY DEF DeliverWorkflow, EndsGuest, GuestsInv, GuestsTypeOK, NothingStale
  <1>1. PICK f :
         /\ f = GrantOf(Binding)
         /\ \/ /\ guest[g].b = Binding /\ SameGrant(guest[g].g, f.grant)
               /\ stale' = (stale \/ guest[g].old)
               /\ trades => Cardinality(f.pending) < MaxPending
               /\ SetFlow([f EXCEPT !.pending = IF ~trades THEN @ ELSE @ \cup {Proposal(g)}])
            \/ SetFlow(f) /\ UNCHANGED stale
    BY DEF DeliverWorkflow
  <1>2. /\ f.pending \subseteq pending /\ grant.intent <= f.grant.intent /\ f.grant \in Grants
        /\ f = [serial |-> f.serial, grant |-> f.grant, pending |-> f.pending]
    BY <1>0, <1>1, GrantFacts
  <1>3. serial' = f.serial /\ grant' = f.grant
    <2>1. ASSUME NEW x PROVE [f EXCEPT !.pending = x].serial = f.serial /\ [f EXCEPT !.pending = x].grant = f.grant
      BY <1>2
    <2> QED BY <1>1, <2>1 DEF SetFlow
  <1>4. Grown /\ grant' # NoGrant
    BY <1>0, <1>1, <1>3, GrantGrown
  <1>5. /\ OnlyGuest(g) /\ guest'[g].step = "gone" /\ Same(g)
        /\ guest'[g].cancel = guest[g].cancel /\ guest'[g].told = guest[g].told
    BY <1>0, StepTo DEF GuestSteps
  <1>6. Tracked(g)'
    BY <1>0, <1>4, <1>5, TrackedMoves DEF Before, Holding, Running, guestRest
  <1>7. GateMove(g) /\ SlotMove(g)
    BY <1>0, <1>5 DEF GateMove, SlotMove, Admitted, Holding
  <1>8. guest[g].b = Binding /\ SameGrant(guest[g].g, f.grant) => ~guest[g].old
    <2>1. guest[g].old => Overtaken(guest[g].b, guest[g].g.intent)
      BY <1>0 DEF Tracked
    <2>2. /\ guest[g].g.intent \in Nat /\ grant.intent \in Nat /\ f.grant.intent \in Nat
          /\ computeEpoch \in Nat /\ accountSession \in Nat
          /\ Binding.epoch = computeEpoch /\ Binding.sess = accountSession
      BY <1>0, <1>2, GuestTypes, GrantNumbers, NumberFacts DEF Grants
    <2> QED BY <1>2, <2>1, <2>2 DEF Overtaken, SameGrant
  <1>9. stale' = FALSE
    BY <1>0, <1>1, <1>8
  <1>10. PendingMove(g)
    <2>1. CASE SetFlow(f)
      BY <1>2, <2>1 DEF SetFlow, PendingMove
    <2>2. CASE SetFlow([f EXCEPT !.pending = IF ~trades THEN @ ELSE @ \cup {Proposal(g)}]) /\ ~trades
      <3>1. [f EXCEPT !.pending = f.pending].pending = f.pending
        BY <1>2
      <3> QED BY <1>2, <2>2, <3>1 DEF SetFlow, PendingMove
    <2>3. CASE /\ SetFlow([f EXCEPT !.pending = IF ~trades THEN @ ELSE @ \cup {Proposal(g)}]) /\ trades
               /\ Cardinality(f.pending) < MaxPending
               /\ guest[g].b = Binding /\ SameGrant(guest[g].g, f.grant)
      <3>1. ASSUME NEW x PROVE [f EXCEPT !.pending = x].pending = x
        BY <1>2
      <3>2. pending' = f.pending \cup {Proposal(g)}
        BY <2>3, <3>1 DEF SetFlow
      <3> QED BY <1>2, <1>4, <1>5, <1>8, <2>3, <3>2 DEF PendingMove, Same
    <2> QED BY <1>1, <2>1, <2>2, <2>3
  <1> QED BY <1>0, <1>4, <1>5, <1>6, <1>7, <1>9, <1>10, GuestStep

-----------------------------------------------------------------------------
\* The gate when the guests stand still.
LEMMA AppendTurns ==
  ASSUME GuestsInv, NEW x \in {"grants", "life"}, opGate' = Append(opGate, x), UNCHANGED <<guest, confirm>>,
         life' \in {"bump", "invalidate", "wait"} => life' = life \/ x = "life"
  PROVE  opGate' \in Gates /\ Turns'
  <1>0. opGate \in Gates /\ Turns /\ x \notin Guests /\ x # "confirm"
    BY GuestAssumption DEF GuestsInv, GuestsTypeOK
  <1>1. /\ opGate' \in Gates /\ opGate' # <<>> /\ Head(opGate') = IF opGate = <<>> THEN x ELSE Head(opGate)
        /\ \A i \in 2..Len(opGate') : opGate'[i] \in {"grants", "life"}
        /\ HasLife(opGate) \/ x = "life" => HasLife(opGate')
    BY <1>0, Appended DEF Turns
  <1>2. \A h \in Guests \cup {"confirm"} : Holds(h)' <=> Holds(h)
    BY <1>0, <1>1 DEF Holds
  <1>3. life' \in {"bump", "invalidate", "wait"} => HasLife(opGate')
    BY <1>0, <1>1 DEF Turns, HasLife
  <1>4. \A h \in Guests : Admitting(h)' <=> Admitting(h)
    BY DEF Admitting
  <1> QED BY <1>0, <1>1, <1>2, <1>3, <1>4 DEF Turns, HasLife

LEMMA PopTurns ==
  ASSUME GuestsInv, NEW who \in {"grants", "life", "confirm"}, Holds(who), opGate' = Tail(opGate), UNCHANGED guest,
         confirm'.step = "idle", IF who = "life" THEN life' = "idle" ELSE life' = life
  PROVE  opGate' \in Gates /\ Turns'
  <1>0. Turns /\ who \notin Guests
    BY GuestAssumption DEF GuestsInv
  <1>1. /\ opGate' \in Gates /\ Behind(opGate')
        /\ who # "life" /\ HasLife(opGate) => HasLife(opGate')
    BY Popped
  <1>2. /\ \A i \in 2..Len(opGate') : opGate'[i] \in {"grants", "life"}
        /\ opGate' # <<>> => Head(opGate') \notin Guests /\ Head(opGate') # "confirm"
    BY <1>1, BehindFacts
  <1>3. \A h \in Guests : ~Admitting(h)'
    BY <1>0 DEF Turns, Holds, Admitting
  <1>4. \A h \in Guests \cup {"confirm"} : ~Holds(h)'
    BY <1>2 DEF Holds
  <1>5. life' \in {"bump", "invalidate", "wait"} => HasLife(opGate')
    BY <1>0, <1>1 DEF Turns, HasLife
  <1> QED BY <1>1, <1>2, <1>3, <1>4, <1>5 DEF Turns, HasLife

LEMMA SameTurns ==
  ASSUME GuestsInv, UNCHANGED opGate, \A h \in Guests : guest'[h].step = guest[h].step,
         confirm'.step # "idle" <=> confirm.step # "idle",
         life' \in {"bump", "invalidate", "wait"} => life \in {"bump", "invalidate", "wait"}
  PROVE  opGate' \in Gates /\ Turns' /\ (UNCHANGED slot => Seats')
  <1>0. Turns /\ opGate \in Gates /\ Seats
    BY DEF GuestsInv, GuestsTypeOK
  <1>1. \A h : Holds(h)' <=> Holds(h)
    BY DEF Holds
  <1>2. \A h \in Guests : Admitting(h)' <=> Admitting(h)
    BY DEF Admitting
  <1>3. Turns'
    BY <1>0, <1>1, <1>2 DEF Turns
  <1>4. UNCHANGED slot => Seats'
    BY <1>0 DEF Seats
  <1> QED BY <1>0, <1>3, <1>4

LEMMA Shrunk ==
  ASSUME GuestsInv, pending' \subseteq pending
  PROVE  PendingOK'
  <1>0. PendingOK
    BY DEF GuestsInv, GuestsTypeOK
  <1>1. IsFiniteSet(pending') /\ Cardinality(pending') <= Cardinality(pending)
    BY <1>0, FS_Subset DEF PendingOK
  <1>2. Cardinality(pending) \in Nat /\ Cardinality(pending') \in Nat /\ MaxPending \in Nat
    BY <1>0, <1>1, FS_CardinalityType, LimitAssumption DEF PendingOK
  <1> QED BY <1>0, <1>1, <1>2 DEF PendingOK

\* Grants grow, proposals are dropped, and no guest moves.
LEMMA FlowStep ==
  ASSUME GuestsInv, Grown, pending' \subseteq pending, opGate' \in Gates, Turns', setting' \in SettingRecs, confirm' \in ConfirmRecs,
         confirm' = confirm \/ confirm'.step # "taken",
         UNCHANGED <<computeEpoch, catalog, slot, guest, life, accountSession, executed, published, stale>>
  PROVE  GuestsInv'
  <1>0. /\ PendingOK /\ Proposed /\ confirm \in ConfirmRecs /\ (grant # NoGrant => grant' # NoGrant)
        /\ pending \subseteq Proposals(Guests) /\ Seats
    BY DEF GuestsInv, GuestsTypeOK, PendingOK, Grown
  <1>1. \A p \in pending : Offered(p)'
    <2> TAKE p \in pending
    <2>1. p \in Proposals(Guests) /\ Offered(p) /\ guest'[p.id] = guest[p.id]
      BY <1>0 DEF Proposed
    <2> QED BY <2>1, OfferedKept
  <1>2. confirm'.step = "taken" => Offered(confirm.p)'
    <2> SUFFICES ASSUME confirm.step = "taken", confirm' = confirm PROVE Offered(confirm.p)'
      OBVIOUS
    <2>1. ASSUME NEW p, p = confirm.p PROVE Offered(p)'
      <3>1. p \in Proposals(Guests \cup {"none"}) /\ Offered(p) /\ guest'[p.id] = guest[p.id]
        BY <1>0, <2>1 DEF ConfirmRecs, Proposed
      <3> QED BY <3>1, OfferedKept
    <2> QED BY <2>1 DEF Offered, Past, Overtaken, Executed
  <1>3. \A x \in Guests : Executed(x)' => guest'[x].step = "gone"
    BY <1>0 DEF Proposed, Executed
  <1>4. Proposed'
    <2>1. \A p \in pending' : Offered(p)'
      BY <1>1
    <2>2. \A p, q \in pending' : p.id = q.id => p = q
      BY <1>0 DEF Proposed
    <2>3. confirm'.step = "taken" => \A p \in pending' : p.id # confirm'.p.id
      BY <1>0 DEF Proposed
    <2> QED BY <1>2, <1>3, <2>1, <2>2, <2>3 DEF Proposed
  <1>5. \A g \in Guests : Tracked(g)'
    BY TrackedKept
  <1>6. Seats'
    BY <1>0 DEF Seats
  <1>7. PendingOK'
    BY Shrunk
  <1>8. GuestsTypeOK'
    BY <1>7 DEF GuestsInv, GuestsTypeOK, Grown
  <1>9. Counted'
    BY <1>0 DEF GuestsInv, Counted, Grown
  <1>10. NothingStale' /\ ExecutedOnce'
    BY DEF GuestsInv, NothingStale, ExecutedOnce
  <1> QED BY <1>4, <1>5, <1>6, <1>8, <1>9, <1>10 DEF GuestsInv

-----------------------------------------------------------------------------
\* Grants and confirmations.
LEMMA GetAccessInv ==
  ASSUME GuestsInv, GetAccess
  PROVE  GuestsInv'
  <1>0. serial < MaxSerial /\ UNCHANGED <<opGate, slot, guest, stale, guestRest>> /\ SetFlow(GrantOf(Binding))
    BY DEF GetAccess
  <1>1. PICK f : f = GrantOf(Binding) /\ SetFlow(f)
    BY <1>0
  <1>2. Grown /\ pending' \subseteq pending
    BY <1>0, <1>1, GrantGrown, GrantFacts DEF SetFlow
  <1>3. opGate' \in Gates /\ Turns'
    BY <1>0, SameTurns DEF guestRest
  <1>4. setting' \in SettingRecs /\ confirm' \in ConfirmRecs
    BY <1>0 DEF GuestsInv, GuestsTypeOK, guestRest
  <1> QED BY <1>0, <1>2, <1>3, <1>4, FlowStep DEF guestRest

LEMMA ReserveGrantsInv ==
  ASSUME GuestsInv, NEW rev \in {0, grant.rev}, NEW caps \in BOOLEAN, ReserveGrants(rev, caps)
  PROVE  GuestsInv'
  <1>0. /\ UNCHANGED <<guest, confirm, computeEpoch, catalog, slot, life, accountSession, executed, published, stale>>
        /\ UNCHANGED <<serial, grant, pending>> /\ opGate' = Append(opGate, "grants")
        /\ setting' = [step |-> "reserved", intent |-> 0, rev |-> rev, caps |-> caps]
    BY DEF ReserveGrants, flow, settingRest
  <1>1. Grown
    BY <1>0, SameGrown
  <1>2. rev \in Nat
    BY GrantNumbers DEF Grants
  <1>3. setting' \in SettingRecs /\ confirm' \in ConfirmRecs
    BY <1>0, <1>2 DEF GuestsInv, GuestsTypeOK, SettingRecs
  <1>4. opGate' \in Gates /\ Turns'
    BY <1>0, AppendTurns
  <1> QED BY <1>0, <1>1, <1>3, <1>4, FlowStep

LEMMA Regranted ==
  ASSUME NEW gr \in Grants, NEW n \in Nat, NEW c \in BOOLEAN
  PROVE  LET r == [gr EXCEPT !.rev = n, !.caps = c] IN r \in Grants /\ r.intent = gr.intent /\ r.rev = n
  BY DEF Grants

LEMMA EnterGrantsInv ==
  ASSUME GuestsInv, EnterGrants
  PROVE  GuestsInv'
  <1>0. /\ Holds("grants") /\ serial + 1 < MaxSerial /\ opGate' = Tail(opGate) /\ setting' = NoSetting
        /\ UNCHANGED <<guest, confirm, computeEpoch, catalog, slot, life, accountSession, executed, published, stale>>
        /\ MaxSerial \in Nat /\ setting.caps \in BOOLEAN
    BY LimitAssumption DEF EnterGrants, settingRest, GuestsInv, GuestsTypeOK, SettingRecs
  <1>1. PICK f : /\ f = GrantOf(Binding)
                 /\ SetFlow(IF f.grant.rev = setting.rev /\ f.grant.intent = setting.intent
                            THEN [serial |-> f.serial + 1, pending |-> f.pending,
                                  grant |-> [f.grant EXCEPT !.rev = f.serial + 1, !.caps = setting.caps]]
                            ELSE f)
    BY DEF EnterGrants
  <1>2. serial < MaxSerial /\ serial \in Nat
    BY <1>0, GrantNumbers
  <1>3. /\ f.serial \in Nat /\ serial <= f.serial /\ f.serial <= serial + 1 /\ f.serial <= MaxSerial
        /\ f.pending \subseteq pending
        /\ f.grant \in Grants /\ f.grant # NoGrant
        /\ grant.intent <= f.grant.intent /\ f.grant.intent <= f.serial
        /\ f = [serial |-> f.serial, grant |-> f.grant, pending |-> f.pending]
    BY <1>1, <1>2, GrantFacts
  <1>4. Grown /\ pending' \subseteq pending
    <2>1. CASE SetFlow(f)
      BY <1>1, <1>2, <1>3, <2>1, GrantGrown DEF SetFlow
    <2>2. CASE SetFlow([serial |-> f.serial + 1, pending |-> f.pending,
                        grant |-> [f.grant EXCEPT !.rev = f.serial + 1, !.caps = setting.caps]])
      <3> DEFINE n == [f.grant EXCEPT !.rev = f.serial + 1, !.caps = setting.caps]
      <3>1. n \in Grants /\ n.intent = f.grant.intent /\ n.rev = f.serial + 1
        <4>1. f.grant \in Grants /\ f.serial + 1 \in Nat /\ setting.caps \in BOOLEAN
          BY <1>0, <1>3
        <4> QED BY <4>1, Regranted
      <3>2. n # NoGrant
        <4>1. f.serial + 1 # 0
          BY <1>3
        <4> QED BY <3>1, <4>1, NoneFacts
      <3>4. serial' = f.serial + 1 /\ grant' = n /\ pending' = f.pending
        BY <2>2 DEF SetFlow
      <3> HIDE DEF n
      <3>5. f.grant.intent \in Nat /\ f.serial + 1 \in 0..MaxSerial
        BY <1>0, <1>2, <1>3 DEF Grants
      <3>6. grant'.intent = f.grant.intent /\ grant' \in Grants /\ grant' # NoGrant
        BY <3>1, <3>2, <3>4
      <3> QED BY <1>3, <3>4, <3>5, <3>6 DEF Grown
    <2> QED BY <1>1, <2>1, <2>2
  <1>5. confirm'.step = "idle"
    <2>1. ~Holds("confirm")
      BY <1>0 DEF Holds
    <2> QED BY <1>0, <2>1 DEF GuestsInv, Turns
  <1>6. opGate' \in Gates /\ Turns'
    BY <1>0, <1>5, PopTurns
  <1>7. setting' \in SettingRecs /\ confirm' \in ConfirmRecs
    BY <1>0, RestFacts DEF GuestsInv, GuestsTypeOK
  <1> QED BY <1>0, <1>4, <1>6, <1>7, FlowStep

LEMMA ReceiptInv ==
  ASSUME GuestsInv, Receipt
  PROVE  GuestsInv'
  <1>0. /\ confirm.step = "sent" /\ opGate' = Tail(opGate) /\ confirm' = NoConfirm
        /\ UNCHANGED <<serial, grant, pending, executed, stale>>
        /\ UNCHANGED <<computeEpoch, catalog, slot, guest, life, accountSession, setting, published>>
    BY DEF Receipt, flow, confirmRest
  <1>1. Grown
    BY <1>0, SameGrown
  <1>2. Holds("confirm")
    BY <1>0 DEF GuestsInv, Turns
  <1>3. opGate' \in Gates /\ Turns'
    BY <1>0, <1>2, PopTurns, RestFacts
  <1>4. setting' \in SettingRecs /\ confirm' \in ConfirmRecs /\ confirm'.step # "taken"
    BY <1>0, RestFacts DEF GuestsInv, GuestsTypeOK
  <1> QED BY <1>0, <1>1, <1>3, <1>4, FlowStep

LEMMA TakeProposalInv ==
  ASSUME GuestsInv, NEW p \in pending, TakeProposal(p)
  PROVE  GuestsInv'
  <1>0. /\ confirm.step = "idle" /\ opGate = <<>> /\ opGate' = <<"confirm">> /\ confirm' = [step |-> "taken", p |-> p]
        /\ pending' = pending \ {p}
        /\ UNCHANGED <<serial, grant, executed, stale>>
        /\ UNCHANGED <<computeEpoch, catalog, slot, guest, life, accountSession, setting, published>>
    BY DEF TakeProposal, confirmRest
  <1>1. /\ Proposed /\ Turns /\ Seats /\ pending \subseteq Proposals(Guests)
    BY DEF GuestsInv, GuestsTypeOK, PendingOK
  <1>2. Grown
    BY <1>0, SameGrown
  <1>3. \A q \in pending : Offered(q)'
    <2> TAKE q \in pending
    <2>1. q \in Proposals(Guests) /\ Offered(q) /\ guest'[q.id] = guest[q.id]
      BY <1>0, <1>1 DEF Proposed
    <2> QED BY <1>0, <1>2, <2>1, OfferedKept
  <1>4. Proposed'
    <2>1. confirm'.step = "taken" /\ confirm'.p = p
      BY <1>0
    <2>2. Offered(confirm.p)'
      BY <1>3, <2>1 DEF Offered, Past, Overtaken, Executed
    <2>3. \A q \in pending' : Offered(q)' /\ q.id # confirm'.p.id
      BY <1>0, <1>1, <1>3, <2>1 DEF Proposed
    <2>4. \A q, r \in pending' : q.id = r.id => q = r
      BY <1>0, <1>1 DEF Proposed
    <2>5. \A x \in Guests : Executed(x)' => guest'[x].step = "gone"
      BY <1>0, <1>1 DEF Proposed, Executed
    <2> QED BY <2>2, <2>3, <2>4, <2>5 DEF Proposed
  <1>5. opGate' \in Gates /\ Turns'
    <2>1. opGate' \in Gates /\ Len(opGate') = 1 /\ Head(opGate') = "confirm" /\ opGate' # <<>> /\ Len(opGate) = 0
      BY <1>0 DEF Gates
    <2>2. \A h \in Guests : ~Admitting(h)' /\ h # "confirm"
      BY <1>0, <1>1, GuestAssumption DEF Turns, Holds, Admitting
    <2>3. life \notin {"bump", "invalidate", "wait"}
      BY <1>1, <2>1 DEF Turns
    <2>4. \A i \in 2..Len(opGate') : opGate'[i] \in {"grants", "life"}
      BY <2>1
    <2>5. confirm'.step = "taken"
      BY <1>0
    <2> QED BY <1>0, <2>1, <2>2, <2>3, <2>4, <2>5 DEF Turns, Holds
  <1>6. \A g \in Guests : Tracked(g)'
    BY <1>0, <1>2, TrackedKept
  <1>7. Seats' /\ PendingOK'
    BY <1>0, <1>1, Shrunk DEF Seats
  <1>8. confirm' \in ConfirmRecs
    <2>1. p \in Proposals(Guests \cup {"none"})
      BY <1>1 DEF Proposals
    <2> QED BY <1>0, <2>1 DEF ConfirmRecs
  <1>9. GuestsTypeOK'
    BY <1>0, <1>2, <1>5, <1>7, <1>8 DEF GuestsInv, GuestsTypeOK, Grown
  <1>10. Counted'
    BY <1>0 DEF GuestsInv, Counted
  <1>11. NothingStale' /\ ExecutedOnce'
    BY <1>0 DEF GuestsInv, NothingStale, ExecutedOnce
  <1> QED BY <1>4, <1>5, <1>6, <1>7, <1>9, <1>10, <1>11 DEF GuestsInv

LEMMA AppendOnce ==
  ASSUME NEW s \in Seq(Guests), NEW x \in Guests, ~\E i \in 1..Len(s) : s[i] = x,
         \A i, j \in 1..Len(s) : s[i] = s[j] => i = j, NEW t, t = Append(s, x)
  PROVE  /\ t \in Seq(Guests) /\ \A i, j \in 1..Len(t) : t[i] = t[j] => i = j
         /\ \A y : (\E i \in 1..Len(t) : t[i] = y) => y = x \/ \E i \in 1..Len(s) : s[i] = y
  <1>1. /\ t \in Seq(Guests) /\ Len(t) = Len(s) + 1 /\ t[Len(s) + 1] = x /\ Len(s) \in Nat
        /\ \A i \in 1..Len(s) : t[i] = s[i]
    BY AppendProperties
  <1>2. \A i \in 1..Len(t) : i \in 1..Len(s) \/ (i = Len(s) + 1 /\ t[i] = x)
    BY <1>1
  <1>3. \A i, j \in 1..Len(t) : t[i] = t[j] => i = j
    BY <1>1, <1>2
  <1>4. \A y : (\E i \in 1..Len(t) : t[i] = y) => y = x \/ \E i \in 1..Len(s) : s[i] = y
    BY <1>1, <1>2
  <1> QED BY <1>1, <1>3, <1>4

\* What is executed was not executed before, and nothing has overtaken it.
LEMMA ExecuteInv ==
  ASSUME GuestsInv, Execute
  PROVE  GuestsInv'
  <1>0. /\ confirm.step = "taken" /\ serial < MaxSerial
        /\ UNCHANGED <<computeEpoch, catalog, slot, guest, life, accountSession, setting, published>>
        /\ stale \in BOOLEAN /\ ~stale /\ confirm \in ConfirmRecs
    BY DEF Execute, confirmRest, GuestsInv, GuestsTypeOK, NothingStale
  <1>1. PICK p, f :
         /\ p = confirm.p /\ f = GrantOf(Binding) /\ SetFlow(f)
         /\ IF p.fresh /\ p.b = Binding /\ SameGrant(p, f.grant)
            THEN /\ executed' = Append(executed, p.id)
                 /\ stale' = (stale \/ p.old)
                 /\ confirm' = [confirm EXCEPT !.step = "sent"]
                 /\ UNCHANGED opGate
            ELSE /\ opGate' = Tail(opGate)
                 /\ confirm' = NoConfirm
                 /\ UNCHANGED <<executed, stale>>
    BY <1>0 DEF Execute
  <1>2. f.pending \subseteq pending /\ grant.intent <= f.grant.intent /\ f.grant \in Grants
    BY <1>0, <1>1, GrantFacts
  <1>3. Grown /\ pending' \subseteq pending /\ grant' # NoGrant
    BY <1>0, <1>1, <1>2, GrantGrown DEF SetFlow
  <1>4. Holds("confirm")
    BY <1>0 DEF GuestsInv, Turns
  <1>5. CASE opGate' = Tail(opGate) /\ confirm' = NoConfirm /\ UNCHANGED <<executed, stale>>
    <2>1. opGate' \in Gates /\ Turns'
      BY <1>0, <1>4, <1>5, PopTurns, RestFacts
    <2>2. setting' \in SettingRecs /\ confirm' \in ConfirmRecs /\ confirm'.step # "taken"
      BY <1>0, <1>5, RestFacts DEF GuestsInv, GuestsTypeOK
    <2> QED BY <1>0, <1>3, <1>5, <2>1, <2>2, FlowStep
  <1>6. CASE /\ p.b = Binding /\ SameGrant(p, f.grant) /\ executed' = Append(executed, p.id)
             /\ stale' = (stale \/ p.old) /\ confirm' = [confirm EXCEPT !.step = "sent"] /\ UNCHANGED opGate
    <2>0. /\ Proposed /\ Seats /\ pending \subseteq Proposals(Guests) /\ executed \in Seq(Guests) /\ ExecutedOnce
          /\ p \in Proposals(Guests \cup {"none"}) /\ Offered(p)
          /\ \A q \in pending : q.id # p.id
      BY <1>0, <1>1 DEF GuestsInv, GuestsTypeOK, PendingOK, ConfirmRecs, Proposed
    <2>1. confirm' \in ConfirmRecs /\ confirm'.step = "sent"
      BY <1>0, <1>6 DEF ConfirmRecs
    <2>2. p.id \in Guests /\ ~Executed(p.id) /\ guest[p.id].step = "gone"
      BY <2>0 DEF Offered
    <2>3. ~p.old
      <3>1. p.old => Overtaken(p.b, p.intent)
        BY <2>0 DEF Offered
      <3>2. /\ p.intent \in Nat /\ grant.intent \in Nat /\ f.grant.intent \in Nat
            /\ computeEpoch \in Nat /\ accountSession \in Nat
            /\ Binding.epoch = computeEpoch /\ Binding.sess = accountSession
        BY <1>2, <2>0, ProposalTypes, GrantNumbers, NumberFacts DEF Grants, GuestsInv
      <3> QED BY <1>2, <1>6, <3>1, <3>2 DEF Overtaken, SameGrant
    <2>4. stale' = FALSE
      BY <1>0, <1>6, <2>3
    <2>5. executed' \in Seq(Guests) /\ ExecutedOnce' /\ \A y : Executed(y)' => y = p.id \/ Executed(y)
      BY <1>6, <2>0, <2>2, AppendOnce DEF ExecutedOnce, Executed
    <2>6. ASSUME NEW q \in pending PROVE Offered(q)'
      <3>1. q \in Proposals(Guests) /\ Offered(q) /\ q.id # p.id
        BY <2>0 DEF Proposed
      <3>2. ~Executed(q.id)'
        BY <2>5, <3>1 DEF Offered
      <3>3. q.intent \in Nat /\ grant.intent \in Nat /\ grant'.intent \in Nat /\ grant.intent <= grant'.intent
        BY <1>3, <3>1, ProposalTypes, GrantNumbers DEF Grown, Grants
      <3>4. Past(q.b)' /\ q.intent <= grant'.intent
        BY <1>0, <3>1, <3>3 DEF Offered, Past
      <3>5. Overtaken(q.b, q.intent) => Overtaken(q.b, q.intent)'
        BY <1>0, <3>3 DEF Overtaken
      <3> QED BY <1>0, <3>1, <3>2, <3>4, <3>5 DEF Offered
    <2>7. Proposed'
      <3>1. \A q \in pending' : Offered(q)'
        BY <1>3, <2>6
      <3>2. \A q, r \in pending' : q.id = r.id => q = r
        BY <1>3, <2>0 DEF Proposed
      <3>3. \A x \in Guests : Executed(x)' => guest'[x].step = "gone"
        BY <1>0, <2>0, <2>2, <2>5 DEF Proposed
      <3> QED BY <2>1, <3>1, <3>2, <3>3 DEF Proposed
    <2>8. opGate' \in Gates /\ Turns' /\ Seats'
      BY <1>0, <1>6, <2>1, SameTurns
    <2>9. \A g \in Guests : Tracked(g)'
      BY <1>0, <1>3, TrackedKept
    <2>10. PendingOK'
      BY <1>3, Shrunk
    <2>11. GuestsTypeOK'
      BY <1>0, <1>3, <2>1, <2>4, <2>5, <2>8, <2>10 DEF GuestsInv, GuestsTypeOK, Grown
    <2>12. Counted'
      BY <1>0, <1>3 DEF GuestsInv, Counted, Grown
    <2> QED BY <2>4, <2>5, <2>7, <2>8, <2>9, <2>11, <2>12 DEF GuestsInv, NothingStale
  <1> QED BY <1>1, <1>5, <1>6

LEMMA ExpireInv ==
  ASSUME GuestsInv, NEW p \in pending, Expire(p)
  PROVE  GuestsInv'
  <1> DEFINE q == [p EXCEPT !.fresh = FALSE]
  <1>0. /\ pending' = (pending \ {p}) \cup {q}
        /\ UNCHANGED <<opGate, serial, grant, executed, stale, confirm>>
        /\ UNCHANGED <<computeEpoch, catalog, slot, guest, life, accountSession, setting, published>>
    BY DEF Expire, confirmRest
  <1>1. PendingOK /\ Proposed /\ pending \subseteq Proposals(Guests) /\ p \in Proposals(Guests) /\ Offered(p)
    BY DEF GuestsInv, GuestsTypeOK, PendingOK, Proposed
  <1>2. q \in Proposals(Guests) /\ q.id = p.id /\ q.b = p.b /\ q.intent = p.intent /\ q.old = p.old
    BY <1>1 DEF Proposals
  <1> HIDE DEF q
  <1>3. Grown
    BY <1>0, SameGrown
  <1>4. \A r \in pending : Offered(r)'
    <2> TAKE r \in pending
    <2>1. r \in Proposals(Guests) /\ Offered(r) /\ guest'[r.id] = guest[r.id]
      BY <1>0, <1>1 DEF Proposed
    <2> QED BY <1>0, <1>3, <2>1, OfferedKept
  <1>5. \A r \in pending' : Offered(r)' /\ (r = q \/ (r \in pending /\ r # p))
    <2>1. ASSUME NEW r, r = q PROVE Offered(r)'
      BY <1>2, <1>4, <2>1 DEF Offered
    <2> QED BY <1>0, <1>4, <2>1
  <1>6. Proposed'
    <2>1. \A r, s \in pending' : r.id = s.id => r = s
      BY <1>1, <1>2, <1>5 DEF Proposed
    <2>2. confirm'.step = "taken" => Offered(confirm.p)' /\ \A r \in pending' : r.id # confirm'.p.id
      <3> SUFFICES ASSUME confirm.step = "taken" PROVE Offered(confirm.p)' /\ \A r \in pending' : r.id # confirm'.p.id
        BY <1>0
      <3>1. Offered(confirm.p) /\ \A r \in pending : r.id # confirm.p.id
        BY <1>1 DEF Proposed
      <3>2. Offered(confirm.p)'
        BY <1>0, <3>1 DEF Offered, Past, Overtaken, Executed
      <3> QED BY <1>0, <1>2, <1>5, <3>1, <3>2
    <2>3. \A x \in Guests : Executed(x)' => guest'[x].step = "gone"
      BY <1>0, <1>1 DEF Proposed, Executed
    <2> QED BY <1>5, <2>1, <2>2, <2>3 DEF Proposed
  <1>7. PendingOK'
    <2>1. /\ IsFiniteSet(pending \ {p}) /\ Cardinality(pending \ {p}) = Cardinality(pending) - 1
          /\ Cardinality(pending) \in Nat /\ Cardinality(pending \ {p}) \in Nat
      BY <1>1, FS_RemoveElement, FS_CardinalityType DEF PendingOK
    <2>2. IsFiniteSet(pending') /\ Cardinality(pending') <= Cardinality(pending \ {p}) + 1 /\ Cardinality(pending') \in Nat
      <3> DEFINE less == pending \ {p}
      <3>1. IsFiniteSet(less) /\ Cardinality(less) \in Nat /\ pending' = less \cup {q}
        BY <1>0, <2>1
      <3> HIDE DEF less
      <3>2. IsFiniteSet(less \cup {q}) /\ Cardinality(less \cup {q}) = IF q \in less THEN Cardinality(less) ELSE Cardinality(less) + 1
        BY <3>1, FS_AddElement
      <3>3. IsFiniteSet(pending') /\ Cardinality(pending') <= Cardinality(less) + 1 /\ Cardinality(pending') \in Nat
        BY <3>1, <3>2
      <3> QED BY <3>3 DEF less
    <2>3. MaxPending \in Nat
      BY LimitAssumption
    <2> QED BY <1>0, <1>1, <1>2, <2>1, <2>2, <2>3 DEF PendingOK
  <1>8. opGate' \in Gates /\ Turns' /\ Seats'
    BY <1>0, SameTurns
  <1>9. \A g \in Guests : Tracked(g)'
    BY <1>0, <1>3, TrackedKept
  <1>10. GuestsTypeOK'
    BY <1>0, <1>7, <1>8 DEF GuestsInv, GuestsTypeOK
  <1>11. Counted'
    BY <1>0 DEF GuestsInv, Counted
  <1>12. NothingStale' /\ ExecutedOnce'
    BY <1>0 DEF GuestsInv, NothingStale, ExecutedOnce
  <1> QED BY <1>6, <1>8, <1>9, <1>10, <1>11, <1>12 DEF GuestsInv

-----------------------------------------------------------------------------
\* What a change of the intent, the epoch or the session does to guests and proposals.
LEMMA OutdatedFacts ==
  ASSUME GuestsTypeOK, NEW gs, guest' = Outdated(gs)
  PROVE  /\ guest' \in [Guests -> GuestRecs]
         /\ \A h \in Guests : /\ guest'[h].step = guest[h].step /\ guest'[h].kind = guest[h].kind /\ guest'[h].b = guest[h].b
                              /\ guest'[h].g = guest[h].g /\ guest'[h].cancel = guest[h].cancel
                              /\ guest'[h].told = guest[h].told /\ guest'[h].seen = guest[h].seen
         /\ \A h \in Guests : guest'[h].old = IF h \in gs THEN TRUE ELSE guest[h].old
  <1>1. \A h \in Guests : guest'[h] = IF h \in gs THEN [guest[h] EXCEPT !.old = TRUE] ELSE guest[h]
    BY DEF Outdated
  <1>2. ASSUME NEW r \in GuestRecs
        PROVE  LET n == [r EXCEPT !.old = TRUE]
               IN  /\ n \in GuestRecs /\ n.step = r.step /\ n.kind = r.kind /\ n.b = r.b /\ n.g = r.g
                   /\ n.cancel = r.cancel /\ n.told = r.told /\ n.seen = r.seen /\ n.old = TRUE
    BY DEF GuestRecs
  <1>3. guest' = [h \in Guests |-> guest'[h]]
    BY DEF Outdated
  <1>4. ASSUME NEW h \in Guests
        PROVE  /\ guest'[h] \in GuestRecs
               /\ guest'[h].step = guest[h].step /\ guest'[h].kind = guest[h].kind /\ guest'[h].b = guest[h].b
               /\ guest'[h].g = guest[h].g /\ guest'[h].cancel = guest[h].cancel
               /\ guest'[h].told = guest[h].told /\ guest'[h].seen = guest[h].seen
               /\ guest'[h].old = IF h \in gs THEN TRUE ELSE guest[h].old
    <2>1. guest[h] \in GuestRecs
      BY GuestTypes
    <2>2. CASE h \in gs
      <3>1. guest'[h] = [guest[h] EXCEPT !.old = TRUE]
        BY <1>1, <2>2
      <3> QED BY <1>2, <2>1, <2>2, <3>1
    <2>3. CASE h \notin gs
      BY <1>1, <2>1, <2>3
    <2> QED BY <2>2, <2>3
  <1> QED BY <1>3, <1>4

LEMMA TrackedOutdated ==
  ASSUME GuestsInv, NEW gs \in SUBSET Engaged, guest' = Outdated(gs), NEW h \in Guests,
         computeEpoch' \in Nat, accountSession' \in Nat, grant' \in Grants,
         computeEpoch <= computeEpoch', accountSession <= accountSession', grant.intent <= grant'.intent,
         grant # NoGrant => grant' # NoGrant, published' = published,
         \/ life' = life
         \/ life = "bump" /\ life' = "invalidate" /\ computeEpoch < computeEpoch',
         h \in gs => guest[h].b.epoch < computeEpoch' \/ guest[h].b.sess < accountSession' \/ guest[h].g.intent < grant'.intent,
         h \in gs /\ guest[h].kind = "compute" => guest[h].b.epoch < computeEpoch'
  PROVE  Tracked(h)'
  <1>0. Tracked(h) /\ GuestsTypeOK
    BY DEF GuestsInv
  <1>1. /\ guest'[h].step = guest[h].step /\ guest'[h].kind = guest[h].kind /\ guest'[h].b = guest[h].b
        /\ guest'[h].g = guest[h].g /\ guest'[h].cancel = guest[h].cancel
        /\ guest'[h].told = guest[h].told /\ guest'[h].seen = guest[h].seen
        /\ guest'[h].old = IF h \in gs THEN TRUE ELSE guest[h].old
    BY <1>0, OutdatedFacts
  <1>2. /\ guest[h].b.epoch \in Nat /\ guest[h].b.sess \in Nat /\ guest[h].g.intent \in Nat /\ grant.intent \in Nat
        /\ computeEpoch \in Nat /\ accountSession \in Nat /\ grant'.intent \in Nat
    BY <1>0, GuestTypes, NumberFacts, GrantNumbers DEF Grants
  <1>3. h \in gs => guest[h].step \notin Before
    BY DEF Engaged, Before
  <1>4. guest'[h].step \in Before => ~guest'[h].old
    BY <1>0, <1>1, <1>3 DEF Tracked
  <1>5. Past(guest[h].b)' /\ guest'[h].g.intent <= grant'.intent
    <2>1. Past(guest[h].b) /\ guest[h].g.intent <= grant.intent
      BY <1>0 DEF Tracked
    <2> QED BY <1>1, <1>2, <2>1 DEF Past
  <1>6. guest'[h].old /\ guest'[h].kind = "compute" => guest'[h].b.epoch < computeEpoch'
    <2>1. guest[h].old /\ guest[h].kind = "compute" => guest[h].b.epoch < computeEpoch
      BY <1>0 DEF Tracked
    <2>2. CASE h \in gs
      BY <1>1, <2>2
    <2>3. CASE h \notin gs
      <3>1. guest'[h].old = guest[h].old
        BY <1>1, <2>3
      <3> QED BY <1>1, <1>2, <2>1, <3>1
    <2> QED BY <2>2, <2>3
  <1>7. guest'[h].old => Overtaken(guest[h].b, guest[h].g.intent)'
    <2>1. guest[h].old => Overtaken(guest[h].b, guest[h].g.intent)
      BY <1>0 DEF Tracked
    <2>2. CASE h \in gs
      BY <1>1, <2>2 DEF Overtaken
    <2>3. CASE h \notin gs
      <3>1. guest'[h].old = guest[h].old
        BY <1>1, <2>3
      <3>2. Overtaken(guest[h].b, guest[h].g.intent) => Overtaken(guest[h].b, guest[h].g.intent)'
        BY <1>1, <1>2 DEF Overtaken
      <3> QED BY <2>1, <3>1, <3>2
    <2> QED BY <2>2, <2>3
  <1>8. /\ guest'[h].kind = "compute" /\ life' \in {"invalidate", "wait"} /\ guest'[h].step \in {"locked", "captured"} \cup Holding
            => guest'[h].b.epoch < computeEpoch'
    <2>1. guest[h].b.epoch <= computeEpoch
      BY <1>0 DEF Tracked, Past
    <2>2. /\ guest[h].kind = "compute" /\ life \in {"invalidate", "wait"} /\ guest[h].step \in {"locked", "captured"} \cup Holding
             => guest[h].b.epoch < computeEpoch
      BY <1>0 DEF Tracked
    <2>3. life' = life \/ computeEpoch < computeEpoch'
      OBVIOUS
    <2> QED BY <1>1, <1>2, <2>1, <2>2, <2>3
  <1>9. guest'[h].kind = "compute" /\ Running(h)' /\ published' > guest'[h].seen
            => guest'[h].cancel /\ guest'[h].b.epoch < computeEpoch'
    <2>1. guest[h].kind = "compute" /\ Running(h) /\ published > guest[h].seen
             => guest[h].cancel /\ guest[h].b.epoch < computeEpoch
      BY <1>0 DEF Tracked
    <2>2. Running(h)' <=> Running(h)
      BY <1>1 DEF Running
    <2> QED BY <1>1, <1>2, <2>1, <2>2
  <1>10. /\ guest'[h].step \in Before \cup {"captured"} => ~guest'[h].cancel
         /\ guest'[h].seen <= published'
         /\ guest'[h].step \in {"captured", "leased"} => guest'[h].seen = published'
         /\ guest'[h].kind = "workflow" /\ guest'[h].step \in {"captured", "leased", "running", "done"} => grant' # NoGrant
    BY <1>0, <1>1 DEF Tracked
  <1>11. guest'[h].step \in Holding /\ guest'[h].cancel /\ ~guest'[h].told => life' # "idle" \/ published' > guest'[h].seen
    BY <1>0, <1>1 DEF Tracked
  <1>12. guest'[h].kind = "compute" /\ life' = "wait" /\ Running(h)' => guest'[h].cancel
    BY <1>0, <1>1 DEF Tracked, Running
  <1> QED BY <1>4, <1>5, <1>6, <1>7, <1>8, <1>9, <1>10, <1>11, <1>12 DEF Tracked

\* A proposal, marked or not, once what it rests on may have been overtaken.
LEMMA OfferedOutdated ==
  ASSUME GuestsInv, NEW ids, NEW p \in Proposals(ids), Offered(p), NEW q, q = p \/ q = [p EXCEPT !.old = TRUE],
         computeEpoch' \in Nat, accountSession' \in Nat, grant' \in Grants,
         computeEpoch <= computeEpoch', accountSession <= accountSession', grant.intent <= grant'.intent,
         p.b.epoch < computeEpoch' \/ p.b.sess < accountSession' \/ p.intent < grant'.intent,
         guest'[p.id].step = guest[p.id].step, UNCHANGED executed
  PROVE  q \in Proposals(ids) /\ q.id = p.id /\ Offered(q)'
  <1>1. q \in Proposals(ids) /\ q.id = p.id /\ q.b = p.b /\ q.intent = p.intent
    BY DEF Proposals
  <1>2. /\ p.b.epoch \in Nat /\ p.b.sess \in Nat /\ p.intent \in Nat /\ grant.intent \in Nat
        /\ computeEpoch \in Nat /\ accountSession \in Nat /\ grant'.intent \in Nat
    BY ProposalTypes, NumberFacts, GrantNumbers DEF Grants, GuestsInv
  <1>3. Past(q.b)' /\ q.intent <= grant'.intent
    <2>1. Past(p.b) /\ p.intent <= grant.intent
      BY DEF Offered
    <2> QED BY <1>1, <1>2, <2>1 DEF Past
  <1>4. Overtaken(q.b, q.intent)'
    BY <1>1, <1>2 DEF Overtaken
  <1>5. ~Executed(q.id)'
    BY <1>1 DEF Offered, Executed
  <1> QED BY <1>1, <1>3, <1>4, <1>5 DEF Offered

LEMMA OldPendingOK ==
  ASSUME GuestsInv, pending' = OldPending(pending)
  PROVE  PendingOK' /\ (pending' = {} <=> pending = {})
  <1>0. PendingOK
    BY DEF GuestsInv, GuestsTypeOK
  <1> DEFINE Mark(p) == [p EXCEPT !.old = TRUE]
             image == {Mark(p) : p \in pending}
             f == [p \in pending |-> Mark(p)]
  <1>1. pending' = image
    BY DEF OldPending
  <1>2. f \in Surjection(pending, image)
    BY DEF Surjection
  <1>3. IsFiniteSet(image) /\ Cardinality(image) <= Cardinality(pending)
    <2> HIDE DEF f, image
    <2> QED BY <1>0, <1>2, FS_Surjection DEF PendingOK
  <1>4. image \subseteq Proposals(Guests)
    <2>1. ASSUME NEW p \in Proposals(Guests) PROVE Mark(p) \in Proposals(Guests)
      BY DEF Proposals
    <2> HIDE DEF Mark
    <2> QED BY <1>0, <2>1 DEF PendingOK
  <1>5. image = {} <=> pending = {}
    <2> HIDE DEF Mark
    <2> QED OBVIOUS
  <1> HIDE DEF image
  <1>6. Cardinality(pending) \in Nat /\ Cardinality(image) \in Nat /\ MaxPending \in Nat
    BY <1>0, <1>3, FS_CardinalityType, LimitAssumption DEF PendingOK
  <1> QED BY <1>0, <1>1, <1>3, <1>4, <1>5, <1>6 DEF PendingOK

LEMMA OldConfirmFacts ==
  ASSUME GuestsTypeOK, confirm' = OldConfirm
  PROVE  /\ confirm' \in ConfirmRecs /\ confirm'.step = confirm.step
         /\ confirm.step = "taken" => confirm'.p = [confirm.p EXCEPT !.old = TRUE]
  <1>0. confirm \in ConfirmRecs /\ confirm.p \in Proposals(Guests \cup {"none"})
    BY DEF GuestsTypeOK, ConfirmRecs
  <1>1. CASE confirm.step = "taken"
    <2> DEFINE q == [confirm.p EXCEPT !.old = TRUE]
    <2>1. confirm' = [confirm EXCEPT !.p = q]
      BY <1>0, <1>1 DEF OldConfirm
    <2>2. q \in Proposals(Guests \cup {"none"})
      BY <1>0 DEF Proposals
    <2> HIDE DEF q
    <2>3. confirm' \in ConfirmRecs /\ confirm'.step = confirm.step /\ confirm'.p = q
      BY <1>0, <2>1, <2>2 DEF ConfirmRecs
    <2> QED BY <2>3 DEF q
  <1>2. CASE confirm.step # "taken"
    BY <1>0, <1>2 DEF OldConfirm
  <1> QED BY <1>1, <1>2

LEMMA OldConfirmOffered ==
  ASSUME GuestsInv, confirm' = OldConfirm, confirm.step = "taken",
         computeEpoch' \in Nat, accountSession' \in Nat, grant' \in Grants,
         computeEpoch <= computeEpoch', accountSession <= accountSession', grant.intent <= grant'.intent,
         computeEpoch < computeEpoch' \/ grant.intent < grant'.intent,
         \A h \in Guests : guest'[h].step = guest[h].step, UNCHANGED executed
  PROVE  Offered(confirm.p)' /\ confirm'.p.id = confirm.p.id
  <1>1. ASSUME NEW p, p = confirm.p, NEW q, q = confirm'.p PROVE Offered(q)' /\ q.id = p.id
    <2>1. p \in Proposals(Guests \cup {"none"}) /\ Offered(p)
      BY <1>1 DEF GuestsInv, GuestsTypeOK, ConfirmRecs, Proposed
    <2>2. q = [p EXCEPT !.old = TRUE]
      BY <1>1, OldConfirmFacts DEF GuestsInv
    <2>3. p.b.epoch < computeEpoch' \/ p.b.sess < accountSession' \/ p.intent < grant'.intent
      <3>1. p.b.epoch <= computeEpoch /\ p.intent <= grant.intent
        BY <2>1 DEF Offered, Past
      <3>2. p.b.epoch \in Nat /\ p.intent \in Nat /\ computeEpoch \in Nat /\ grant.intent \in Nat /\ grant'.intent \in Nat
        BY <2>1, ProposalTypes, NumberFacts, GrantNumbers DEF Grants, GuestsInv
      <3> QED BY <3>1, <3>2
    <2>4. guest'[p.id].step = guest[p.id].step
      BY <2>1 DEF Offered
    <2> QED BY <2>1, <2>2, <2>3, <2>4, OfferedOutdated
  <1>2. ASSUME NEW q, q = confirm'.p, Offered(q)' PROVE Offered(confirm.p)'
    BY <1>2 DEF Offered, Past, Overtaken, Executed
  <1> QED BY <1>1, <1>2

LEMMA Accepted ==
  ASSUME NEW r \in SettingRecs, NEW n \in Nat
  PROVE  [r EXCEPT !.step = "accepted", !.intent = n] \in SettingRecs
  BY DEF SettingRecs

LEMMA AcceptIntentInv ==
  ASSUME GuestsInv, AcceptIntent
  PROVE  GuestsInv'
  <1>0. /\ serial < MaxSerial /\ serial' = serial + 1 /\ pending' = {} /\ guest' = Outdated(Workflows) /\ confirm' = OldConfirm
        /\ grant' = IF grant = NoGrant THEN grant ELSE [grant EXCEPT !.intent = serial + 1]
        /\ setting' = [setting EXCEPT !.step = "accepted", !.intent = serial + 1]
        /\ UNCHANGED <<opGate, computeEpoch, catalog, slot, life, accountSession, executed, published, stale>>
        /\ GuestsTypeOK /\ setting \in SettingRecs /\ MaxSerial \in Nat
    BY LimitAssumption DEF AcceptIntent, settingRest, GuestsInv, GuestsTypeOK
  <1>1. /\ serial \in Nat /\ grant \in Grants /\ grant.intent \in Nat /\ grant.intent <= serial
        /\ computeEpoch \in Nat /\ accountSession \in Nat
    BY <1>0, GrantNumbers, NumberFacts
  <1>2. grant # NoGrant => grant' \in Grants /\ grant'.intent = serial + 1 /\ grant' # NoGrant
    <2> SUFFICES ASSUME grant # NoGrant PROVE grant' \in Grants /\ grant'.intent = serial + 1 /\ grant' # NoGrant
      OBVIOUS
    <2>1. grant' = [grant EXCEPT !.intent = serial + 1]
      BY <1>0
    <2>2. grant' \in Grants /\ grant'.intent = serial + 1
      BY <1>1, <2>1 DEF Grants
    <2> QED BY <1>1, <2>2, NoneFacts
  <1>3. Grown
    <2>1. serial' \in 0..MaxSerial
      BY <1>0, <1>1
    <2>2. CASE grant = NoGrant
      BY <1>0, <1>1, <2>1, <2>2 DEF Grown
    <2>3. CASE grant # NoGrant
      BY <1>0, <1>1, <1>2, <2>1, <2>3 DEF Grown
    <2> QED BY <2>2, <2>3
  <1>4. /\ guest' \in [Guests -> GuestRecs] /\ \A h \in Guests : guest'[h].step = guest[h].step
    BY <1>0, OutdatedFacts
  <1>5. confirm' \in ConfirmRecs /\ confirm'.step = confirm.step
    BY <1>0, OldConfirmFacts
  <1>6. opGate' \in Gates /\ Turns' /\ Seats'
    BY <1>0, <1>4, <1>5, SameTurns
  <1>7. \A h \in Guests : Tracked(h)'
    <2> TAKE h \in Guests
    <2>1. h \in Workflows => guest[h].kind = "workflow" /\ guest[h].step \in {"captured", "leased", "running", "done"}
      BY DEF Workflows, Engaged
    <2>2. h \in Workflows => grant # NoGrant /\ guest[h].g.intent <= grant.intent
      BY <2>1 DEF GuestsInv, Tracked
    <2>3. h \in Workflows => guest[h].g.intent < grant'.intent
      <3>1. guest[h].g.intent \in Nat
        BY <1>0, GuestTypes
      <3> QED BY <1>1, <1>2, <2>2, <3>1
    <2>4. Workflows \in SUBSET Engaged
      BY DEF Workflows
    <2>5. computeEpoch' \in Nat /\ accountSession' \in Nat /\ computeEpoch <= computeEpoch' /\ accountSession <= accountSession'
      BY <1>0, <1>1
    <2>6. grant' \in Grants /\ grant.intent <= grant'.intent /\ (grant # NoGrant => grant' # NoGrant)
      BY <1>3 DEF Grown
    <2> QED BY <1>0, <2>1, <2>3, <2>4, <2>5, <2>6, TrackedOutdated
  <1>8. Proposed'
    <2>1. confirm'.step = "taken" => Offered(confirm.p)'
      <3> SUFFICES ASSUME confirm.step = "taken" PROVE Offered(confirm.p)'
        BY <1>5
      <3>1. grant # NoGrant
        BY DEF GuestsInv, Counted
      <3>2. /\ computeEpoch' \in Nat /\ accountSession' \in Nat /\ computeEpoch <= computeEpoch' /\ accountSession <= accountSession'
            /\ grant' \in Grants /\ grant.intent <= grant'.intent /\ grant.intent < grant'.intent
        <4>1. serial \in Nat /\ grant'.intent = serial + 1 /\ grant' \in Grants
          BY <1>1, <1>2, <3>1
        <4>2. grant.intent <= grant'.intent /\ grant.intent < grant'.intent
          BY <1>1, <4>1
        <4>3. computeEpoch' \in Nat /\ accountSession' \in Nat /\ computeEpoch <= computeEpoch' /\ accountSession <= accountSession'
          BY <1>0, <1>1
        <4> QED BY <4>1, <4>2, <4>3
      <3> QED BY <1>0, <1>4, <3>2, OldConfirmOffered
    <2>2. \A x \in Guests : Executed(x)' => guest'[x].step = "gone"
      BY <1>0, <1>4 DEF GuestsInv, Proposed, Executed
    <2> QED BY <1>0, <2>1, <2>2 DEF Proposed
  <1>9. setting' \in SettingRecs
    <2>1. serial + 1 \in Nat
      BY <1>1
    <2> QED BY <1>0, <2>1, Accepted
  <1>10. PendingOK'
    BY <1>0, Shrunk
  <1>11. GuestsTypeOK'
    BY <1>0, <1>3, <1>4, <1>5, <1>6, <1>9, <1>10 DEF GuestsTypeOK, Grown
  <1>12. Counted'
    BY <1>0, <1>3, <1>5 DEF GuestsInv, Counted, Grown
  <1>13. NothingStale' /\ ExecutedOnce'
    BY <1>0 DEF GuestsInv, NothingStale, ExecutedOnce
  <1> QED BY <1>6, <1>7, <1>8, <1>11, <1>12, <1>13 DEF GuestsInv

-----------------------------------------------------------------------------
\* The lifecycle operation.
LEMMA NextLifeFacts ==
  /\ NextLife("idle") = "reserve" /\ NextLife("reserve") = "bump" /\ NextLife("bump") = "invalidate"
  /\ NextLife("invalidate") = "wait"
  BY DEF NextLife

LEMMA ProposedStays ==
  ASSUME GuestsInv, UNCHANGED <<pending, confirm, executed, grant, computeEpoch, accountSession>>,
         \A h \in Guests : guest'[h].step = guest[h].step
  PROVE  Proposed' /\ PendingOK'
  <1>0. Proposed /\ PendingOK
    BY DEF GuestsInv, GuestsTypeOK
  <1>1. ASSUME NEW p, Offered(p) PROVE Offered(p)'
    BY <1>1 DEF Offered, Past, Overtaken, Executed
  <1>2. confirm'.step = "taken" => Offered(confirm.p)'
    BY <1>0 DEF Proposed, Offered, Past, Overtaken, Executed
  <1>3. \A x \in Guests : Executed(x)' => guest'[x].step = "gone"
    BY <1>0 DEF Proposed, Executed
  <1>4. Proposed'
    BY <1>0, <1>1, <1>2, <1>3 DEF Proposed
  <1>5. PendingOK'
    BY <1>0 DEF PendingOK
  <1> QED BY <1>4, <1>5

LEMMA LifeStep ==
  ASSUME GuestsInv, opGate' \in Gates, Turns', life' \in {"reserve", "bump"}, computeEpoch < MaxLife,
         UNCHANGED <<computeEpoch, catalog, slot, guest, pending, confirm, published, lifeRest>>
  PROVE  GuestsInv'
  <1>0. UNCHANGED <<accountSession, serial, grant, setting, executed, stale>>
    BY DEF lifeRest
  <1>1. Proposed' /\ PendingOK'
    BY <1>0, ProposedStays
  <1>2. \A h \in Guests : Tracked(h)'
    <2> TAKE h \in Guests
    <2>1. Tracked(h)
      BY DEF GuestsInv
    <2> QED BY <1>0, <2>1 DEF Tracked, Past, Overtaken, Running
  <1>3. GuestsTypeOK'
    BY <1>0, <1>1 DEF GuestsInv, GuestsTypeOK
  <1>4. Seats' /\ Counted' /\ NothingStale' /\ ExecutedOnce'
    BY <1>0 DEF GuestsInv, Seats, Counted, NothingStale, ExecutedOnce
  <1> QED BY <1>1, <1>2, <1>3, <1>4 DEF GuestsInv

LEMMA BeginLifeInv ==
  ASSUME GuestsInv, BeginLife
  PROVE  GuestsInv'
  <1>0. /\ computeEpoch < MaxLife /\ life' = "reserve"
        /\ UNCHANGED <<opGate, computeEpoch, catalog, slot, guest, pending, confirm, published, lifeRest>>
    BY NextLifeFacts DEF BeginLife
  <1>1. opGate' \in Gates /\ Turns'
    BY <1>0, SameTurns
  <1> QED BY <1>0, <1>1, LifeStep

LEMMA ReserveGateInv ==
  ASSUME GuestsInv, ReserveGate
  PROVE  GuestsInv'
  <1>0. /\ life = "reserve" /\ life' = "bump" /\ opGate' = Append(opGate, "life")
        /\ UNCHANGED <<computeEpoch, catalog, slot, guest, pending, confirm, published, lifeRest>>
    BY NextLifeFacts DEF ReserveGate
  <1>1. opGate' \in Gates /\ Turns'
    BY <1>0, AppendTurns
  <1>2. computeEpoch < MaxLife
    BY <1>0 DEF GuestsInv, Counted
  <1> QED BY <1>0, <1>1, <1>2, LifeStep

\* Every proposal that is marked was on offer, and stays so.
LEMMA OldPendingOffered ==
  ASSUME GuestsInv, pending' = OldPending(pending),
         computeEpoch' \in Nat, accountSession' \in Nat, grant' \in Grants,
         computeEpoch <= computeEpoch', accountSession <= accountSession', grant.intent <= grant'.intent,
         computeEpoch < computeEpoch' \/ accountSession < accountSession',
         \A h \in Guests : guest'[h].step = guest[h].step, UNCHANGED executed
  PROVE  /\ \A q \in pending' : Offered(q)'
         /\ \A q, r \in pending' : q.id = r.id => q = r
         /\ \A q \in pending' : \E p \in pending : q.id = p.id
  <1>0. Proposed /\ pending \subseteq Proposals(Guests)
    BY DEF GuestsInv, GuestsTypeOK, PendingOK
  <1>1. ASSUME NEW p \in pending, NEW q, q = [p EXCEPT !.old = TRUE]
        PROVE  Offered(q)' /\ q.id = p.id
    <2>1. p \in Proposals(Guests) /\ Offered(p)
      BY <1>0 DEF Proposed
    <2>2. p.b.epoch < computeEpoch' \/ p.b.sess < accountSession' \/ p.intent < grant'.intent
      <3>1. p.b.epoch <= computeEpoch /\ p.b.sess <= accountSession
        BY <2>1 DEF Offered, Past
      <3>2. p.b.epoch \in Nat /\ p.b.sess \in Nat /\ computeEpoch \in Nat /\ accountSession \in Nat
        BY <2>1, ProposalTypes, NumberFacts DEF GuestsInv
      <3> QED BY <3>1, <3>2
    <2>3. guest'[p.id].step = guest[p.id].step
      BY <2>1 DEF Offered
    <2> QED BY <1>1, <2>1, <2>2, <2>3, OfferedOutdated
  <1>2. \A q \in pending' : \E p \in pending : q = [p EXCEPT !.old = TRUE]
    BY DEF OldPending
  <1>3. \A q \in pending' : Offered(q)' /\ \E p \in pending : q = [p EXCEPT !.old = TRUE] /\ q.id = p.id
    BY <1>1, <1>2
  <1>4. \A q, r \in pending' : q.id = r.id => q = r
    <2> SUFFICES ASSUME NEW q \in pending', NEW r \in pending', q.id = r.id PROVE q = r
      OBVIOUS
    <2>1. PICK p \in pending : q = [p EXCEPT !.old = TRUE] /\ q.id = p.id
      BY <1>3
    <2>2. PICK o \in pending : r = [o EXCEPT !.old = TRUE] /\ r.id = o.id
      BY <1>3
    <2>3. p = o
      BY <1>0, <2>1, <2>2 DEF Proposed
    <2> QED BY <2>1, <2>2, <2>3
  <1> QED BY <1>3, <1>4

LEMMA BumpInv ==
  ASSUME GuestsInv, Bump
  PROVE  GuestsInv'
  <1>0. /\ life = "bump" /\ life' = "invalidate" /\ computeEpoch' = computeEpoch + 1 /\ guest' = Outdated(Engaged)
        /\ pending' = OldPending(pending) /\ confirm' = OldConfirm
        /\ UNCHANGED <<opGate, catalog, slot, published>>
        /\ UNCHANGED <<accountSession, serial, grant, setting, executed, stale>>
        /\ GuestsTypeOK /\ MaxLife \in Nat /\ computeEpoch < MaxLife
    BY NextLifeFacts, LimitAssumption DEF Bump, lifeRest, GuestsInv, Counted
  <1>1. /\ grant \in Grants /\ grant.intent \in Nat /\ computeEpoch \in Nat /\ accountSession \in Nat
    BY <1>0, GrantNumbers, NumberFacts
  <1>2. /\ computeEpoch' \in Nat /\ accountSession' \in Nat /\ computeEpoch <= computeEpoch' /\ accountSession <= accountSession'
        /\ grant' \in Grants /\ grant.intent <= grant'.intent /\ computeEpoch < computeEpoch' /\ computeEpoch' \in 0..MaxLife
    BY <1>0, <1>1
  <1>3. /\ guest' \in [Guests -> GuestRecs] /\ \A h \in Guests : guest'[h].step = guest[h].step
    BY <1>0, OutdatedFacts
  <1>4. confirm' \in ConfirmRecs /\ confirm'.step = confirm.step
    BY <1>0, OldConfirmFacts
  <1>5. opGate' \in Gates /\ Turns' /\ Seats'
    BY <1>0, <1>3, <1>4, SameTurns
  <1>6. \A h \in Guests : Tracked(h)'
    <2> TAKE h \in Guests
    <2>1. guest[h].b.epoch < computeEpoch'
      <3>1. guest[h].b.epoch <= computeEpoch
        BY DEF GuestsInv, Tracked, Past
      <3>2. guest[h].b.epoch \in Nat
        BY <1>0, GuestTypes
      <3> QED BY <1>0, <1>1, <3>1, <3>2
    <2>2. Engaged \in SUBSET Engaged /\ (grant # NoGrant => grant' # NoGrant)
      BY <1>0
    <2> QED BY <1>0, <1>2, <2>1, <2>2, TrackedOutdated
  <1>7. Proposed'
    <2>1. /\ \A q \in pending' : Offered(q)'
          /\ \A q, r \in pending' : q.id = r.id => q = r
          /\ \A q \in pending' : \E p \in pending : q.id = p.id
      BY <1>0, <1>2, <1>3, OldPendingOffered
    <2>2. confirm'.step = "taken" => Offered(confirm.p)' /\ confirm'.p.id = confirm.p.id
      BY <1>0, <1>2, <1>3, <1>4, OldConfirmOffered
    <2>3. confirm'.step = "taken" => \A q \in pending' : q.id # confirm'.p.id
      BY <1>4, <2>1, <2>2 DEF GuestsInv, Proposed
    <2>4. \A x \in Guests : Executed(x)' => guest'[x].step = "gone"
      BY <1>0, <1>3 DEF GuestsInv, Proposed, Executed
    <2> QED BY <2>1, <2>2, <2>3, <2>4 DEF Proposed
  <1>8. PendingOK' /\ (pending' = {} <=> pending = {})
    BY <1>0, OldPendingOK
  <1>9. GuestsTypeOK'
    BY <1>0, <1>2, <1>3, <1>4, <1>5, <1>8 DEF GuestsTypeOK
  <1>10. Counted'
    BY <1>0, <1>4, <1>8 DEF GuestsInv, Counted
  <1>11. NothingStale' /\ ExecutedOnce'
    BY <1>0 DEF GuestsInv, NothingStale, ExecutedOnce
  <1> QED BY <1>5, <1>6, <1>7, <1>9, <1>10, <1>11 DEF GuestsInv

\* The slot's guest is told: it is the only one that runs.
LEMMA InvalidateInv ==
  ASSUME GuestsInv, Invalidate
  PROVE  GuestsInv'
  <1>0. /\ life = "invalidate" /\ life' = "wait" /\ guest' = IF slot = "none" THEN guest ELSE Cancelled(slot)
        /\ UNCHANGED <<opGate, computeEpoch, catalog, slot, pending, confirm, published>>
        /\ UNCHANGED <<accountSession, serial, grant, setting, executed, stale>>
        /\ GuestsTypeOK /\ slot \in Guests \cup {"none"} /\ guest \in [Guests -> GuestRecs]
    BY NextLifeFacts DEF Invalidate, lifeRest, GuestsInv, GuestsTypeOK
  <1>1. /\ guest' \in [Guests -> GuestRecs]
        /\ \A h \in Guests : h # slot => guest'[h] = guest[h]
        /\ slot \in Guests => guest'[slot] = [guest[slot] EXCEPT !.cancel = TRUE]
    <2>1. CASE slot = "none"
      <3>1. "none" \notin Guests
        BY GuestAssumption
      <3> QED BY <1>0, <2>1, <3>1
    <2>2. CASE slot \in Guests
      <3> DEFINE e == [guest[slot] EXCEPT !.cancel = TRUE]
      <3>1. guest' = [guest EXCEPT ![slot] = e]
        BY <1>0, <2>2, GuestAssumption DEF Cancelled
      <3>2. e \in GuestRecs
        BY <1>0, <2>2 DEF GuestRecs
      <3> HIDE DEF e
      <3>3. guest' \in [Guests -> GuestRecs] /\ guest'[slot] = e /\ \A h \in Guests : h # slot => guest'[h] = guest[h]
        BY <1>0, <2>2, <3>1, <3>2
      <3> QED BY <3>3 DEF e
    <2> QED BY <1>0, <2>1, <2>2
  <1>2. ASSUME NEW h \in Guests
        PROVE  /\ guest'[h].step = guest[h].step /\ guest'[h].kind = guest[h].kind /\ guest'[h].b = guest[h].b
               /\ guest'[h].g = guest[h].g /\ guest'[h].told = guest[h].told /\ guest'[h].seen = guest[h].seen
               /\ guest'[h].old = guest[h].old
               /\ guest'[h].cancel = IF h = slot THEN TRUE ELSE guest[h].cancel
    <2>1. guest[h] \in GuestRecs
      BY <1>0
    <2>2. CASE h = slot
      <3>1. guest'[h] = [guest[h] EXCEPT !.cancel = TRUE]
        BY <1>1, <2>2
      <3> QED BY <2>1, <2>2, <3>1 DEF GuestRecs
    <2>3. CASE h # slot
      BY <1>1, <2>3
    <2> QED BY <2>2, <2>3
  <1>3. \A h \in Guests : Tracked(h)'
    <2> TAKE h \in Guests
    <2>0. Tracked(h) /\ (h = slot <=> guest[h].step \in Holding)
      BY DEF GuestsInv, Seats
    <2>1. Past(guest[h].b)' /\ guest'[h].g.intent <= grant'.intent /\ guest'[h].seen <= published'
      BY <1>0, <1>2, <2>0 DEF Tracked, Past
    <2>2. /\ guest'[h].step \in Before => ~guest'[h].old
          /\ guest'[h].step \in {"captured", "leased"} => guest'[h].seen = published'
          /\ guest'[h].kind = "workflow" /\ guest'[h].step \in {"captured", "leased", "running", "done"} => grant' # NoGrant
      BY <1>0, <1>2, <2>0 DEF Tracked
    <2>3. guest'[h].step \in Before \cup {"captured"} => ~guest'[h].cancel
      <3> SUFFICES ASSUME guest[h].step \in Before \cup {"captured"} PROVE ~guest'[h].cancel
        BY <1>2
      <3>1. h # slot /\ ~guest[h].cancel
        BY <2>0 DEF Tracked, Before, Holding
      <3>2. guest'[h] = guest[h]
        BY <1>1, <3>1
      <3> QED BY <3>1, <3>2
    <2>4. /\ guest'[h].old /\ guest'[h].kind = "compute" => guest'[h].b.epoch < computeEpoch'
          /\ guest'[h].kind = "compute" /\ guest'[h].step \in {"locked", "captured"} \cup Holding
               => guest'[h].b.epoch < computeEpoch'
      BY <1>0, <1>2, <2>0 DEF Tracked
    <2>5. guest'[h].old => Overtaken(guest[h].b, guest[h].g.intent)'
      BY <1>0, <1>2, <2>0 DEF Tracked, Overtaken
    <2>6. Running(h)' => guest'[h].cancel
      BY <1>2, <2>0 DEF Running, Holding
    <2>7. Running(h)' => guest'[h].step \in Holding
      BY DEF Running, Holding
    <2>8. life' # "idle" /\ life' = "wait"
      BY <1>0
    <2> QED BY <2>1, <2>2, <2>3, <2>4, <2>5, <2>6, <2>7, <2>8 DEF Tracked
  <1>4. Proposed' /\ PendingOK'
    BY <1>0, <1>2, ProposedStays
  <1>5. opGate' \in Gates /\ Turns' /\ Seats'
    BY <1>0, <1>2, SameTurns
  <1>6. GuestsTypeOK'
    BY <1>0, <1>1, <1>4, <1>5 DEF GuestsTypeOK
  <1>7. Counted' /\ NothingStale' /\ ExecutedOnce'
    BY <1>0 DEF GuestsInv, Counted, NothingStale, ExecutedOnce
  <1> QED BY <1>3, <1>4, <1>5, <1>6, <1>7 DEF GuestsInv

LEMMA PublishCatalogInv ==
  ASSUME GuestsInv, NEW changes, PublishCatalog(changes)
  PROVE  GuestsInv'
  <1>0. /\ life = "wait" /\ Holds("life") /\ life' = "idle" /\ published' = published + 1 /\ opGate' = Tail(opGate)
        /\ catalog' = IF changes THEN catalog + 1 ELSE catalog
        /\ UNCHANGED <<computeEpoch, slot, guest, pending, confirm>>
        /\ UNCHANGED <<accountSession, serial, grant, setting, executed, stale>>
        /\ GuestsTypeOK /\ published \in Nat /\ catalog \in Nat
    BY DEF PublishCatalog, lifeRest, GuestsInv, GuestsTypeOK
  <1>1. confirm.step = "idle" /\ \A h \in Guests : guest[h].step \notin {"locked", "captured", "leased"}
    <2>1. \A h \in Guests \cup {"confirm"} : ~Holds(h)
      BY <1>0, GuestAssumption DEF Holds
    <2> QED BY <2>1 DEF GuestsInv, Turns, Admitting
  <1>2. opGate' \in Gates /\ Turns'
    BY <1>0, <1>1, PopTurns
  <1>3. \A h \in Guests : Tracked(h)'
    <2> TAKE h \in Guests
    <2>0. Tracked(h) /\ guest[h].seen \in Nat /\ guest[h].seen <= published
      BY <1>0, GuestTypes DEF GuestsInv, Tracked
    <2>1. guest[h].seen <= published' /\ published' > guest[h].seen
      BY <1>0, <2>0
    <2>2. Past(guest[h].b)' /\ (guest'[h].old => Overtaken(guest[h].b, guest[h].g.intent)')
      BY <1>0, <2>0 DEF Tracked, Past, Overtaken
    <2>3. Running(h)' => Running(h) /\ guest[h].step \in Holding
      BY <1>0 DEF Running, Holding
    <2>4. guest[h].kind = "compute" /\ Running(h)' => guest[h].cancel /\ guest[h].b.epoch < computeEpoch
      BY <1>0, <2>0, <2>3 DEF Tracked
    <2> QED BY <1>0, <1>1, <2>0, <2>1, <2>2, <2>4 DEF Tracked
  <1>4. Proposed' /\ PendingOK'
    BY <1>0, ProposedStays
  <1>5. catalog' \in Nat /\ published' \in Nat
    BY <1>0
  <1>6. GuestsTypeOK'
    BY <1>0, <1>2, <1>4, <1>5 DEF GuestsTypeOK
  <1>7. Seats' /\ Counted' /\ NothingStale' /\ ExecutedOnce'
    BY <1>0 DEF GuestsInv, Seats, Counted, NothingStale, ExecutedOnce
  <1> QED BY <1>2, <1>3, <1>4, <1>6, <1>7 DEF GuestsInv

LEMMA SessionChangesInv ==
  ASSUME GuestsInv, SessionChanges
  PROVE  GuestsInv'
  <1>0. /\ accountSession < MaxSession /\ accountSession' = accountSession + 1 /\ guest' = Outdated(Workflows)
        /\ pending' = OldPending(pending) /\ (opGate = <<>> \/ Holds("life") \/ Holds("grants"))
        /\ UNCHANGED <<opGate, computeEpoch, catalog, slot, life, serial, grant, setting, confirm, executed, published, stale>>
        /\ GuestsTypeOK /\ MaxSession \in Nat /\ accountSession \in 1..MaxSession
    BY LimitAssumption DEF SessionChanges, GuestsInv, GuestsTypeOK
  <1>1. /\ grant \in Grants /\ grant.intent \in Nat /\ computeEpoch \in Nat /\ accountSession \in Nat
    BY <1>0, GrantNumbers, NumberFacts
  <1>2. /\ computeEpoch' \in Nat /\ accountSession' \in Nat /\ computeEpoch <= computeEpoch' /\ accountSession <= accountSession'
        /\ grant' \in Grants /\ grant.intent <= grant'.intent /\ accountSession < accountSession' /\ accountSession' \in 1..MaxSession
    BY <1>0, <1>1
  <1>3. /\ guest' \in [Guests -> GuestRecs] /\ \A h \in Guests : guest'[h].step = guest[h].step
    BY <1>0, OutdatedFacts
  <1>4. confirm.step = "idle"
    <2>1. ~Holds("confirm")
      BY <1>0 DEF Holds
    <2> QED BY <2>1 DEF GuestsInv, Turns
  <1>5. opGate' \in Gates /\ Turns' /\ Seats'
    BY <1>0, <1>3, SameTurns
  <1>6. \A h \in Guests : Tracked(h)'
    <2> TAKE h \in Guests
    <2>1. guest[h].b.sess < accountSession'
      <3>1. guest[h].b.sess <= accountSession
        BY DEF GuestsInv, Tracked, Past
      <3>2. guest[h].b.sess \in Nat
        BY <1>0, GuestTypes
      <3> QED BY <1>0, <1>1, <3>1, <3>2
    <2>2. Workflows \in SUBSET Engaged /\ (grant # NoGrant => grant' # NoGrant)
      BY <1>0 DEF Workflows
    <2>3. h \in Workflows => guest[h].kind # "compute"
      BY DEF Workflows
    <2> QED BY <1>0, <1>2, <2>1, <2>2, <2>3, TrackedOutdated
  <1>7. Proposed'
    <2>1. /\ \A q \in pending' : Offered(q)'
          /\ \A q, r \in pending' : q.id = r.id => q = r
      BY <1>0, <1>2, <1>3, OldPendingOffered
    <2>2. \A x \in Guests : Executed(x)' => guest'[x].step = "gone"
      BY <1>0, <1>3 DEF GuestsInv, Proposed, Executed
    <2>3. confirm'.step # "taken"
      BY <1>0, <1>4
    <2> QED BY <2>1, <2>2, <2>3 DEF Proposed
  <1>8. PendingOK' /\ (pending' = {} <=> pending = {})
    BY <1>0, OldPendingOK
  <1>9. GuestsTypeOK'
    BY <1>0, <1>2, <1>3, <1>5, <1>8 DEF GuestsTypeOK
  <1>10. Counted'
    BY <1>0, <1>8 DEF GuestsInv, Counted
  <1>11. NothingStale' /\ ExecutedOnce'
    BY <1>0 DEF GuestsInv, NothingStale, ExecutedOnce
  <1> QED BY <1>5, <1>6, <1>7, <1>9, <1>10, <1>11 DEF GuestsInv

-----------------------------------------------------------------------------
LEMMA GuestsNextInv == GuestsInv /\ [GuestsNext]_guestsVars => GuestsInv'
  <1> SUFFICES ASSUME GuestsInv, [GuestsNext]_guestsVars PROVE GuestsInv'
    OBVIOUS
  <1>1. ASSUME NEW g \in Guests,
               \/ ReadEpoch(g) \/ TryGate(g) \/ CaptureCompute(g) \/ CaptureWorkflow(g) \/ Lease(g) \/ Launch(g) \/ Abandon(g)
               \/ CancelCompute(g) \/ DeliverCompute(g) \/ NotDelivered(g)
        PROVE  GuestsInv'
    BY <1>1, ReadEpochInv, TryGateInv, CaptureComputeInv, CaptureWorkflowInv, LeaseInv, LaunchInv, AbandonInv,
       CancelComputeInv, DeliverComputeInv, NotDeliveredInv
  <1>2. ASSUME NEW g \in Guests,
               \/ \E ok \in BOOLEAN : WorkerEnds(g, ok)
               \/ \E whole \in SnapshotOutcomes : Snapshot(g, whole)
               \/ \E trades \in BOOLEAN : DeliverWorkflow(g, trades)
        PROVE  GuestsInv'
    BY <1>2, WorkerEndsInv, LaunchInv, DeliverWorkflowInv
  <1>3. CASE \/ GetAccess \/ AcceptIntent \/ EnterGrants \/ Execute \/ Receipt
             \/ \E rev \in {0, grant.rev}, caps \in BOOLEAN : ReserveGrants(rev, caps)
             \/ \E p \in pending : TakeProposal(p) \/ Expire(p)
    BY <1>3, GetAccessInv, AcceptIntentInv, EnterGrantsInv, ExecuteInv, ReceiptInv, ReserveGrantsInv, TakeProposalInv, ExpireInv
  <1>4. CASE \/ BeginLife \/ ReserveGate \/ Bump \/ Invalidate \/ \E changes \in BOOLEAN : PublishCatalog(changes)
             \/ SessionChanges
    BY <1>4, BeginLifeInv, ReserveGateInv, BumpInv, InvalidateInv, PublishCatalogInv, SessionChangesInv
  <1>5. CASE UNCHANGED guestsVars
    <2>1. /\ UNCHANGED <<opGate, computeEpoch, catalog, slot, guest, life, accountSession>>
          /\ UNCHANGED <<serial, grant, pending, setting, confirm, executed, published, stale>>
      BY <1>5 DEF guestsVars, flow
    <2>2. Grown
      BY <2>1, SameGrown
    <2>3. opGate' \in Gates /\ Turns'
      BY <2>1, SameTurns
    <2>4. setting' \in SettingRecs /\ confirm' \in ConfirmRecs
      BY <2>1 DEF GuestsInv, GuestsTypeOK
    <2> QED BY <2>1, <2>2, <2>3, <2>4, FlowStep
  <1> QED BY <1>1, <1>2, <1>3, <1>4, <1>5 DEF GuestsNext

\* While guests run (plugin/runtime/{compute,workflow}.rs, plugin/compute/slot.rs): one guest runs at
\* a time and the slot names it, no result and no proposal is used after a lifecycle operation, a
\* change of session or a change of its grant has overtaken it, no guest is cancelled for nothing,
\* compute that outlives a lifecycle operation cannot deliver, and a proposal is executed once.
THEOREM GuestsAreSafe == GuestsSpec => []GuestsSafe
  <1>1. GuestsInv => GuestsSafe
    <2> SUFFICES ASSUME GuestsInv PROVE GuestsSafe
      OBVIOUS
    <2>1. OneGuest
      BY DEF GuestsInv, Seats, OneGuest, Running, Holding
    <2>2. NoStrayCancel
      BY DEF GuestsInv, Tracked, NoStrayCancel, Running, Holding
    <2>3. NoneCrosses
      BY DEF GuestsInv, Tracked, NoneCrosses
    <2> QED BY <2>1, <2>2, <2>3 DEF GuestsInv, GuestsSafe
  <1> QED BY <1>1, GuestsInitInv, GuestsNextInv, PTL DEF GuestsSpec

-----------------------------------------------------------------------------
(***************************************************************************)
(* ManagedPlugins                                                          *)
(***************************************************************************)
\* The values of the registry's parts; a class and a count are what Classes and
\* Counts make of an index and a scan.
Places == {"none", "new", "stage", "local", "quar", "gone"}
Shapes == {"full", "receipt", "empty"}
Packages == [at : Places, kind : {"ours", "external", "copy", "edited", "broken"}, shape : Shapes]
Index == [Objs -> {"none", "managed", "removing"}]
Decisions == [Ids -> [fp : {0, 1, 2}, on : BOOLEAN]]
Photos == [local : BOOLEAN, quar : BOOLEAN, p : [Objs -> Packages]]
Trust == {"ok", "rewrite", "down"}
ClassMaps == [Ids -> {"none", "external", "conflict", "pending", "managed", "unavailable"}]
Sums == [up : BOOLEAN, conflicts : Nat, rollback : Nat, cleanup : Nat]
Registries == [idx : Index, own : Trust, st : Decisions, sto : Trust, gen : {0, 1, 2},
               scan : Photos, cls : ClassMaps, sum : Sums, unrec : BOOLEAN]
Docs(V) == [cur : V, bak : SUBSET V, bad : BOOLEAN]
Disks == [idx : Docs(Index), st : Docs(Decisions)]
Ops == [pc : {"idle", "load", "rewrite", "converge", "apply", "stage", "disable", "promote", "register",
              "postscan", "off", "mark", "rename", "look", "delete", "forget", "rollback"},
        kind : {"none", "reload", "import", "published", "removal"},
        o : Objs \cup {0}, base : Registries, cand : Registries, scan : Photos, todo : SUBSET Objs,
        sure : BOOLEAN, clean : {"none", "removed", "absent", "conflict"} \cup Shapes]

PluginsTypeOK ==
    /\ pkg \in [Objs -> Packages] /\ pdur \in [Objs -> Packages]
    /\ disk \in Disks /\ ddur \in Disks
    /\ mem \in Registries /\ op \in Ops
    /\ consent \in [Ids -> BOOLEAN] /\ undone \in BOOLEAN /\ loose \subseteq Objs /\ lost \in BOOLEAN
    /\ op.pc # "idle" /\ op.kind \in {"import", "published", "removal"} => op.o \in Objs
    /\ op.pc \in {"stage", "disable", "promote", "register", "postscan"} => op.kind = "import"
    /\ op.pc \in {"off", "mark", "rename", "look", "delete", "forget", "rollback"} <=> op.kind = "removal"
    /\ op.pc \in {"load", "rewrite", "converge", "apply"} => op.kind \in {"reload", "import", "published"}
    /\ (op.pc = "converge" => op.todo # {}) /\ (op.pc = "forget" => op.clean # "none")
-----------------------------------------------------------------------------
LEMMA DocumentsFields ==
  ASSUME NEW r \in Registries, NEW c \in Registries
  PROVE  /\ Documents(r, c) \in Registries
         /\ Documents(r, c).idx = c.idx /\ Documents(r, c).own = c.own
         /\ Documents(r, c).st = c.st /\ Documents(r, c).sto = c.sto
         /\ Documents(r, c).gen = r.gen /\ Documents(r, c).scan = r.scan
         /\ Documents(r, c).cls = r.cls /\ Documents(r, c).sum = r.sum
         /\ Documents(r, c).unrec = r.unrec
  BY DEF Documents, Registries

LEMMA FlagField ==
  ASSUME NEW r \in Registries, NEW b \in BOOLEAN
  PROVE  LET f == [r EXCEPT !.unrec = b]
         IN  /\ f \in Registries
             /\ f.idx = r.idx /\ f.own = r.own /\ f.st = r.st /\ f.sto = r.sto
             /\ f.gen = r.gen /\ f.scan = r.scan /\ f.cls = r.cls /\ f.sum = r.sum
             /\ f.unrec = b
  BY DEF Registries

LEMMA NumberField ==
  ASSUME NEW r \in Registries, NEW g \in {0, 1, 2}
  PROVE  LET f == [r EXCEPT !.gen = g]
         IN  /\ f \in Registries
             /\ f.idx = r.idx /\ f.own = r.own /\ f.st = r.st /\ f.sto = r.sto
             /\ f.gen = g /\ f.scan = r.scan /\ f.cls = r.cls /\ f.sum = r.sum
             /\ f.unrec = r.unrec
  BY DEF Registries

LEMMA StateFields ==
  ASSUME NEW r \in Registries, NEW t \in [st : Decisions, sto : Trust]
  PROVE  LET f == WithState(r, t)
         IN  /\ f \in Registries
             /\ f.idx = r.idx /\ f.own = r.own /\ f.st = t.st /\ f.sto = t.sto
             /\ f.gen = r.gen /\ f.scan = r.scan /\ f.cls = r.cls /\ f.sum = r.sum
             /\ f.unrec = r.unrec
  BY DEF Registries, WithState
-----------------------------------------------------------------------------
Indexed == [idx : Index, own : Trust]
Stated == [st : Decisions, sto : Trust]

LEMMA ConstantTypes ==
  /\ Nothing \in Packages /\ NoEntries \in Index /\ NoState \in Decisions /\ NoScan \in Photos
  /\ NoClasses \in ClassMaps /\ NoCounts \in Sums /\ Down \in Sums
  BY DEF Nothing, Packages, Places, Shapes, NoEntries, Index, NoState, Decisions, NoScan, Photos, ClassMaps, Sums,
     NoClasses, NoCounts, Down

LEMMA CountsType ==
  ASSUME NEW x, NEW s
  PROVE  Counts(x, s) \in Sums /\ Counts(x, s).up = TRUE
  <1>1. /\ IsFiniteSet(Disputed(x, s)) /\ IsFiniteSet(Unproven(x, s)) /\ IsFiniteSet(Orphans(x, s))
        /\ IsFiniteSet(Restorable(x, s)) /\ IsFiniteSet(Vanished(x, s) \cup Residue(x, s))
        /\ IsFiniteSet(Removing(x, s) \ (Restorable(x, s) \cup Vanished(x, s) \cup Residue(x, s)))
    <2>1. \A S : S \subseteq Objs => IsFiniteSet(S)
      BY PackageAssumption, FS_Subset
    <2>2. Removing(x, s) \subseteq Objs
      BY DEF Removing
    <2> QED BY <2>1, <2>2 DEF Disputed, Unproven, Orphans, Restorable, Vanished, Residue
  <1> DEFINE a == Cardinality(Disputed(x, s))
             b == Cardinality(Unproven(x, s))
             c == Cardinality(Removing(x, s) \ (Restorable(x, s) \cup Vanished(x, s) \cup Residue(x, s)))
             d == Cardinality(Orphans(x, s))
             e == Cardinality(Restorable(x, s))
             f == Cardinality(Vanished(x, s) \cup Residue(x, s))
  <1>2. a \in Nat /\ b \in Nat /\ c \in Nat /\ d \in Nat /\ e \in Nat /\ f \in Nat
    BY <1>1, FS_CardinalityType
  <1>3. Counts(x, s) = [up |-> TRUE, conflicts |-> a + b + c + d, rollback |-> e, cleanup |-> f]
    BY DEF Counts
  <1> HIDE DEF a, b, c, d, e, f
  <1> QED BY <1>2, <1>3 DEF Sums

LEMMA ClassesType ==
  ASSUME NEW up, NEW x, NEW s
  PROVE  Classes(up, x, s) \in ClassMaps
  <1>1. \A o : ClassOf(x, s, o) \in {"external", "conflict", "pending", "managed"}
    BY DEF ClassOf
  <1>2. \A o : BlindClass(s, o) \in {"external", "unavailable"}
    BY DEF BlindClass
  <1> QED BY <1>1, <1>2 DEF Classes, ClassMaps

LEMMA BootedFields ==
  ASSUME NEW x \in Indexed, NEW t \in Stated
  PROVE  LET f == Booted(x, t)
         IN  /\ f \in Registries
             /\ f.idx = x.idx /\ f.own = x.own /\ f.st = t.st /\ f.sto = t.sto
             /\ f.gen = 0 /\ f.scan = NoScan /\ f.cls = NoClasses /\ f.unrec = FALSE
             /\ f.sum = IF x.own = "ok" THEN NoCounts ELSE Down
  BY ConstantTypes DEF Booted, Registries, Indexed, Stated

LEMMA LoadIndexFields ==
  ASSUME NEW d \in Docs(Index)
  PROVE  /\ LoadIndex(d) \in Indexed
         /\ LoadIndex(d).own = "ok" => ~d.bad /\ LoadIndex(d).idx = d.cur
         /\ LoadIndex(d).own = "rewrite" => d.bad /\ LoadIndex(d).idx \in d.bak
         /\ LoadIndex(d).own = "down" => LoadIndex(d).idx = NoEntries
  <1>1. CASE ~Loadable(d)
    BY <1>1, ConstantTypes DEF LoadIndex, Loadable, Version, Docs, Indexed, Trust
  <1>2. CASE Loadable(d) /\ d.bad
    <2>1. Version(d) \in d.bak /\ Version(d) \in Index
      BY <1>2 DEF Loadable, Version, Docs
    <2> QED BY <1>2, <2>1 DEF LoadIndex, Indexed, Trust
  <1>3. CASE Loadable(d) /\ ~d.bad
    BY <1>3 DEF LoadIndex, Loadable, Version, Docs, Indexed, Trust
  <1> QED BY <1>1, <1>2, <1>3

LEMMA LoadStateFields ==
  ASSUME NEW d \in Docs(Decisions)
  PROVE  /\ LoadState(d) \in Stated
         /\ LoadState(d).sto = "ok" => ~d.bad /\ LoadState(d).st = d.cur
         /\ d.bad => \A i \in Ids : ~LoadState(d).st[i].on
         /\ LoadState(d).sto = "down" => LoadState(d).st = NoState
  <1>1. CASE ~Loadable(d)
    <2>1. LoadState(d) = [st |-> NoState, sto |-> "down"]
      BY <1>1 DEF LoadState
    <2>2. NoState \in Decisions /\ \A i \in Ids : ~NoState[i].on
      BY ConstantTypes DEF NoState
    <2> QED BY <2>1, <2>2 DEF Stated, Trust
  <1>2. CASE Loadable(d) /\ d.bad
    <2>1. Version(d) \in Decisions
      BY <1>2 DEF Loadable, Version, Docs
    <2>2. AllOff(Version(d)) \in Decisions /\ \A i \in Ids : ~AllOff(Version(d))[i].on
      BY <2>1 DEF AllOff, Decisions
    <2>3. LoadState(d) = [st |-> AllOff(Version(d)), sto |-> "rewrite"]
      BY <1>2 DEF LoadState
    <2> QED BY <1>2, <2>2, <2>3 DEF Stated, Trust
  <1>3. CASE Loadable(d) /\ ~d.bad
    BY <1>3 DEF LoadState, Loadable, Docs, Stated, Trust
  <1> QED BY <1>1, <1>2, <1>3

LEMMA PhotoFields ==
  ASSUME PluginsTypeOK, NEW l \in BOOLEAN, NEW q \in BOOLEAN
  PROVE  /\ Photo(l, q) \in Photos /\ Photo(l, q).local = l /\ Photo(l, q).quar = q
         /\ \A o \in Objs : Photo(l, q).p[o] =
              IF (pkg[o].at = "local" /\ l) \/ (pkg[o].at = "quar" /\ q) THEN pkg[o] ELSE Nothing
  <1> DEFINE P == [o \in Objs |-> IF (pkg[o].at = "local" /\ l) \/ (pkg[o].at = "quar" /\ q)
                                 THEN pkg[o] ELSE Nothing]
  <1>1. P \in [Objs -> Packages]
    BY ConstantTypes DEF PluginsTypeOK
  <1>2. Photo(l, q) = [local |-> l, quar |-> q, p |-> P]
    BY DEF Photo
  <1>3. \A o \in Objs : P[o] = IF (pkg[o].at = "local" /\ l) \/ (pkg[o].at = "quar" /\ q)
                                THEN pkg[o] ELSE Nothing
    OBVIOUS
  <1> HIDE DEF P
  <1> QED BY <1>1, <1>2, <1>3 DEF Photos

LEMMA ScansType ==
  ASSUME PluginsTypeOK, NEW s \in Scans
  PROVE  s.v \in Photos /\ \E l \in BOOLEAN, q \in BOOLEAN : s.v = Photo(l, q)
  <1> DEFINE a == Photo(TRUE, TRUE)
             b == Photo(TRUE, FALSE)
             c == Photo(FALSE, TRUE)
  <1>1. a \in Photos /\ b \in Photos /\ c \in Photos
    BY PhotoFields
  <1>2. s \in {[v |-> a, cost |-> 0], [v |-> c, cost |-> 1], [v |-> b, cost |-> 1]}
    BY DEF Scans
  <1>3. s.v \in Photos /\ (s.v = a \/ s.v = b \/ s.v = c)
    <2> HIDE DEF a, b, c
    <2> QED BY <1>1, <1>2
  <1> QED BY <1>3

LEMMA NoOpFields ==
  /\ NoOp \in Ops /\ NoOp.pc = "idle" /\ NoOp.kind = "none" /\ NoOp.o = 0 /\ NoOp.todo = {}
  /\ NoOp.sure = TRUE /\ NoOp.clean = "none" /\ NoOp.scan = NoScan
  /\ NoOp.cand.idx = NoEntries /\ NoOp.cand.st = NoState /\ NoOp.cand.own = "ok" /\ NoOp.cand.sto = "ok"
  <1>1. Empty(NoEntries) \in Docs(Index) /\ Empty(NoState) \in Docs(Decisions)
    BY ConstantTypes DEF Empty, Docs
  <1>2. LoadIndex(Empty(NoEntries)) = [idx |-> NoEntries, own |-> "ok"]
    BY DEF LoadIndex, Loadable, Version, Empty
  <1>3. LoadState(Empty(NoState)) = [st |-> NoState, sto |-> "ok"]
    BY DEF LoadState, Loadable, Version, Empty
  <1> DEFINE b == Booted(LoadIndex(Empty(NoEntries)), LoadState(Empty(NoState)))
  <1>4. b \in Registries /\ b.idx = NoEntries /\ b.st = NoState /\ b.own = "ok" /\ b.sto = "ok"
    <2>1. LoadIndex(Empty(NoEntries)) \in Indexed /\ LoadState(Empty(NoState)) \in Stated
      BY <1>1, LoadIndexFields, LoadStateFields
    <2> DEFINE x == LoadIndex(Empty(NoEntries))
               t == LoadState(Empty(NoState))
    <2>2. x.idx = NoEntries /\ x.own = "ok" /\ t.st = NoState /\ t.sto = "ok"
      BY <1>2, <1>3
    <2>3. x \in Indexed /\ t \in Stated
      BY <2>1
    <2> HIDE DEF x, t
    <2>4. /\ Booted(x, t) \in Registries /\ Booted(x, t).idx = x.idx /\ Booted(x, t).st = t.st
          /\ Booted(x, t).own = x.own /\ Booted(x, t).sto = t.sto
      BY <2>3, BootedFields
    <2> QED BY <2>2, <2>4 DEF x, t
  <1>5. NoOp = [pc |-> "idle", kind |-> "none", o |-> 0, base |-> b, cand |-> b, scan |-> NoScan,
                todo |-> {}, sure |-> TRUE, clean |-> "none"]
    BY DEF NoOp
  <1> HIDE DEF b
  <1> QED BY <1>4, <1>5, ConstantTypes DEF Ops

LEMMA NoOpType == op' = NoOp => op' \in Ops /\ op'.pc = "idle" /\ op'.kind = "none" /\ op'.o = 0
  BY NoOpFields

LEMMA SavedIndex ==
  ASSUME PluginsTypeOK, NEW v \in Index, NEW out \in Outcomes, Save("idx", v, out)
  PROVE  /\ disk' \in Disks /\ ddur' \in Disks /\ disk'.st = disk.st
         /\ ddur'.st \in {ddur.st, disk.st}
         /\ out = "failed" => disk' = disk /\ ddur' = ddur
         /\ out # "failed" => /\ disk'.idx.cur = v /\ ~disk'.idx.bad
                              /\ disk'.idx.bak \subseteq {disk.idx.cur} \cup disk.idx.bak
         /\ out = "unsynced" => ddur' = disk
         /\ out = "durable" => ddur' = disk'
  <1>1. CASE out = "failed"
    BY <1>1 DEF Save, Committed, PluginsTypeOK
  <1>2. CASE out # "failed"
    <2>1. Loadable(disk.idx) /\ disk.idx \in Docs(Index) /\ disk["idx"] = disk.idx
      BY <1>2 DEF Save, Committed, PluginsTypeOK, Disks
    <2>2. Version(disk.idx) \in {disk.idx.cur} \cup disk.idx.bak
      BY <2>1 DEF Loadable, Version, Docs
    <2> DEFINE b == IF Absent(disk, "idx") THEN {} ELSE {Version(disk["idx"])}
               e == [cur |-> v, bad |-> FALSE, bak |-> b]
    <2>3. b \subseteq {disk.idx.cur} \cup disk.idx.bak /\ b \subseteq Index
      BY <2>1, <2>2 DEF Docs
    <2>4. disk' = [disk EXCEPT !["idx"] = e]
      BY <1>2 DEF Save, Committed, Stored
    <2> HIDE DEF b
    <2>5. e \in Docs(Index)
      BY <2>3 DEF Docs
    <2>6. /\ disk' \in Disks /\ disk'.st = disk.st /\ disk'.idx.cur = v /\ ~disk'.idx.bad
          /\ disk'.idx.bak = b
      BY <2>4, <2>5 DEF PluginsTypeOK, Disks
    <2>7. /\ out = "unsynced" => ddur' = disk
          /\ out = "durable" => ddur' = disk'
      BY <1>2 DEF Save
    <2>8. out \in {"unsynced", "durable"}
      BY <1>2 DEF Outcomes
    <2>9. disk \in Disks
      BY DEF PluginsTypeOK
    <2> QED BY <2>3, <2>6, <2>7, <2>8, <2>9, <1>2
  <1> QED BY <1>1, <1>2

LEMMA SavedState ==
  ASSUME PluginsTypeOK, NEW v \in Decisions, NEW out \in Outcomes, Save("st", v, out)
  PROVE  /\ disk' \in Disks /\ ddur' \in Disks /\ disk'.idx = disk.idx
         /\ ddur'.idx \in {ddur.idx, disk.idx}
         /\ out = "failed" => disk' = disk /\ ddur' = ddur
         /\ out # "failed" => disk'.st.cur = v /\ ~disk'.st.bad
         /\ out = "unsynced" => ddur' = disk
         /\ out = "durable" => ddur' = disk'
  <1>1. CASE out = "failed"
    BY <1>1 DEF Save, Committed, PluginsTypeOK
  <1>2. CASE out # "failed"
    <2>1. Loadable(disk.st) /\ disk.st \in Docs(Decisions) /\ disk["st"] = disk.st
      BY <1>2 DEF Save, Committed, PluginsTypeOK, Disks
    <2>2. Version(disk.st) \in {disk.st.cur} \cup disk.st.bak
      BY <2>1 DEF Loadable, Version, Docs
    <2> DEFINE b == IF Absent(disk, "st") THEN {} ELSE {Version(disk["st"])}
               e == [cur |-> v, bad |-> FALSE, bak |-> b]
    <2>3. b \subseteq Decisions
      BY <2>1, <2>2 DEF Docs
    <2>4. disk' = [disk EXCEPT !["st"] = e]
      BY <1>2 DEF Save, Committed, Stored
    <2> HIDE DEF b
    <2>5. e \in Docs(Decisions)
      BY <2>3 DEF Docs
    <2>6. disk' \in Disks /\ disk'.idx = disk.idx /\ disk'.st.cur = v /\ ~disk'.st.bad
      BY <2>4, <2>5 DEF PluginsTypeOK, Disks
    <2>7. /\ out = "unsynced" => ddur' = disk
          /\ out = "durable" => ddur' = disk'
      BY <1>2 DEF Save
    <2>8. out \in {"unsynced", "durable"}
      BY <1>2 DEF Outcomes
    <2>9. disk \in Disks
      BY DEF PluginsTypeOK
    <2> QED BY <2>6, <2>7, <2>8, <2>9, <1>2
  <1> QED BY <1>1, <1>2
-----------------------------------------------------------------------------
LEMMA IndexField ==
  ASSUME NEW r \in Registries, NEW x \in Index, NEW w \in Trust
  PROVE  LET f == [r EXCEPT !.idx = x, !.own = w]
         IN  /\ f \in Registries
             /\ f.idx = x /\ f.own = w /\ f.st = r.st /\ f.sto = r.sto
             /\ f.gen = r.gen /\ f.scan = r.scan /\ f.cls = r.cls /\ f.sum = r.sum
             /\ f.unrec = r.unrec
  BY DEF Registries

LEMMA EntriesField ==
  ASSUME NEW r \in Registries, NEW x \in Index
  PROVE  LET f == [r EXCEPT !.idx = x]
         IN  /\ f \in Registries
             /\ f.idx = x /\ f.own = r.own /\ f.st = r.st /\ f.sto = r.sto
             /\ f.gen = r.gen /\ f.scan = r.scan /\ f.cls = r.cls /\ f.sum = r.sum
             /\ f.unrec = r.unrec
  BY DEF Registries

LEMMA OwnField ==
  ASSUME NEW r \in Registries, NEW w \in Trust
  PROVE  LET f == [r EXCEPT !.own = w]
         IN  /\ f \in Registries
             /\ f.idx = r.idx /\ f.own = w /\ f.st = r.st /\ f.sto = r.sto
             /\ f.gen = r.gen /\ f.scan = r.scan /\ f.cls = r.cls /\ f.sum = r.sum
             /\ f.unrec = r.unrec
  BY DEF Registries

LEMMA ReconciledFields ==
  ASSUME NEW r \in Registries, NEW s \in Photos
  PROVE  LET f == Reconciled(r, s)
             up == Readable(s) /\ r.own = "ok"
         IN  /\ f \in Registries
             /\ f.idx = r.idx /\ f.own = (IF Readable(s) /\ r.own = "rewrite" THEN "down" ELSE r.own)
             /\ f.st = r.st /\ f.sto = r.sto
             /\ f.gen = r.gen /\ f.scan = s /\ f.unrec = r.unrec
             /\ f.cls = Classes(up, r.idx, s)
             /\ f.sum = IF up THEN Counts(r.idx, s) ELSE Down
  <1> DEFINE up == Readable(s) /\ r.own = "ok"
             w  == IF Readable(s) /\ r.own = "rewrite" THEN "down" ELSE r.own
             k  == Classes(up, r.idx, s)
             n  == IF up THEN Counts(r.idx, s) ELSE Down
  <1>1. r.idx \in Index /\ r.own \in Trust /\ up \in BOOLEAN
    BY DEF Registries
  <1>2. k \in ClassMaps
    BY ClassesType
  <1>3. n \in Sums
    BY CountsType, ConstantTypes
  <1>4. w \in Trust
    BY <1>1 DEF Trust
  <1>5. Reconciled(r, s) = [r EXCEPT !.own = w, !.scan = s, !.cls = k, !.sum = n]
    BY DEF Reconciled, Registries
  <1> HIDE DEF w, k, n
  <1>6. LET f == [r EXCEPT !.own = w, !.scan = s, !.cls = k, !.sum = n]
        IN  /\ f \in Registries
            /\ f.idx = r.idx /\ f.own = w /\ f.st = r.st /\ f.sto = r.sto
            /\ f.gen = r.gen /\ f.scan = s /\ f.unrec = r.unrec /\ f.cls = k /\ f.sum = n
    BY <1>2, <1>3, <1>4 DEF Registries
  <1> QED BY <1>5, <1>6 DEF w, k, n

LEMMA SameStructure ==
  ASSUME NEW r, NEW c, r.scan = c.scan, r.cls = c.cls, r.sum = c.sum, r.own = c.own, r.idx = c.idx, r.sto = c.sto
  PROVE  Structure(r) = Structure(c)
  BY DEF Structure

LEMMA StructureFields ==
  ASSUME NEW r, NEW c, Structure(r) = Structure(c)
  PROVE  /\ r.scan = c.scan /\ r.cls = c.cls /\ r.sum = c.sum
         /\ (r.own = "down") = (c.own = "down") /\ (r.sto = "down") = (c.sto = "down")
         /\ r.own # "down" => r.idx = c.idx
  BY DEF Structure

LEMMA RenumberedFields ==
  ASSUME NEW old \in Registries, NEW next \in Registries
  PROVE  LET f == Renumbered(old, next)
         IN  /\ f \in Registries
             /\ f.idx = next.idx /\ f.own = next.own /\ f.st = next.st /\ f.sto = next.sto
             /\ f.scan = next.scan /\ f.cls = next.cls /\ f.sum = next.sum /\ f.unrec = next.unrec
             /\ f.gen = IF Structure(next) # Structure(old) THEN NextNumber(old.gen) ELSE next.gen
  <1>1. NextNumber(old.gen) \in {0, 1, 2}
    BY DEF NextNumber
  <1>2. CASE Structure(next) # Structure(old)
    BY <1>1, <1>2, NumberField DEF Renumbered
  <1>3. CASE Structure(next) = Structure(old)
    BY <1>3 DEF Renumbered
  <1> QED BY <1>2, <1>3

LEMMA AdoptRemovalFields ==
  ASSUME NEW r \in Registries, NEW c \in Registries
  PROVE  LET f == AdoptRemoval(r, c)
         IN  /\ f \in Registries
             /\ f.idx = c.idx /\ f.own = c.own /\ f.st = c.st /\ f.sto = c.sto
             /\ f.gen = r.gen /\ f.scan = r.scan /\ f.cls = r.cls /\ f.sum = r.sum
             /\ f.unrec = (r.unrec \/ Entries(r) # Entries(c))
  <1> DEFINE b == r.unrec \/ Entries(r) # Entries(c)
  <1>1. b \in BOOLEAN
    OBVIOUS
  <1> DEFINE d == Documents(r, c)
             f == AdoptRemoval(r, c)
  <1>2. f = [d EXCEPT !.unrec = b]
    BY DocumentsFields DEF AdoptRemoval
  <1>3. /\ d \in Registries /\ d.idx = c.idx /\ d.own = c.own /\ d.st = c.st /\ d.sto = c.sto
        /\ d.gen = r.gen /\ d.scan = r.scan /\ d.cls = r.cls /\ d.sum = r.sum
    BY DocumentsFields
  <1>4. /\ f \in Registries /\ f.idx = d.idx /\ f.own = d.own /\ f.st = d.st /\ f.sto = d.sto
        /\ f.gen = d.gen /\ f.scan = d.scan /\ f.cls = d.cls /\ f.sum = d.sum /\ f.unrec = b
    <2> HIDE DEF b, d, f
    <2> QED BY <1>1, <1>2, <1>3, FlagField
  <1> QED BY <1>3, <1>4

LEMMA AdoptImportFields ==
  ASSUME NEW r \in Registries, NEW c \in Registries
  PROVE  LET f == AdoptImport(r, c)
         IN  /\ f \in Registries
             /\ f.idx = c.idx /\ f.own = c.own /\ f.st = c.st /\ f.sto = c.sto
             /\ f.gen = r.gen /\ f.scan = r.scan /\ f.cls = r.cls /\ f.sum = r.sum
             /\ f.unrec = (r.unrec \/ Entries(r) # Entries(c) \/ r.st # c.st)
  <1> DEFINE b == r.unrec \/ Entries(r) # Entries(c) \/ r.st # c.st
  <1>1. b \in BOOLEAN
    OBVIOUS
  <1> DEFINE d == Documents(r, c)
             f == AdoptImport(r, c)
  <1>2. f = [d EXCEPT !.unrec = b]
    BY DocumentsFields DEF AdoptImport
  <1>3. /\ d \in Registries /\ d.idx = c.idx /\ d.own = c.own /\ d.st = c.st /\ d.sto = c.sto
        /\ d.gen = r.gen /\ d.scan = r.scan /\ d.cls = r.cls /\ d.sum = r.sum
    BY DocumentsFields
  <1>4. /\ f \in Registries /\ f.idx = d.idx /\ f.own = d.own /\ f.st = d.st /\ f.sto = d.sto
        /\ f.gen = d.gen /\ f.scan = d.scan /\ f.cls = d.cls /\ f.sum = d.sum /\ f.unrec = b
    <2> HIDE DEF b, d, f
    <2> QED BY <1>1, <1>2, <1>3, FlagField
  <1> QED BY <1>3, <1>4

LEMMA PublishOnceFields ==
  ASSUME NEW base \in Registries, NEW next \in Registries
  PROVE  LET f == PublishOnce(base, next)
         IN  /\ f \in Registries
             /\ f.idx = next.idx /\ f.own = next.own /\ f.st = next.st /\ f.sto = next.sto
             /\ f.scan = next.scan /\ f.cls = next.cls /\ f.sum = next.sum /\ f.unrec = base.unrec
             /\ f.gen = IF Structure(next) # Structure(base) THEN NextNumber(base.gen) ELSE next.gen
  <1>1. base.unrec \in BOOLEAN
    BY DEF Registries
  <1> DEFINE g == Renumbered(base, next)
  <1>2. PublishOnce(base, next) = [g EXCEPT !.unrec = base.unrec]
    BY DEF PublishOnce
  <1>3. g \in Registries
    BY RenumberedFields
  <1>4. /\ g.idx = next.idx /\ g.own = next.own /\ g.st = next.st /\ g.sto = next.sto
        /\ g.scan = next.scan /\ g.cls = next.cls /\ g.sum = next.sum
        /\ g.gen = IF Structure(next) # Structure(base) THEN NextNumber(base.gen) ELSE next.gen
    BY RenumberedFields
  <1> HIDE DEF g
  <1> QED BY <1>1, <1>2, <1>3, <1>4, FlagField

\* What a scan makes of a candidate.
Renewed(t) == WithState(Reconciled(op.cand, op.scan), t)
LEMMA AppliedFields ==
  ASSUME PluginsTypeOK, NEW t \in Stated
  PROVE  LET f == Applied(t)
             n == Renewed(t)
         IN  /\ f \in Registries /\ n \in Registries
             /\ f.idx = n.idx /\ f.own = n.own /\ f.st = n.st /\ f.sto = n.sto
             /\ f.scan = n.scan /\ f.cls = n.cls /\ f.sum = n.sum
             /\ n.idx = op.cand.idx /\ n.st = t.st /\ n.sto = t.sto /\ n.scan = op.scan
             /\ n.own = (IF Readable(op.scan) /\ op.cand.own = "rewrite" THEN "down" ELSE op.cand.own)
             /\ n.cls = Classes(Readable(op.scan) /\ op.cand.own = "ok", op.cand.idx, op.scan)
             /\ n.sum = (IF Readable(op.scan) /\ op.cand.own = "ok" THEN Counts(op.cand.idx, op.scan) ELSE Down)
             /\ n.gen = op.cand.gen
             /\ f.gen = (IF op.base.gen = 0 THEN 1
                         ELSE IF Structure(n) # Structure(op.base) THEN NextNumber(op.base.gen) ELSE op.cand.gen)
             /\ f.unrec = (op.cand.unrec /\ ~(Readable(op.scan) /\ n.own = "ok"))
  <1>1. op.cand \in Registries /\ op.base \in Registries /\ op.scan \in Photos
    BY DEF PluginsTypeOK, Ops
  <1> DEFINE m == Reconciled(op.cand, op.scan)
             n == Renewed(t)
             g == IF op.base.gen = 0 THEN [n EXCEPT !.gen = 1] ELSE Renumbered(op.base, n)
             b == g.unrec /\ ~(Readable(op.scan) /\ n.own = "ok")
  <1>2. m \in Registries /\ n = WithState(m, t)
    BY <1>1, ReconciledFields DEF Renewed
  <1>3. /\ n \in Registries /\ n.idx = m.idx /\ n.own = m.own /\ n.st = t.st /\ n.sto = t.sto /\ n.gen = m.gen
        /\ n.scan = m.scan /\ n.cls = m.cls /\ n.sum = m.sum /\ n.unrec = m.unrec
    <2> HIDE DEF m, n
    <2>1. t \in [st : Decisions, sto : Trust]
      BY DEF Stated
    <2> QED BY <1>2, <2>1, StateFields
  <1>4. /\ m.idx = op.cand.idx /\ m.scan = op.scan /\ m.gen = op.cand.gen /\ m.unrec = op.cand.unrec
        /\ m.own = (IF Readable(op.scan) /\ op.cand.own = "rewrite" THEN "down" ELSE op.cand.own)
        /\ m.cls = Classes(Readable(op.scan) /\ op.cand.own = "ok", op.cand.idx, op.scan)
        /\ m.sum = (IF Readable(op.scan) /\ op.cand.own = "ok" THEN Counts(op.cand.idx, op.scan) ELSE Down)
    BY <1>1, ReconciledFields
  <1>5. Applied(t) = [g EXCEPT !.unrec = b]
    <2>1. g \in Registries
      BY <1>1, <1>3, NumberField, RenumberedFields
    <2> QED BY <2>1 DEF Applied, Renewed
  <1> HIDE DEF m, n
  <1>6. /\ g \in Registries /\ g.idx = n.idx /\ g.own = n.own /\ g.st = n.st /\ g.sto = n.sto
        /\ g.scan = n.scan /\ g.cls = n.cls /\ g.sum = n.sum /\ g.unrec = n.unrec
        /\ g.gen = (IF op.base.gen = 0 THEN 1
                    ELSE IF Structure(n) # Structure(op.base) THEN NextNumber(op.base.gen) ELSE n.gen)
    <2>1. CASE op.base.gen = 0
      <3> DEFINE k == [n EXCEPT !.gen = 1]
      <3>1. g = k
        BY <2>1
      <3>2. /\ k \in Registries /\ k.idx = n.idx /\ k.own = n.own /\ k.st = n.st /\ k.sto = n.sto
            /\ k.scan = n.scan /\ k.cls = n.cls /\ k.sum = n.sum /\ k.unrec = n.unrec /\ k.gen = 1
        BY <1>3, NumberField
      <3> HIDE DEF k, g
      <3> QED BY <2>1, <3>1, <3>2
    <2>2. CASE op.base.gen # 0
      BY <1>1, <1>3, <2>2, RenumberedFields
    <2> QED BY <2>1, <2>2
  <1>7. b \in BOOLEAN /\ b = (op.cand.unrec /\ ~(Readable(op.scan) /\ n.own = "ok"))
    BY <1>3, <1>4, <1>6 DEF Registries
  <1> HIDE DEF g, b
  <1>8. /\ Applied(t) \in Registries
        /\ Applied(t).idx = g.idx /\ Applied(t).own = g.own /\ Applied(t).st = g.st /\ Applied(t).sto = g.sto
        /\ Applied(t).scan = g.scan /\ Applied(t).cls = g.cls /\ Applied(t).sum = g.sum
        /\ Applied(t).gen = g.gen /\ Applied(t).unrec = b
    <2> DEFINE f == Applied(t)
    <2>1. f = [g EXCEPT !.unrec = b] /\ g \in Registries /\ b \in BOOLEAN
      BY <1>5, <1>6, <1>7
    <2> HIDE DEF f
    <2>2. /\ f \in Registries /\ f.idx = g.idx /\ f.own = g.own /\ f.st = g.st /\ f.sto = g.sto
          /\ f.scan = g.scan /\ f.cls = g.cls /\ f.sum = g.sum /\ f.gen = g.gen /\ f.unrec = b
      BY <2>1, FlagField
    <2> QED BY <2>2 DEF f
  <1>9. /\ n.idx = op.cand.idx /\ n.scan = op.scan /\ n.gen = op.cand.gen
        /\ n.own = (IF Readable(op.scan) /\ op.cand.own = "rewrite" THEN "down" ELSE op.cand.own)
        /\ n.cls = Classes(Readable(op.scan) /\ op.cand.own = "ok", op.cand.idx, op.scan)
        /\ n.sum = (IF Readable(op.scan) /\ op.cand.own = "ok" THEN Counts(op.cand.idx, op.scan) ELSE Down)
    BY <1>3, <1>4
  <1> QED BY <1>3, <1>6, <1>7, <1>8, <1>9 DEF n
-----------------------------------------------------------------------------
\* Every action field by field, and what it leaves in its types.
SameRest(f, r) ==
    /\ f.st = r.st /\ f.sto = r.sto /\ f.gen = r.gen /\ f.scan = r.scan /\ f.cls = r.cls /\ f.sum = r.sum
    /\ f.unrec = r.unrec

SameTypes ==
    /\ pkg' \in [Objs -> Packages] /\ pdur' \in [Objs -> Packages]
    /\ disk' \in Disks /\ ddur' \in Disks
    /\ mem' \in Registries
    /\ consent' \in [Ids -> BOOLEAN] /\ undone' \in BOOLEAN /\ loose' \subseteq Objs /\ lost' \in BOOLEAN

LEMMA EndType ==
  ASSUME SameTypes, End
  PROVE  PluginsTypeOK' /\ op'.pc = "idle" /\ op'.kind = "none"
  BY NoOpFields DEF End, SameTypes, PluginsTypeOK

LEMMA ScannedStep ==
  ASSUME PluginsTypeOK, NEW kind \in {"reload", "import"}, NEW o \in Objs \cup {0}, kind = "import" => o \in Objs,
         Scanned(kind, o), UNCHANGED <<disks, mem, told, shown>>
  PROVE  /\ PluginsTypeOK'
         /\ UNCHANGED <<pkg, pdur, disk, ddur, mem, consent, undone, loose, lost, shown>>
         /\ op'.pc = "load" /\ op'.kind = kind /\ op'.o = o /\ op'.base = mem /\ op'.cand = mem
         /\ \E l \in BOOLEAN, q \in BOOLEAN : op'.scan = Photo(l, q)
  <1>1. UNCHANGED <<pkg, pdur, disk, ddur, mem, consent, undone, loose, lost, shown>>
    BY DEF disks, told
  <1>2. PICK s \in Scans : op' = [NoOp EXCEPT !.pc = "load", !.kind = kind, !.o = o, !.base = mem, !.cand = mem,
                                               !.scan = s.v]
    BY DEF Scanned
  <1>3. s.v \in Photos /\ \E l \in BOOLEAN, q \in BOOLEAN : s.v = Photo(l, q)
    BY ScansType
  <1>4. mem \in Registries
    BY DEF PluginsTypeOK
  <1>5. /\ op' \in Ops /\ op'.pc = "load" /\ op'.kind = kind /\ op'.o = o /\ op'.base = mem /\ op'.cand = mem
        /\ op'.scan = s.v
    BY <1>2, <1>3, <1>4, NoOpFields DEF Ops
  <1>6. PluginsTypeOK'
    BY <1>1, <1>5 DEF PluginsTypeOK
  <1> QED BY <1>1, <1>3, <1>5, <1>6

LEMMA ReconcileFields ==
  ASSUME PluginsTypeOK, NEW r \in Registries, Reconcile(r)
  PROVE  /\ op' \in Ops /\ op'.kind = op.kind /\ op'.o = op.o /\ op'.base = op.base /\ op'.scan = op.scan
         /\ op'.sure = op.sure /\ op'.clean = op.clean
         /\ op'.cand = r /\ op'.todo = Todo(r)
         /\ op'.pc = IF Readable(op.scan) /\ r.own = "ok" /\ Todo(r) # {} THEN "converge" ELSE "apply"
  <1>1. Todo(r) \subseteq Objs
    BY DEF Todo, Restorable, Vanished, Removing
  <1> DEFINE p == IF Readable(op.scan) /\ r.own = "ok" /\ Todo(r) # {} THEN "converge" ELSE "apply"
             d == Todo(r)
  <1>2. op' = [op EXCEPT !.cand = r, !.todo = d, !.pc = p]
    BY DEF Reconcile
  <1>3. p \in {"converge", "apply"} /\ d \subseteq Objs /\ op \in Ops
    BY <1>1 DEF PluginsTypeOK
  <1>4. /\ op' \in Ops /\ op'.kind = op.kind /\ op'.o = op.o /\ op'.base = op.base /\ op'.scan = op.scan
        /\ op'.sure = op.sure /\ op'.clean = op.clean
        /\ op'.cand = r /\ op'.todo = d /\ op'.pc = p
    <2> HIDE DEF p, d
    <2> QED BY <1>2, <1>3 DEF Ops
  <1> QED BY <1>4

LEMMA LoadOwnershipStep ==
  ASSUME PluginsTypeOK, LoadOwnership
  PROVE  /\ PluginsTypeOK'
         /\ UNCHANGED <<pkg, pdur, disk, ddur, mem, consent, undone, loose, lost, shown>>
         /\ op.pc = "load" /\ op'.kind = op.kind /\ op'.o = op.o /\ op'.base = op.base /\ op'.scan = op.scan
         /\ op'.sure = op.sure /\ op'.clean = op.clean
         /\ \E x \in Indexed :
              /\ x \in {LoadIndex(disk.idx), [idx |-> NoEntries, own |-> "down"]}
              /\ op'.cand.idx = x.idx /\ op'.cand.own = x.own
         /\ SameRest(op'.cand, op.cand)
         /\ \/ op'.pc = "rewrite" /\ Readable(op.scan) /\ op'.cand.own = "rewrite"
            \/ /\ op'.todo = Todo(op'.cand)
               /\ op'.cand.own = "rewrite" => ~Readable(op.scan)
               /\ op'.pc = IF Readable(op.scan) /\ op'.cand.own = "ok" /\ op'.todo # {} THEN "converge" ELSE "apply"
  <1>1. UNCHANGED <<pkg, pdur, disk, ddur, mem, consent, undone, loose, lost, shown>> /\ op.pc = "load"
    BY DEF LoadOwnership, disks, told
  <1>2. PICK l \in IndexLoads :
               IF Readable(op.scan) /\ l.v.own = "rewrite"
               THEN op' = [op EXCEPT !.cand = [@ EXCEPT !.idx = l.v.idx, !.own = "rewrite"], !.pc = "rewrite"]
               ELSE Reconcile([op.cand EXCEPT !.idx = l.v.idx, !.own = l.v.own])
    BY DEF LoadOwnership
  <1> DEFINE x == l.v
             r == [op.cand EXCEPT !.idx = x.idx, !.own = x.own]
  <1>3. x \in {LoadIndex(disk.idx), [idx |-> NoEntries, own |-> "down"]}
    <2> DEFINE a == LoadIndex(disk.idx)
    <2>1. l \in {[v |-> a, cost |-> 0], [v |-> [idx |-> NoEntries, own |-> "down"], cost |-> 1]}
      BY DEF IndexLoads, Loads
    <2> HIDE DEF a
    <2>2. x = a \/ x = [idx |-> NoEntries, own |-> "down"]
      BY <2>1
    <2> QED BY <2>2 DEF a
  <1>4. x \in Indexed /\ x.idx \in Index /\ x.own \in Trust
    <2>1. disk.idx \in Docs(Index)
      BY DEF PluginsTypeOK, Disks
    <2>2. LoadIndex(disk.idx) \in Indexed /\ [idx |-> NoEntries, own |-> "down"] \in Indexed
      BY <2>1, LoadIndexFields, ConstantTypes DEF Indexed, Trust
    <2>3. x \in Indexed
      BY <1>3, <2>2
    <2> QED BY <2>3 DEF Indexed
  <1>5. op \in Ops /\ op.cand \in Registries
    BY DEF PluginsTypeOK, Ops
  <1>6. r \in Registries /\ r.idx = x.idx /\ r.own = x.own /\ SameRest(r, op.cand)
    <2> DEFINE c == op.cand
               y == x.idx
               w == x.own
    <2>1. c \in Registries /\ y \in Index /\ w \in Trust
      BY <1>4, <1>5
    <2> HIDE DEF c, y, w
    <2> DEFINE f == [c EXCEPT !.idx = y, !.own = w]
    <2>2. f \in Registries /\ f.idx = y /\ f.own = w /\ SameRest(f, c)
      BY <2>1 DEF Registries, SameRest
    <2> QED BY <2>2 DEF c, y, w
  <1>7. CASE Readable(op.scan) /\ x.own = "rewrite"
    <2>1. op' = [op EXCEPT !.cand = r, !.pc = "rewrite"]
      BY <1>2, <1>5, <1>7 DEF Ops
    <2> HIDE DEF r
    <2>2. /\ op' \in Ops /\ op'.kind = op.kind /\ op'.o = op.o /\ op'.base = op.base /\ op'.scan = op.scan
          /\ op'.sure = op.sure /\ op'.clean = op.clean /\ op'.cand = r /\ op'.pc = "rewrite"
      BY <1>5, <1>6, <2>1 DEF Ops
    <2>3. PluginsTypeOK'
      BY <1>1, <2>2 DEF PluginsTypeOK
    <2> QED BY <1>1, <1>3, <1>4, <1>6, <1>7, <2>2, <2>3
  <1>8. CASE ~(Readable(op.scan) /\ x.own = "rewrite")
    <2>1. Reconcile(r)
      BY <1>2, <1>8
    <2> HIDE DEF r
    <2>2. /\ op' \in Ops /\ op'.kind = op.kind /\ op'.o = op.o /\ op'.base = op.base /\ op'.scan = op.scan
          /\ op'.sure = op.sure /\ op'.clean = op.clean /\ op'.cand = r /\ op'.todo = Todo(r)
          /\ op'.pc = IF Readable(op.scan) /\ r.own = "ok" /\ Todo(r) # {} THEN "converge" ELSE "apply"
      BY <1>6, <2>1, ReconcileFields
    <2>3. PluginsTypeOK'
      BY <1>1, <2>2 DEF PluginsTypeOK
    <2>4. op'.todo = Todo(op'.cand)
      BY <2>2
    <2>5. op'.pc = IF Readable(op.scan) /\ op'.cand.own = "ok" /\ op'.todo # {} THEN "converge" ELSE "apply"
      BY <2>2
    <2> QED BY <1>1, <1>3, <1>4, <1>6, <1>8, <2>2, <2>3, <2>4, <2>5
  <1> QED BY <1>7, <1>8

LEMMA RewriteOwnershipStep ==
  ASSUME PluginsTypeOK, RewriteOwnership
  PROVE  /\ PluginsTypeOK'
         /\ UNCHANGED <<pkg, pdur, mem, consent, undone, loose, lost, shown>>
         /\ op.pc = "rewrite" /\ op'.kind = op.kind /\ op'.o = op.o /\ op'.base = op.base /\ op'.scan = op.scan
         /\ op'.sure = op.sure /\ op'.clean = op.clean
         /\ op'.cand.idx = op.cand.idx /\ SameRest(op'.cand, op.cand)
         /\ op'.todo = Todo(op'.cand)
         /\ op'.pc = IF Readable(op.scan) /\ op'.cand.own = "ok" /\ op'.todo # {} THEN "converge" ELSE "apply"
         /\ op.cand.idx \in Index
         /\ \E out \in Outcomes : /\ Save("idx", op.cand.idx, out)
                                  /\ op'.cand.own = IF out # "failed" THEN "ok" ELSE "down"
  <1>1. UNCHANGED <<pkg, pdur, mem, consent, undone, loose, lost, shown>> /\ op.pc = "rewrite"
    BY DEF RewriteOwnership, told
  <1>2. PICK out \in Outcomes :
               /\ Save("idx", op.cand.idx, out)
               /\ Reconcile([op.cand EXCEPT !.own = IF Committed(out) THEN "ok" ELSE "down"])
    BY DEF RewriteOwnership
  <1> DEFINE w == IF Committed(out) THEN "ok" ELSE "down"
             r == [op.cand EXCEPT !.own = w]
  <1>3. op \in Ops /\ op.cand \in Registries /\ op.cand.idx \in Index /\ w \in Trust
    BY DEF PluginsTypeOK, Ops, Registries, Trust
  <1>4. r \in Registries /\ r.idx = op.cand.idx /\ r.own = w /\ SameRest(r, op.cand)
    <2> HIDE DEF w
    <2> QED BY <1>3, OwnField DEF SameRest
  <1>5. Reconcile(r)
    BY <1>2
  <1>6. w = IF out # "failed" THEN "ok" ELSE "down"
    BY DEF Committed
  <1> HIDE DEF r, w
  <1>7. /\ op' \in Ops /\ op'.kind = op.kind /\ op'.o = op.o /\ op'.base = op.base /\ op'.scan = op.scan
        /\ op'.sure = op.sure /\ op'.clean = op.clean /\ op'.cand = r /\ op'.todo = Todo(r)
        /\ op'.pc = IF Readable(op.scan) /\ r.own = "ok" /\ Todo(r) # {} THEN "converge" ELSE "apply"
    BY <1>4, <1>5, ReconcileFields
  <1>8. disk' \in Disks /\ ddur' \in Disks
    BY <1>2, <1>3, SavedIndex
  <1>9. PluginsTypeOK'
    BY <1>1, <1>7, <1>8 DEF PluginsTypeOK
  <1>10. op'.todo = Todo(op'.cand)
    BY <1>7
  <1>11. op'.pc = IF Readable(op.scan) /\ op'.cand.own = "ok" /\ op'.todo # {} THEN "converge" ELSE "apply"
    BY <1>7
  <1>12. \E u \in Outcomes : Save("idx", op.cand.idx, u) /\ op'.cand.own = IF u # "failed" THEN "ok" ELSE "down"
    BY <1>2, <1>4, <1>6, <1>7
  <1>13. op'.cand.idx = op.cand.idx /\ SameRest(op'.cand, op.cand)
    BY <1>4, <1>7
  <1> QED BY <1>1, <1>3, <1>7, <1>9, <1>10, <1>11, <1>12, <1>13

LEMMA FirstIn ==
  ASSUME NEW S, S \subseteq Objs, S # {}
  PROVE  First(S) \in S /\ \A f \in S : First(S) <= f
  <1> DEFINE R == OpToRel(<, Nat)
  <1>1. IsWellFoundedOn(R, Nat)
    BY NatLessThanWellFounded
  <1>2. S \subseteq Nat
    BY PackageAssumption
  <1> HIDE DEF R
  <1>3. \E e \in S : \A f \in S : ~(<<f, e>> \in R)
    BY <1>1, <1>2, WFMin
  <1>4. \A e \in Nat, f \in Nat : f < e => <<f, e>> \in R
    BY DEF R, OpToRel
  <1>5. \E e \in S : \A f \in S : e <= f
    <2>1. PICK e \in S : \A f \in S : ~(<<f, e>> \in R)
      BY <1>3
    <2>2. \A f \in S : ~(f < e)
      BY <1>2, <1>4, <2>1
    <2>3. \A f \in S : e <= f
      BY <1>2, <2>2
    <2> QED BY <2>3
  <1> QED BY <1>5 DEF First

LEMMA ConvergeStep ==
  ASSUME PluginsTypeOK, Converge
  PROVE  /\ PluginsTypeOK'
         /\ UNCHANGED <<pkg, pdur, mem, consent, undone, lost, shown>>
         /\ op.pc = "converge" /\ op'.kind = op.kind /\ op'.o = op.o /\ op'.base = op.base /\ op'.scan = op.scan
         /\ op'.sure = op.sure /\ op'.clean = op.clean
         /\ op'.cand.own = op.cand.own /\ SameRest(op'.cand, op.cand)
         /\ LET o == First(op.todo)
                x == Settled(op.cand.idx, op.scan, o)
            IN  /\ x \in Index
                /\ op'.todo = op.todo \ {o} /\ op'.pc = IF op.todo = {o} THEN "apply" ELSE "converge"
                /\ \E out \in Outcomes :
                     /\ Save("idx", x, out)
                     /\ op'.cand.idx = IF out # "failed" THEN x ELSE op.cand.idx
                     /\ loose' = Loosened(o, out # "failed" /\ x[o] = "none")
  <1>1. UNCHANGED <<pkg, pdur, mem, consent, undone, lost, shown>> /\ op.pc = "converge"
    BY DEF Converge
  <1> DEFINE o == First(op.todo)
             x == Settled(op.cand.idx, op.scan, o)
  <1>2. PICK out \in Outcomes :
           /\ Save("idx", x, out)
           /\ op' = [op EXCEPT !.cand = IF Committed(out) THEN [@ EXCEPT !.idx = x] ELSE @,
                               !.todo = @ \ {o}, !.pc = IF op.todo = {o} THEN "apply" ELSE @]
           /\ loose' = Loosened(o, Committed(out) /\ x[o] = "none")
    BY DEF Converge
  <1>3. op \in Ops /\ op.cand \in Registries /\ op.cand.idx \in Index /\ op.todo \subseteq Objs
    BY DEF PluginsTypeOK, Ops, Registries
  <1>4. x \in Index
    BY <1>3 DEF Settled, Index
  <1> HIDE DEF x, o
  <1> DEFINE e == [op.cand EXCEPT !.idx = x]
             c == IF Committed(out) THEN e ELSE op.cand
             p == IF op.todo = {o} THEN "apply" ELSE "converge"
  <1>5. e \in Registries /\ e.idx = x /\ e.own = op.cand.own /\ SameRest(e, op.cand)
    BY <1>3, <1>4, EntriesField DEF SameRest
  <1>6. op' = [op EXCEPT !.cand = c, !.todo = op.todo \ {o}, !.pc = p]
    BY <1>1, <1>2, <1>3 DEF Ops
  <1> HIDE DEF e
  <1>7. /\ c \in Registries /\ c.own = op.cand.own /\ SameRest(c, op.cand)
        /\ c.idx = IF out # "failed" THEN x ELSE op.cand.idx
    BY <1>3, <1>5 DEF SameRest, Committed
  <1>8. p \in {"apply", "converge"} /\ op.todo \ {o} \subseteq Objs /\ (p = "converge" => op.todo \ {o} # {})
    <2>1. op.todo # {}
      BY <1>1 DEF PluginsTypeOK
    <2>2. op.todo # {o} => op.todo \ {o} # {}
      BY <2>1
    <2> QED BY <1>3, <2>2
  <1> HIDE DEF c, p
  <1>9. /\ op' \in Ops /\ op'.kind = op.kind /\ op'.o = op.o /\ op'.base = op.base /\ op'.scan = op.scan
        /\ op'.sure = op.sure /\ op'.clean = op.clean /\ op'.cand = c /\ op'.todo = op.todo \ {o} /\ op'.pc = p
    BY <1>3, <1>6, <1>7, <1>8 DEF Ops
  <1>10. disk' \in Disks /\ ddur' \in Disks
    BY <1>2, <1>4, SavedIndex
  <1>11. loose' = Loosened(o, out # "failed" /\ x[o] = "none") /\ loose' \subseteq Objs
    <2>1. Committed(out) = (out # "failed")
      BY DEF Committed
    <2>2. o \in DOMAIN pdur => o \in Objs
      BY DEF PluginsTypeOK
    <2>3. loose' = Loosened(o, out # "failed" /\ x[o] = "none")
      BY <1>2, <2>1
    <2>4. o \in Objs
      BY <1>1, <1>3, FirstIn DEF PluginsTypeOK, o
    <2>5. loose' \subseteq Objs
      BY <2>3, <2>4 DEF Loosened, PluginsTypeOK
    <2> QED BY <2>3, <2>5
  <1>12. PluginsTypeOK'
    BY <1>1, <1>9, <1>10, <1>11, <1>8 DEF PluginsTypeOK
  <1>13. op'.cand.own = op.cand.own /\ SameRest(op'.cand, op.cand)
    BY <1>7, <1>9
  <1>14. \E u \in Outcomes :
              /\ Save("idx", x, u)
              /\ op'.cand.idx = IF u # "failed" THEN x ELSE op.cand.idx
              /\ loose' = Loosened(o, u # "failed" /\ x[o] = "none")
    BY <1>2, <1>7, <1>9, <1>11
  <1> QED BY <1>1, <1>4, <1>9, <1>12, <1>13, <1>14 DEF x, o, p
-----------------------------------------------------------------------------
SameOp(f, r) ==
    /\ f.kind = r.kind /\ f.o = r.o /\ f.base = r.base /\ f.cand = r.cand /\ f.scan = r.scan /\ f.todo = r.todo
    /\ f.clean = r.clean
Steps == {"stage", "disable", "promote", "register", "postscan", "off", "mark", "rename", "look", "delete",
          "forget", "rollback"}
Shown(r) == mem' = r /\ shown' = IF r.gen # mem.gen THEN Structure(r) ELSE shown

LEMMA GotoFields ==
  ASSUME PluginsTypeOK, NEW p \in Steps, Goto(p)
  PROVE  op' \in Ops /\ op'.pc = p /\ SameOp(op', op) /\ op'.sure = op.sure
  BY DEF Goto, PluginsTypeOK, Ops, Steps, SameOp

LEMMA PutFields ==
  ASSUME PluginsTypeOK, NEW o \in Objs, NEW r \in Packages, Put(o, r)
  PROVE  /\ pkg' \in [Objs -> Packages] /\ pdur' \in [Objs -> Packages]
         /\ pkg'[o] = r /\ pdur'[o] = r
         /\ \A q \in Objs \ {o} : pkg'[q] = pkg[q] /\ pdur'[q] = pdur[q]
  BY DEF Put, PluginsTypeOK

LEMMA AtField ==
  ASSUME NEW r \in Packages, NEW p \in Places
  PROVE  LET f == [r EXCEPT !.at = p] IN f \in Packages /\ f.at = p /\ f.kind = r.kind /\ f.shape = r.shape
  BY DEF Packages

LEMMA PlacedFields ==
  ASSUME PluginsTypeOK, NEW o \in Objs, NEW p \in Places
  PROVE  /\ Placed(o, p) \in [Objs -> Packages]
         /\ Placed(o, p)[o].at = p /\ Placed(o, p)[o].kind = pkg[o].kind /\ Placed(o, p)[o].shape = pkg[o].shape
         /\ \A q \in Objs \ {o} : Placed(o, p)[q] = pkg[q]
  <1> DEFINE e == [pkg[o] EXCEPT !.at = p]
  <1>1. pkg[o] \in Packages /\ pkg \in [Objs -> Packages]
    BY DEF PluginsTypeOK
  <1>2. e \in Packages /\ e.at = p /\ e.kind = pkg[o].kind /\ e.shape = pkg[o].shape
    <2> DEFINE r == pkg[o]
    <2>1. r \in Packages
      BY <1>1
    <2> HIDE DEF r
    <2> QED BY <2>1, AtField DEF e, r
  <1>3. Placed(o, p) = [pkg EXCEPT ![o] = e]
    BY <1>1 DEF Placed
  <1> HIDE DEF e
  <1> QED BY <1>1, <1>2, <1>3

LEMMA StatesType ==
  ASSUME PluginsTypeOK, NEW t \in States
  PROVE  /\ t.v \in Stated
         /\ op.cand.sto = "down" => t.v \in {LoadState(disk.st), [st |-> NoState, sto |-> "down"]}
         /\ op.cand.sto # "down" => t.v.st = op.cand.st /\ t.v.sto = op.cand.sto
  <1>1. disk.st \in Docs(Decisions) /\ op.cand \in Registries
    BY DEF PluginsTypeOK, Disks, Ops
  <1>2. LoadState(disk.st) \in Stated /\ [st |-> NoState, sto |-> "down"] \in Stated
    BY <1>1, LoadStateFields, ConstantTypes DEF Stated, Trust
  <1>3. CASE op.cand.sto = "down"
    <2> DEFINE a == LoadState(disk.st)
               b == [st |-> NoState, sto |-> "down"]
    <2>1. t \in {[v |-> a, cost |-> 0], [v |-> b, cost |-> 1]}
      BY <1>3 DEF States, StateLoads, Loads
    <2>2. t.v = a \/ t.v = b
      <3> HIDE DEF a, b
      <3> QED BY <2>1
    <2> QED BY <1>2, <1>3, <2>2
  <1>4. CASE op.cand.sto # "down"
    <2>1. t = [v |-> [st |-> op.cand.st, sto |-> op.cand.sto], cost |-> 0]
      BY <1>4 DEF States
    <2> QED BY <1>1, <1>4, <2>1 DEF Registries, Stated
  <1> QED BY <1>3, <1>4

\* Where the state document of a publication comes from.
Read(t) ==
    /\ t \in Stated
    /\ op.cand.sto = "down" => t \in {LoadState(disk.st), [st |-> NoState, sto |-> "down"]}
    /\ op.cand.sto # "down" => t.st = op.cand.st /\ t.sto = op.cand.sto

LEMMA ReloadedStep ==
  ASSUME PluginsTypeOK, Reloaded
  PROVE  /\ PluginsTypeOK'
         /\ UNCHANGED <<pkg, pdur, disk, ddur, consent, undone, loose, lost>>
         /\ op.pc = "apply" /\ op.kind = "reload" /\ op' = NoOp /\ op'.pc = "idle" /\ op'.kind = "none"
         /\ \E t \in Stated : Read(t) /\ Shown(Applied(t))
  <1>1. UNCHANGED <<pkg, pdur, disk, ddur, consent, undone, loose, lost>> /\ op.pc = "apply" /\ op.kind = "reload" /\ End
    BY DEF Reloaded, disks, told
  <1>2. PICK t \in States : Show(Applied(t.v))
    BY DEF Reloaded
  <1>3. Read(t.v) /\ Shown(Applied(t.v))
    BY <1>2, StatesType DEF Read, Show, Shown
  <1>4. t.v \in Stated /\ mem' = Applied(t.v)
    BY <1>3 DEF Read, Shown
  <1>5. mem' \in Registries
    BY <1>4, AppliedFields
  <1>6. SameTypes
    BY <1>1, <1>5 DEF SameTypes, PluginsTypeOK
  <1>7. PluginsTypeOK' /\ op'.pc = "idle" /\ op'.kind = "none"
    BY <1>1, <1>6, EndType
  <1> QED BY <1>1, <1>3, <1>4, <1>7 DEF End

LEMMA RetryStateStep ==
  ASSUME PluginsTypeOK, RetryState
  PROVE  /\ PluginsTypeOK'
         /\ UNCHANGED <<pkg, pdur, disk, ddur, consent, undone, loose, lost, op>>
         /\ op.pc = "idle" /\ mem.sto = "down" /\ mem.gen # 0
         /\ \E t \in Stated : /\ t \in {LoadState(disk.st), [st |-> NoState, sto |-> "down"]}
                              /\ WithState(mem, t) \in Registries /\ Shown(Renumbered(mem, WithState(mem, t)))
  <1>1. /\ UNCHANGED <<pkg, pdur, disk, ddur, consent, undone, loose, lost, op>>
        /\ op.pc = "idle" /\ mem.sto = "down" /\ mem.gen # 0
    BY DEF RetryState, disks, told
  <1>2. PICK s \in StateLoads : Show(Renumbered(mem, WithState(mem, s.v)))
    BY DEF RetryState
  <1> DEFINE t == s.v
  <1>3. t \in {LoadState(disk.st), [st |-> NoState, sto |-> "down"]}
    <2> DEFINE a == LoadState(disk.st)
               b == [st |-> NoState, sto |-> "down"]
    <2>1. s \in {[v |-> a, cost |-> 0], [v |-> b, cost |-> 1]}
      BY DEF StateLoads, Loads
    <2>2. s.v = a \/ s.v = b
      <3> HIDE DEF a, b
      <3> QED BY <2>1
    <2> QED BY <2>2
  <1>4. t \in Stated /\ t \in [st : Decisions, sto : Trust]
    <2>1. disk.st \in Docs(Decisions)
      BY DEF PluginsTypeOK, Disks
    <2>2. LoadState(disk.st) \in Stated /\ [st |-> NoState, sto |-> "down"] \in Stated
      BY <2>1, LoadStateFields, ConstantTypes DEF Stated, Trust
    <2>3. t \in Stated
      BY <1>3, <2>2
    <2> QED BY <2>3 DEF Stated
  <1>5. mem \in Registries
    BY DEF PluginsTypeOK
  <1> HIDE DEF t
  <1>6. WithState(mem, t) \in Registries
    BY <1>4, <1>5, StateFields
  <1>7. Shown(Renumbered(mem, WithState(mem, t)))
    BY <1>2 DEF Show, Shown, t
  <1>8. mem' \in Registries
    BY <1>5, <1>6, <1>7, RenumberedFields DEF Shown
  <1>9. PluginsTypeOK'
    BY <1>1, <1>8 DEF PluginsTypeOK
  <1> QED BY <1>1, <1>3, <1>4, <1>6, <1>7, <1>9

LEMMA DecidedFields ==
  ASSUME NEW st \in Decisions, NEW i \in Ids, NEW fp \in {0, 1, 2}, NEW on \in BOOLEAN
  PROVE  /\ Decided(st, i, fp, on) \in Decisions
         /\ Decided(st, i, fp, on)[i] = [fp |-> fp, on |-> on]
         /\ \A j \in Ids \ {i} : Decided(st, i, fp, on)[j] = st[j]
  BY DEF Decided, Decisions

LEMMA SetEnabledStep ==
  ASSUME PluginsTypeOK, NEW i \in Ids, NEW on \in BOOLEAN, SetEnabled(i, on)
  PROVE  /\ PluginsTypeOK'
         /\ UNCHANGED <<pkg, pdur, op, undone, loose, lost, shown>>
         /\ op.pc = "idle" /\ ~mem.unrec /\ mem.sto # "down"
         /\ \E st \in Decisions, out \in Outcomes :
              /\ st[i].on = on /\ \A j \in Ids \ {i} : st[j] = mem.st[j]
              /\ Save("st", st, out)
              /\ out = "failed" => mem' = mem /\ consent' = consent
              /\ out # "failed" => /\ mem' = WithState(mem, [st |-> st, sto |-> "ok"])
                                   /\ consent' = [consent EXCEPT ![i] = on]
  <1>1. UNCHANGED <<pkg, pdur, op, undone, loose, lost, shown>> /\ op.pc = "idle" /\ ~mem.unrec /\ mem.sto # "down"
    BY DEF SetEnabled
  <1>2. PICK o \in ListedAs(mem.scan, i), out \in Outcomes :
           LET st == Decided(mem.st, i, Content(mem.scan, o), on)
           IN  /\ Save("st", st, out)
               /\ mem' = IF Committed(out) THEN WithState(mem, [st |-> st, sto |-> "ok"]) ELSE mem
               /\ consent' = IF Committed(out) THEN [consent EXCEPT ![i] = on] ELSE consent
    BY DEF SetEnabled
  <1> DEFINE st == Decided(mem.st, i, Content(mem.scan, o), on)
             t == [st |-> st, sto |-> "ok"]
  <1>3. mem \in Registries /\ mem.st \in Decisions /\ Content(mem.scan, o) \in {0, 1, 2}
    BY DEF PluginsTypeOK, Registries, Content
  <1>4. st \in Decisions /\ st[i] = [fp |-> Content(mem.scan, o), on |-> on] /\ \A j \in Ids \ {i} : st[j] = mem.st[j]
    BY <1>3, DecidedFields
  <1>5. /\ Save("st", st, out)
        /\ mem' = IF Committed(out) THEN WithState(mem, t) ELSE mem
        /\ consent' = IF Committed(out) THEN [consent EXCEPT ![i] = on] ELSE consent
    BY <1>2
  <1> HIDE DEF st
  <1>6. t \in [st : Decisions, sto : Trust]
    BY <1>4 DEF Trust
  <1> HIDE DEF t
  <1>7. WithState(mem, t) \in Registries
    BY <1>3, <1>6, StateFields
  <1>8. mem' \in Registries
    BY <1>3, <1>5, <1>7
  <1>9. disk' \in Disks /\ ddur' \in Disks
    BY <1>4, <1>5, SavedState
  <1>10. consent' \in [Ids -> BOOLEAN]
    BY <1>5 DEF PluginsTypeOK
  <1>11. PluginsTypeOK'
    BY <1>1, <1>8, <1>9, <1>10 DEF PluginsTypeOK
  <1>12. st[i].on = on
    BY <1>4
  <1> QED BY <1>1, <1>4, <1>5, <1>11, <1>12 DEF Committed, t
-----------------------------------------------------------------------------
LEMMA PrescannedStep ==
  ASSUME PluginsTypeOK, Prescanned
  PROVE  /\ PluginsTypeOK'
         /\ UNCHANGED <<pkg, pdur, disk, ddur, consent, undone, loose, lost>>
         /\ op.pc = "apply" /\ op.kind = "import"
         /\ \E t \in Stated :
              /\ Read(t)
              /\ \/ /\ Applied(t).gen # mem.gen /\ Shown(Renumbered(mem, Applied(t)))
                    /\ op' = NoOp /\ op'.pc = "idle" /\ op'.kind = "none"
                 \/ /\ Applied(t).gen = mem.gen /\ Importable(Applied(t), op.o)
                    /\ op'.pc = "stage" /\ op'.kind = op.kind /\ op'.o = op.o /\ op'.cand = Applied(t)
                    /\ op'.clean = op.clean
                    /\ UNCHANGED <<mem, shown>>
                 \/ /\ Applied(t).gen = mem.gen /\ UNCHANGED <<mem, shown>>
                    /\ op' = NoOp /\ op'.pc = "idle" /\ op'.kind = "none"
  <1>1. UNCHANGED <<pkg, pdur, disk, ddur, consent, undone, loose, lost>> /\ op.pc = "apply" /\ op.kind = "import"
    BY DEF Prescanned, disks, told
  <1>2. PICK s \in States :
          \/ Applied(s.v).gen # mem.gen /\ Show(PublishImport(Applied(s.v))) /\ End
          \/ /\ Applied(s.v).gen = mem.gen /\ Importable(Applied(s.v), op.o)
             /\ op' = [op EXCEPT !.cand = Applied(s.v), !.pc = "stage"]
             /\ UNCHANGED <<mem, shown>>
          \/ Applied(s.v).gen = mem.gen /\ End /\ UNCHANGED <<mem, shown>>
    BY DEF Prescanned
  <1> DEFINE t == s.v
             a == Applied(t)
  <1>3. Read(t) /\ t \in Stated
    BY StatesType DEF Read
  <1>4. a \in Registries /\ mem \in Registries /\ op \in Ops
    BY <1>3, AppliedFields DEF PluginsTypeOK
  <1>5. Renumbered(mem, a) \in Registries
    BY <1>4, RenumberedFields
  <1>6. \/ a.gen # mem.gen /\ Shown(Renumbered(mem, a)) /\ End
        \/ a.gen = mem.gen /\ Importable(a, op.o) /\ op' = [op EXCEPT !.cand = a, !.pc = "stage"] /\ UNCHANGED <<mem, shown>>
        \/ a.gen = mem.gen /\ End /\ UNCHANGED <<mem, shown>>
    BY <1>2 DEF Show, Shown, PublishImport
  <1> HIDE DEF a, t
  <1>7. CASE a.gen # mem.gen /\ Shown(Renumbered(mem, a)) /\ End
    <2>1. SameTypes
      BY <1>1, <1>5, <1>7 DEF SameTypes, PluginsTypeOK, Shown
    <2>2. PluginsTypeOK' /\ op'.pc = "idle" /\ op'.kind = "none" /\ op' = NoOp
      BY <1>7, <2>1, EndType DEF End
    <2> QED BY <1>1, <1>3, <1>7, <2>2 DEF a
  <1>8. CASE a.gen = mem.gen /\ End /\ UNCHANGED <<mem, shown>>
    <2>1. SameTypes
      BY <1>1, <1>4, <1>8 DEF SameTypes, PluginsTypeOK
    <2>2. PluginsTypeOK' /\ op'.pc = "idle" /\ op'.kind = "none" /\ op' = NoOp
      BY <1>8, <2>1, EndType DEF End
    <2> QED BY <1>1, <1>3, <1>8, <2>2 DEF a
  <1>9. CASE a.gen = mem.gen /\ Importable(a, op.o) /\ op' = [op EXCEPT !.cand = a, !.pc = "stage"] /\ UNCHANGED <<mem, shown>>
    <2>1. /\ op' \in Ops /\ op'.pc = "stage" /\ op'.kind = op.kind /\ op'.o = op.o /\ op'.cand = a
          /\ op'.clean = op.clean
      BY <1>4, <1>9 DEF Ops
    <2>2. PluginsTypeOK'
      BY <1>1, <1>9, <2>1 DEF PluginsTypeOK
    <2> QED BY <1>1, <1>3, <1>9, <2>1, <2>2 DEF a
  <1> QED BY <1>6, <1>7, <1>8, <1>9

LEMMA StageStep ==
  ASSUME PluginsTypeOK, Stage
  PROVE  /\ PluginsTypeOK'
         /\ UNCHANGED <<disk, ddur, mem, consent, undone, loose, lost, shown>>
         /\ op.pc = "stage" /\ op.o \in Objs /\ op.kind = "import"
         /\ pkg'[op.o].at = "stage" /\ pdur'[op.o].at = "stage"
         /\ \A q \in Objs \ {op.o} : pkg'[q] = pkg[q] /\ pdur'[q] = pdur[q]
         /\ \/ op'.pc = "disable" /\ SameOp(op', op)
            \/ op' = NoOp /\ op'.pc = "idle" /\ op'.kind = "none"
  <1>1. UNCHANGED <<disk, ddur, mem, consent, undone, loose, lost, shown>> /\ op.pc = "stage"
    BY DEF Stage, told
  <1>2. op.o \in Objs /\ op.kind = "import"
    BY <1>1 DEF PluginsTypeOK
  <1> DEFINE a == [Nothing EXCEPT !.at = "stage"]
             b == [Nothing EXCEPT !.at = "stage", !.kind = "broken"]
  <1>3. a \in Packages /\ b \in Packages /\ a.at = "stage" /\ b.at = "stage"
    BY DEF Nothing, Packages, Places, Shapes
  <1>4. (Put(op.o, a) /\ Goto("disable")) \/ (Put(op.o, b) /\ End)
    BY DEF Stage
  <1> HIDE DEF a, b
  <1>5. /\ pkg' \in [Objs -> Packages] /\ pdur' \in [Objs -> Packages]
        /\ pkg'[op.o].at = "stage" /\ pdur'[op.o].at = "stage"
        /\ \A q \in Objs \ {op.o} : pkg'[q] = pkg[q] /\ pdur'[q] = pdur[q]
    BY <1>2, <1>3, <1>4, PutFields
  <1>6. SameTypes
    BY <1>1, <1>5 DEF SameTypes, PluginsTypeOK
  <1>7. CASE Goto("disable")
    <2>1. op' \in Ops /\ op'.pc = "disable" /\ SameOp(op', op)
      BY <1>7, GotoFields DEF Steps
    <2>2. PluginsTypeOK'
      BY <1>2, <1>6, <2>1 DEF SameTypes, PluginsTypeOK, SameOp
    <2> QED BY <1>1, <1>2, <1>5, <2>1, <2>2
  <1>8. CASE End
    <2>1. PluginsTypeOK' /\ op'.pc = "idle" /\ op'.kind = "none" /\ op' = NoOp
      BY <1>6, <1>8, EndType DEF End
    <2> QED BY <1>1, <1>2, <1>5, <2>1
  <1> QED BY <1>4, <1>7, <1>8

LEMMA SwitchedOff ==
  ASSUME PluginsTypeOK, op.o \in Objs, NEW out \in Outcomes
  PROVE  LET st == Decided(op.cand.st, IdOf[op.o], 1, FALSE)
             c == IF Committed(out) THEN WithState(op.cand, [st |-> st, sto |-> "ok"]) ELSE op.cand
         IN  /\ st \in Decisions /\ ~st[IdOf[op.o]].on /\ \A j \in Ids \ {IdOf[op.o]} : st[j] = op.cand.st[j]
             /\ c \in Registries /\ c.idx = op.cand.idx /\ c.own = op.cand.own /\ c.gen = op.cand.gen
             /\ c.scan = op.cand.scan /\ c.cls = op.cand.cls /\ c.sum = op.cand.sum /\ c.unrec = op.cand.unrec
             /\ out = "failed" => c = op.cand
             /\ out # "failed" => c.st = st /\ c.sto = "ok"
  <1> DEFINE i == IdOf[op.o]
             st == Decided(op.cand.st, i, 1, FALSE)
             t == [st |-> st, sto |-> "ok"]
             w == WithState(op.cand, t)
             c == IF Committed(out) THEN w ELSE op.cand
  <1>1. op.cand \in Registries /\ op.cand.st \in Decisions /\ i \in Ids
    BY ManifestAssumption DEF PluginsTypeOK, Ops, Registries
  <1>2. st \in Decisions /\ st[i] = [fp |-> 1, on |-> FALSE] /\ \A j \in Ids \ {i} : st[j] = op.cand.st[j]
    BY <1>1, DecidedFields
  <1> HIDE DEF i, st
  <1>3. ~st[i].on
    BY <1>2
  <1>4. t \in [st : Decisions, sto : Trust] /\ t.st = st /\ t.sto = "ok"
    BY <1>2 DEF Trust
  <1> HIDE DEF t
  <1>5. /\ w \in Registries /\ w.idx = op.cand.idx /\ w.own = op.cand.own /\ w.gen = op.cand.gen
        /\ w.scan = op.cand.scan /\ w.cls = op.cand.cls /\ w.sum = op.cand.sum /\ w.unrec = op.cand.unrec
        /\ w.st = st /\ w.sto = "ok"
    BY <1>1, <1>4, StateFields
  <1> HIDE DEF w
  <1>6. /\ c \in Registries /\ c.idx = op.cand.idx /\ c.own = op.cand.own /\ c.gen = op.cand.gen
        /\ c.scan = op.cand.scan /\ c.cls = op.cand.cls /\ c.sum = op.cand.sum /\ c.unrec = op.cand.unrec
        /\ out = "failed" => c = op.cand
        /\ out # "failed" => c.st = st /\ c.sto = "ok"
    BY <1>1, <1>5 DEF Committed
  <1> QED BY <1>2, <1>3, <1>6 DEF i, st, t, w

LEMMA DisableStep ==
  ASSUME PluginsTypeOK, Disable
  PROVE  /\ PluginsTypeOK'
         /\ UNCHANGED <<pkg, pdur, consent, undone, loose, lost, shown>>
         /\ op.pc = "disable" /\ op.o \in Objs /\ op.kind = "import"
         /\ \E c \in Registries :
              /\ mem' = AdoptImport(mem, c)
              /\ c.idx = op.cand.idx /\ c.own = op.cand.own /\ c.gen = op.cand.gen
              /\ c.scan = op.cand.scan /\ c.cls = op.cand.cls /\ c.sum = op.cand.sum /\ c.unrec = op.cand.unrec
              /\ \/ op' = NoOp /\ op'.pc = "idle" /\ op'.kind = "none"
                 \/ /\ op'.pc = "promote" /\ op'.kind = op.kind /\ op'.o = op.o /\ op'.cand = c
                    /\ op'.clean = op.clean
              /\ \/ /\ c = op.cand /\ c.sto = "ok" /\ ~c.st[IdOf[op.o]].on /\ op'.pc = "promote"
                    /\ UNCHANGED <<disk, ddur>>
                 \/ \E out \in Outcomes, st \in Decisions :
                      /\ Save("st", st, out)
                      /\ ~st[IdOf[op.o]].on /\ \A j \in Ids \ {IdOf[op.o]} : st[j] = op.cand.st[j]
                      /\ out = "failed" => c = op.cand
                      /\ out # "failed" => c.st = st /\ c.sto = "ok"
                      /\ op'.pc = "promote" => out = "durable"
  <1>1. UNCHANGED <<pkg, pdur, consent, undone, loose, lost, shown>> /\ op.pc = "disable"
    BY DEF Disable, told
  <1>2. op.o \in Objs /\ op.kind = "import" /\ op \in Ops /\ op.cand \in Registries /\ mem \in Registries
    BY <1>1 DEF PluginsTypeOK, Ops
  <1> DEFINE st == Decided(op.cand.st, IdOf[op.o], 1, FALSE)
  <1>3. \/ /\ st = op.cand.st /\ op.cand.sto = "ok"
           /\ mem' = AdoptImport(mem, op.cand) /\ Goto("promote") /\ UNCHANGED <<disk, ddur>>
        \/ \E out \in Outcomes :
             LET c == IF Committed(out) THEN WithState(op.cand, [st |-> st, sto |-> "ok"]) ELSE op.cand
             IN  /\ Save("st", st, out)
                 /\ mem' = AdoptImport(mem, c)
                 /\ op' = IF out = "durable" THEN [op EXCEPT !.cand = c, !.pc = "promote"] ELSE NoOp
    BY DEF Disable
  <1>4. st \in Decisions /\ ~st[IdOf[op.o]].on /\ \A j \in Ids \ {IdOf[op.o]} : st[j] = op.cand.st[j]
    BY <1>2, SwitchedOff DEF Outcomes
  <1>5. CASE /\ st = op.cand.st /\ op.cand.sto = "ok"
             /\ mem' = AdoptImport(mem, op.cand) /\ Goto("promote") /\ UNCHANGED <<disk, ddur>>
    <2>1. op' \in Ops /\ op'.pc = "promote" /\ SameOp(op', op)
      BY <1>5, GotoFields DEF Steps
    <2>2. mem' \in Registries
      BY <1>2, <1>5, AdoptImportFields
    <2>3. PluginsTypeOK'
      BY <1>1, <1>2, <1>5, <2>1, <2>2 DEF PluginsTypeOK, SameOp
    <2>4. op.cand.sto = "ok" /\ ~op.cand.st[IdOf[op.o]].on
      BY <1>4, <1>5
    <2> QED BY <1>1, <1>2, <1>5, <2>1, <2>3, <2>4 DEF SameOp
  <1>6. ASSUME NEW out \in Outcomes,
               LET c == IF Committed(out) THEN WithState(op.cand, [st |-> st, sto |-> "ok"]) ELSE op.cand
               IN  /\ Save("st", st, out)
                   /\ mem' = AdoptImport(mem, c)
                   /\ op' = IF out = "durable" THEN [op EXCEPT !.cand = c, !.pc = "promote"] ELSE NoOp
        PROVE  /\ PluginsTypeOK'
               /\ \E c \in Registries :
                    /\ mem' = AdoptImport(mem, c)
                    /\ c.idx = op.cand.idx /\ c.own = op.cand.own /\ c.gen = op.cand.gen
                    /\ c.scan = op.cand.scan /\ c.cls = op.cand.cls /\ c.sum = op.cand.sum /\ c.unrec = op.cand.unrec
                    /\ \/ op' = NoOp /\ op'.pc = "idle" /\ op'.kind = "none"
                       \/ /\ op'.pc = "promote" /\ op'.kind = op.kind /\ op'.o = op.o /\ op'.cand = c
                          /\ op'.clean = op.clean
                    /\ \E u \in Outcomes, v \in Decisions :
                          /\ Save("st", v, u)
                          /\ ~v[IdOf[op.o]].on /\ \A j \in Ids \ {IdOf[op.o]} : v[j] = op.cand.st[j]
                          /\ u = "failed" => c = op.cand
                          /\ u # "failed" => c.st = v /\ c.sto = "ok"
                          /\ op'.pc = "promote" => u = "durable"
    <2> DEFINE c == IF Committed(out) THEN WithState(op.cand, [st |-> st, sto |-> "ok"]) ELSE op.cand
    <2>1. /\ c \in Registries /\ c.idx = op.cand.idx /\ c.own = op.cand.own /\ c.gen = op.cand.gen
          /\ c.scan = op.cand.scan /\ c.cls = op.cand.cls /\ c.sum = op.cand.sum /\ c.unrec = op.cand.unrec
          /\ out = "failed" => c = op.cand
          /\ out # "failed" => c.st = st /\ c.sto = "ok"
      BY <1>2, SwitchedOff
    <2>2. /\ Save("st", st, out) /\ mem' = AdoptImport(mem, c)
          /\ op' = IF out = "durable" THEN [op EXCEPT !.cand = c, !.pc = "promote"] ELSE NoOp
      BY <1>6
    <2> HIDE DEF c, st
    <2>3. mem' \in Registries
      BY <1>2, <2>1, <2>2, AdoptImportFields
    <2>4. disk' \in Disks /\ ddur' \in Disks
      BY <1>4, <2>2, SavedState
    <2>5. SameTypes
      BY <1>1, <2>3, <2>4 DEF SameTypes, PluginsTypeOK
    <2>6. \/ op' = NoOp /\ op'.pc = "idle" /\ op'.kind = "none" /\ PluginsTypeOK'
          \/ /\ op'.pc = "promote" /\ op'.kind = op.kind /\ op'.o = op.o /\ op'.cand = c
             /\ op'.clean = op.clean /\ PluginsTypeOK'
      <3>1. CASE out = "durable"
        <4>1. op' = [op EXCEPT !.cand = c, !.pc = "promote"]
          BY <2>2, <3>1
        <4>2. /\ op' \in Ops /\ op'.pc = "promote" /\ op'.kind = op.kind /\ op'.o = op.o /\ op'.cand = c
              /\ op'.clean = op.clean
          BY <1>2, <2>1, <4>1 DEF Ops
        <4>3. PluginsTypeOK'
          BY <1>2, <2>5, <4>2 DEF SameTypes, PluginsTypeOK
        <4> QED BY <4>2, <4>3
      <3>2. CASE out # "durable"
        <4>1. op' = NoOp
          BY <2>2, <3>2
        <4> QED BY <2>5, <4>1, EndType DEF End
      <3> QED BY <3>1, <3>2
    <2>7. op'.pc = "promote" => out = "durable"
      BY <2>2, NoOpFields
    <2>8. \E u \in Outcomes, v \in Decisions :
                          /\ Save("st", v, u)
                          /\ ~v[IdOf[op.o]].on /\ \A j \in Ids \ {IdOf[op.o]} : v[j] = op.cand.st[j]
                          /\ u = "failed" => c = op.cand
                          /\ u # "failed" => c.st = v /\ c.sto = "ok"
                          /\ op'.pc = "promote" => u = "durable"
      BY <1>4, <2>1, <2>2, <2>7
    <2> QED BY <2>1, <2>2, <2>6, <2>8
  <1> QED BY <1>1, <1>2, <1>3, <1>5, <1>6
-----------------------------------------------------------------------------
LEMMA PromoteStep ==
  ASSUME PluginsTypeOK, Promote
  PROVE  /\ PluginsTypeOK'
         /\ UNCHANGED <<disk, ddur, undone, loose, lost>>
         /\ op.pc = "promote" /\ op.o \in Objs /\ op.kind = "import"
         /\ \A q \in Objs \ {op.o} : pkg'[q] = pkg[q] /\ pdur'[q] = pdur[q]
         /\ \/ /\ op'.pc = "register" /\ SameOp(op', op) /\ pkg'[op.o].at = "local" /\ pdur'[op.o] = pkg'[op.o]
               /\ consent' = [consent EXCEPT ![IdOf[op.o]] = FALSE] /\ UNCHANGED <<mem, shown>>
            \/ /\ op'.pc = "postscan" /\ SameOp(op', op) /\ pkg'[op.o].at = "local" /\ pdur'[op.o] = pdur[op.o]
               /\ consent' = [consent EXCEPT ![IdOf[op.o]] = FALSE] /\ UNCHANGED <<mem, shown>>
            \/ op'.pc = "postscan" /\ SameOp(op', op) /\ UNCHANGED <<pkg, pdur, consent, mem, shown>>
            \/ /\ op' = NoOp /\ op'.pc = "idle" /\ op'.kind = "none"
               /\ pkg'[op.o].at \in {"gone", pkg[op.o].at} /\ pdur'[op.o] = pkg'[op.o]
               /\ UNCHANGED consent /\ Shown(Renumbered(mem, op.cand))
  <1>1. UNCHANGED <<disk, ddur, undone, loose, lost>> /\ op.pc = "promote"
    BY DEF Promote
  <1>2. /\ op.o \in Objs /\ op.kind = "import" /\ op \in Ops /\ op.cand \in Registries /\ mem \in Registries
        /\ pkg[op.o] \in Packages /\ pkg \in [Objs -> Packages] /\ pdur \in [Objs -> Packages]
    BY <1>1 DEF PluginsTypeOK, Ops
  <1>3. Renumbered(mem, op.cand) \in Registries
    BY <1>2, RenumberedFields
  <1> DEFINE l == Placed(op.o, "local")
             z == [consent EXCEPT ![IdOf[op.o]] = FALSE]
             g == [pkg[op.o] EXCEPT !.at = "gone"]
  <1>4. l \in [Objs -> Packages] /\ l[op.o].at = "local" /\ \A q \in Objs \ {op.o} : l[q] = pkg[q]
    BY <1>2, PlacedFields DEF Places
  <1>5. z \in [Ids -> BOOLEAN]
    BY DEF PluginsTypeOK
  <1>6. g \in Packages /\ g.at = "gone"
    <2> DEFINE r == pkg[op.o]
    <2>1. r \in Packages
      BY <1>2
    <2> HIDE DEF r
    <2> QED BY <2>1, AtField DEF g, r, Places
  <1>7. \/ /\ pkg' = l /\ pdur' = [pdur EXCEPT ![op.o] = pkg'[op.o]] /\ consent' = z
           /\ Goto("register") /\ UNCHANGED <<mem, shown>>
        \/ /\ pkg' = l /\ consent' = z /\ op' = [op EXCEPT !.sure = FALSE, !.pc = "postscan"]
           /\ UNCHANGED <<pdur, mem, shown>>
        \/ op' = [op EXCEPT !.sure = FALSE, !.pc = "postscan"] /\ UNCHANGED <<pkg, pdur, mem, consent, shown>>
        \/ \E r \in {g, pkg[op.o]} : Put(op.o, r) /\ Shown(Renumbered(mem, op.cand)) /\ End /\ UNCHANGED consent
    BY DEF Promote, Show, Shown, PublishImport
  <1> HIDE DEF l, z, g
  <1>8. CASE /\ pkg' = l /\ pdur' = [pdur EXCEPT ![op.o] = pkg'[op.o]] /\ consent' = z
             /\ Goto("register") /\ UNCHANGED <<mem, shown>>
    <2>1. op' \in Ops /\ op'.pc = "register" /\ SameOp(op', op)
      BY <1>8, GotoFields DEF Steps
    <2>2. pkg'[op.o] \in Packages
      BY <1>2, <1>4, <1>8
    <2>3. /\ pdur' \in [Objs -> Packages] /\ pdur'[op.o] = pkg'[op.o]
          /\ \A q \in Objs \ {op.o} : pdur'[q] = pdur[q]
      BY <1>2, <1>8, <2>2
    <2>4. PluginsTypeOK'
      BY <1>1, <1>2, <1>4, <1>5, <1>8, <2>1, <2>3 DEF PluginsTypeOK, SameOp
    <2> QED BY <1>1, <1>2, <1>4, <1>8, <2>1, <2>3, <2>4 DEF z
  <1>9. CASE /\ pkg' = l /\ consent' = z /\ op' = [op EXCEPT !.sure = FALSE, !.pc = "postscan"]
             /\ UNCHANGED <<pdur, mem, shown>>
    <2>1. op' \in Ops /\ op'.pc = "postscan" /\ SameOp(op', op)
      BY <1>2, <1>9 DEF Ops, SameOp
    <2>2. PluginsTypeOK'
      BY <1>1, <1>2, <1>4, <1>5, <1>9, <2>1 DEF PluginsTypeOK, SameOp
    <2> QED BY <1>1, <1>2, <1>4, <1>9, <2>1, <2>2 DEF z
  <1>10. CASE op' = [op EXCEPT !.sure = FALSE, !.pc = "postscan"] /\ UNCHANGED <<pkg, pdur, mem, consent, shown>>
    <2>1. op' \in Ops /\ op'.pc = "postscan" /\ SameOp(op', op)
      BY <1>2, <1>10 DEF Ops, SameOp
    <2>2. PluginsTypeOK'
      BY <1>1, <1>2, <1>10, <2>1 DEF PluginsTypeOK, SameOp
    <2> QED BY <1>1, <1>2, <1>10, <2>1, <2>2
  <1>11. CASE \E r \in {g, pkg[op.o]} : Put(op.o, r) /\ Shown(Renumbered(mem, op.cand)) /\ End /\ UNCHANGED consent
    <2>1. PICK r \in {g, pkg[op.o]} : Put(op.o, r) /\ Shown(Renumbered(mem, op.cand)) /\ End /\ UNCHANGED consent
      BY <1>11
    <2>2. r \in Packages /\ r.at \in {"gone", pkg[op.o].at}
      BY <1>2, <1>6
    <2>3. /\ pkg' \in [Objs -> Packages] /\ pdur' \in [Objs -> Packages]
          /\ pkg'[op.o] = r /\ pdur'[op.o] = r
          /\ \A q \in Objs \ {op.o} : pkg'[q] = pkg[q] /\ pdur'[q] = pdur[q]
      BY <1>2, <2>1, <2>2, PutFields
    <2>4. SameTypes
      BY <1>1, <1>3, <2>1, <2>3 DEF SameTypes, PluginsTypeOK, Shown
    <2>5. PluginsTypeOK' /\ op'.pc = "idle" /\ op'.kind = "none" /\ op' = NoOp
      BY <2>1, <2>4, EndType DEF End
    <2> QED BY <1>1, <1>2, <2>1, <2>2, <2>3, <2>5
  <1> QED BY <1>7, <1>8, <1>9, <1>10, <1>11

LEMMA MarkedFields ==
  ASSUME PluginsTypeOK, op.o \in Objs, NEW out \in Outcomes, NEW m \in {"none", "managed", "removing"}
  PROVE  LET x == [op.cand.idx EXCEPT ![op.o] = m]
             c == IF Committed(out) THEN [op.cand EXCEPT !.idx = x] ELSE op.cand
         IN  /\ x \in Index /\ x[op.o] = m /\ \A q \in Objs \ {op.o} : x[q] = op.cand.idx[q]
             /\ c \in Registries /\ c.own = op.cand.own /\ SameRest(c, op.cand)
             /\ out = "failed" => c = op.cand
             /\ out # "failed" => c.idx = x
  <1> DEFINE x == [op.cand.idx EXCEPT ![op.o] = m]
             e == [op.cand EXCEPT !.idx = x]
             c == IF Committed(out) THEN e ELSE op.cand
  <1>1. op.cand \in Registries /\ op.cand.idx \in Index
    BY DEF PluginsTypeOK, Ops, Registries
  <1>2. x \in Index /\ x[op.o] = m /\ \A q \in Objs \ {op.o} : x[q] = op.cand.idx[q]
    BY <1>1 DEF Index
  <1> HIDE DEF x
  <1>3. e \in Registries /\ e.idx = x /\ e.own = op.cand.own /\ SameRest(e, op.cand)
    BY <1>1, <1>2, EntriesField DEF SameRest
  <1> HIDE DEF e
  <1>4. /\ c \in Registries /\ c.own = op.cand.own /\ SameRest(c, op.cand)
        /\ out = "failed" => c = op.cand
        /\ out # "failed" => c.idx = x
    BY <1>1, <1>3 DEF Committed, SameRest
  <1> QED BY <1>2, <1>4 DEF x, e

\* A save of the index in which the entry of the package at hand is m, and what memory
\* makes of it.
Entry(m) == [op.cand.idx EXCEPT ![op.o] = m]
Kept(c, out, m) ==
    /\ c \in Registries /\ c.own = op.cand.own /\ SameRest(c, op.cand)
    /\ out = "failed" => c = op.cand
    /\ out # "failed" => c.idx = Entry(m)

LEMMA RegisterStep ==
  ASSUME PluginsTypeOK, Register
  PROVE  /\ PluginsTypeOK'
         /\ UNCHANGED <<pkg, pdur, consent, undone, loose, lost, shown>>
         /\ op.pc = "register" /\ op.o \in Objs /\ op.kind = "import"
         /\ op'.pc = "postscan" /\ op'.kind = op.kind /\ op'.o = op.o /\ op'.clean = op.clean
         /\ \E c \in Registries :
              /\ mem' = AdoptImport(mem, c) /\ op'.cand = c
              /\ \/ /\ Registrable(op.cand, op.o) /\ Entry("managed") \in Index
                    /\ \E out \in Outcomes : Save("idx", Entry("managed"), out) /\ Kept(c, out, "managed")
                 \/ c = op.cand /\ UNCHANGED <<disk, ddur>>
  <1>1. UNCHANGED <<pkg, pdur, consent, undone, loose, lost, shown>> /\ op.pc = "register"
    BY DEF Register, told
  <1>2. /\ op.o \in Objs /\ op.kind = "import" /\ op \in Ops /\ op.cand \in Registries /\ mem \in Registries
    BY <1>1 DEF PluginsTypeOK, Ops
  <1>3. CASE ~Registrable(op.cand, op.o)
    <2>1. mem' = AdoptImport(mem, op.cand) /\ Goto("postscan") /\ UNCHANGED <<disk, ddur>>
      BY <1>3 DEF Register
    <2>2. op' \in Ops /\ op'.pc = "postscan" /\ SameOp(op', op)
      BY <2>1, GotoFields DEF Steps
    <2>3. mem' \in Registries
      BY <1>2, <2>1, AdoptImportFields
    <2>4. PluginsTypeOK'
      BY <1>1, <1>2, <2>1, <2>2, <2>3 DEF PluginsTypeOK, SameOp
    <2> QED BY <1>1, <1>2, <2>1, <2>2, <2>4 DEF SameOp
  <1>4. CASE Registrable(op.cand, op.o)
    <2>1. PICK out \in Outcomes :
             LET c == IF Committed(out) THEN [op.cand EXCEPT !.idx[op.o] = "managed"] ELSE op.cand
             IN  /\ Save("idx", [op.cand.idx EXCEPT ![op.o] = "managed"], out)
                 /\ mem' = AdoptImport(mem, c)
                 /\ op' = [op EXCEPT !.cand = c, !.sure = out # "unsynced", !.pc = "postscan"]
      BY <1>4 DEF Register
    <2> DEFINE x == [op.cand.idx EXCEPT ![op.o] = "managed"]
               c == IF Committed(out) THEN [op.cand EXCEPT !.idx = x] ELSE op.cand
    <2>2. /\ Save("idx", x, out) /\ mem' = AdoptImport(mem, c)
          /\ op' = [op EXCEPT !.cand = c, !.sure = out # "unsynced", !.pc = "postscan"]
      <3>1. [op.cand EXCEPT !.idx[op.o] = "managed"] = [op.cand EXCEPT !.idx = x]
        BY <1>2 DEF Registries
      <3> QED BY <2>1, <3>1
    <2>3. x \in Index /\ Kept(c, out, "managed") /\ x = Entry("managed")
      BY <1>2, MarkedFields DEF Kept, Entry
    <2> HIDE DEF x, c
    <2>4. c \in Registries
      BY <2>3 DEF Kept
    <2>5. /\ op' \in Ops /\ op'.pc = "postscan" /\ op'.kind = op.kind /\ op'.o = op.o /\ op'.clean = op.clean
          /\ op'.cand = c
      BY <1>2, <2>2, <2>4 DEF Ops
    <2>6. mem' \in Registries
      BY <1>2, <2>2, <2>4, AdoptImportFields
    <2>7. disk' \in Disks /\ ddur' \in Disks
      BY <2>2, <2>3, SavedIndex
    <2>8. PluginsTypeOK'
      BY <1>1, <1>2, <2>5, <2>6, <2>7 DEF PluginsTypeOK
    <2> QED BY <1>1, <1>2, <1>4, <2>2, <2>3, <2>4, <2>5, <2>8
  <1> QED BY <1>3, <1>4

LEMMA PostscanStep ==
  ASSUME PluginsTypeOK, Postscan
  PROVE  /\ PluginsTypeOK'
         /\ UNCHANGED <<pkg, pdur, disk, ddur, mem, consent, undone, loose, lost, shown>>
         /\ op.pc = "postscan" /\ op.kind = "import"
         /\ \/ op' = NoOp /\ op'.pc = "idle" /\ op'.kind = "none"
            \/ /\ op'.pc = "load" /\ op'.kind = "published" /\ op'.o = op.o /\ op'.base = op.cand /\ op'.cand = op.cand
               /\ op'.clean = op.clean
               /\ \E l \in BOOLEAN, q \in BOOLEAN : op'.scan = Photo(l, q)
  <1>1. UNCHANGED <<pkg, pdur, disk, ddur, mem, consent, undone, loose, lost, shown>> /\ op.pc = "postscan"
    BY DEF Postscan, disks, told
  <1>2. op.o \in Objs /\ op.kind = "import" /\ op \in Ops /\ op.cand \in Registries
    BY <1>1 DEF PluginsTypeOK, Ops
  <1>3. PICK s \in Scans :
          op' = IF s.v.local THEN [op EXCEPT !.pc = "load", !.kind = "published", !.scan = s.v, !.base = op.cand]
                ELSE NoOp
    BY DEF Postscan
  <1>4. s.v \in Photos /\ \E l \in BOOLEAN, q \in BOOLEAN : s.v = Photo(l, q)
    BY ScansType
  <1>5. CASE op' = NoOp
    <2>1. SameTypes
      BY <1>1 DEF SameTypes, PluginsTypeOK
    <2> QED BY <1>1, <1>2, <1>5, <2>1, EndType DEF End
  <1>6. CASE op' = [op EXCEPT !.pc = "load", !.kind = "published", !.scan = s.v, !.base = op.cand]
    <2>1. /\ op' \in Ops /\ op'.pc = "load" /\ op'.kind = "published" /\ op'.o = op.o /\ op'.base = op.cand
          /\ op'.cand = op.cand /\ op'.clean = op.clean /\ op'.scan = s.v
      BY <1>2, <1>4, <1>6 DEF Ops
    <2>2. PluginsTypeOK'
      BY <1>1, <1>2, <2>1 DEF PluginsTypeOK
    <2> QED BY <1>1, <1>2, <1>4, <2>1, <2>2
  <1> QED BY <1>3, <1>5, <1>6

LEMMA ImportedStep ==
  ASSUME PluginsTypeOK, Imported
  PROVE  /\ PluginsTypeOK'
         /\ UNCHANGED <<pkg, pdur, disk, ddur, consent, undone, loose, lost>>
         /\ op.pc = "apply" /\ op.kind = "published" /\ op' = NoOp /\ op'.pc = "idle" /\ op'.kind = "none"
         /\ \/ UNCHANGED <<mem, shown>>
            \/ \E t \in Stated : Read(t) /\ Shown(Renumbered(mem, Applied(t)))
  <1>1. /\ UNCHANGED <<pkg, pdur, disk, ddur, consent, undone, loose, lost>> /\ op.pc = "apply" /\ op.kind = "published"
        /\ End
    BY DEF Imported, disks, told
  <1>2. PICK s \in States : IF op.sure THEN Show(PublishImport(Applied(s.v))) ELSE UNCHANGED <<mem, shown>>
    BY DEF Imported
  <1> DEFINE t == s.v
             a == Applied(t)
  <1>3. Read(t) /\ t \in Stated
    BY StatesType DEF Read
  <1>4. a \in Registries /\ mem \in Registries
    BY <1>3, AppliedFields DEF PluginsTypeOK
  <1>5. Renumbered(mem, a) \in Registries
    BY <1>4, RenumberedFields
  <1>6. Shown(Renumbered(mem, a)) \/ UNCHANGED <<mem, shown>>
    BY <1>2 DEF Show, Shown, PublishImport
  <1>7. SameTypes
    BY <1>1, <1>4, <1>5, <1>6 DEF SameTypes, PluginsTypeOK, Shown
  <1>8. PluginsTypeOK' /\ op'.pc = "idle" /\ op'.kind = "none" /\ op' = NoOp
    BY <1>1, <1>7, EndType DEF End
  <1> QED BY <1>1, <1>3, <1>6, <1>8
-----------------------------------------------------------------------------
LEMMA RemoveStep ==
  ASSUME PluginsTypeOK, NEW o \in Objs, Remove(o)
  PROVE  /\ PluginsTypeOK'
         /\ UNCHANGED <<pkg, pdur, disk, ddur, mem, consent, undone, loose, lost, shown>>
         /\ op.pc = "idle" /\ Removable(o)
         /\ op'.pc = "off" /\ op'.kind = "removal" /\ op'.o = o /\ op'.base = mem /\ op'.cand = mem
         /\ op'.clean = "none"
  <1>1. UNCHANGED <<pkg, pdur, disk, ddur, mem, consent, undone, loose, lost, shown>> /\ op.pc = "idle" /\ Removable(o)
    BY DEF Remove, disks, told
  <1>2. op' = [NoOp EXCEPT !.pc = "off", !.kind = "removal", !.o = o, !.base = mem, !.cand = mem, !.sure = FALSE]
    BY DEF Remove
  <1>3. mem \in Registries
    BY DEF PluginsTypeOK
  <1>4. /\ op' \in Ops /\ op'.pc = "off" /\ op'.kind = "removal" /\ op'.o = o /\ op'.base = mem /\ op'.cand = mem
        /\ op'.clean = "none"
    BY <1>2, <1>3, NoOpFields DEF Ops
  <1>5. PluginsTypeOK'
    BY <1>1, <1>4 DEF PluginsTypeOK
  <1> QED BY <1>1, <1>4, <1>5

LEMMA SaveDisabledStep ==
  ASSUME PluginsTypeOK, SaveDisabled
  PROVE  /\ PluginsTypeOK'
         /\ UNCHANGED <<pkg, pdur, consent, undone, loose, lost>>
         /\ op.pc = "off" /\ op.o \in Objs /\ op.kind = "removal"
         /\ \E out \in Outcomes, st \in Decisions, c \in Registries :
              /\ Save("st", st, out)
              /\ ~st[IdOf[op.o]].on /\ \A j \in Ids \ {IdOf[op.o]} : st[j] = op.cand.st[j]
              /\ c.idx = op.cand.idx /\ c.own = op.cand.own /\ c.gen = op.cand.gen
              /\ c.scan = op.cand.scan /\ c.cls = op.cand.cls /\ c.sum = op.cand.sum /\ c.unrec = op.cand.unrec
              /\ out = "failed" => c = op.cand
              /\ out # "failed" => c.st = st /\ c.sto = "ok"
              /\ \/ /\ out = "failed" /\ op' = NoOp /\ op'.pc = "idle" /\ op'.kind = "none"
                    /\ mem' = AdoptRemoval(mem, c) /\ UNCHANGED shown
                 \/ /\ out = "unsynced" /\ op' = NoOp /\ op'.pc = "idle" /\ op'.kind = "none"
                    /\ Shown(PublishOnce(op.base, Reconciled(c, op.base.scan)))
                 \/ /\ out = "durable" /\ op'.pc = "mark" /\ op'.kind = op.kind /\ op'.o = op.o /\ op'.base = op.base
                    /\ op'.cand = c /\ op'.clean = op.clean
                    /\ mem' = AdoptRemoval(mem, c) /\ UNCHANGED shown
  <1>1. UNCHANGED <<pkg, pdur, consent, undone, loose, lost>> /\ op.pc = "off"
    BY DEF SaveDisabled, told
  <1>2. /\ op.o \in Objs /\ op.kind = "removal" /\ op \in Ops /\ op.cand \in Registries /\ op.base \in Registries
        /\ mem \in Registries /\ op.base.scan \in Photos
    BY <1>1 DEF PluginsTypeOK, Ops, Registries
  <1> DEFINE st == Decided(op.cand.st, IdOf[op.o], 1, FALSE)
  <1>3. PICK out \in Outcomes :
          LET c == IF Committed(out) THEN WithState(op.cand, [st |-> st, sto |-> "ok"]) ELSE op.cand
          IN  /\ Save("st", st, out)
              /\ IF Barrier(out) \/ ~Committed(out)
                 THEN mem' = AdoptRemoval(mem, c) /\ UNCHANGED shown
                 ELSE Show(PublishOnce(op.base, Reconciled(c, op.base.scan)))
              /\ op' = IF Barrier(out) THEN [op EXCEPT !.cand = c, !.pc = "mark"] ELSE NoOp
    BY DEF SaveDisabled
  <1> DEFINE c == IF Committed(out) THEN WithState(op.cand, [st |-> st, sto |-> "ok"]) ELSE op.cand
             n == Reconciled(c, op.base.scan)
             b == PublishOnce(op.base, n)
  <1>4. /\ st \in Decisions /\ ~st[IdOf[op.o]].on /\ \A j \in Ids \ {IdOf[op.o]} : st[j] = op.cand.st[j]
        /\ c \in Registries /\ c.idx = op.cand.idx /\ c.own = op.cand.own /\ c.gen = op.cand.gen
        /\ c.scan = op.cand.scan /\ c.cls = op.cand.cls /\ c.sum = op.cand.sum /\ c.unrec = op.cand.unrec
        /\ out = "failed" => c = op.cand
        /\ out # "failed" => c.st = st /\ c.sto = "ok"
    BY <1>2, SwitchedOff
  <1>5. /\ Save("st", st, out)
        /\ \/ /\ out = "failed" /\ op' = NoOp /\ mem' = AdoptRemoval(mem, c) /\ UNCHANGED shown
           \/ out = "unsynced" /\ op' = NoOp /\ Shown(b)
           \/ /\ out = "durable" /\ op' = [op EXCEPT !.cand = c, !.pc = "mark"]
              /\ mem' = AdoptRemoval(mem, c) /\ UNCHANGED shown
    BY <1>3 DEF Barrier, Committed, Outcomes, Show, Shown
  <1> HIDE DEF st, c
  <1>6. n \in Registries
    BY <1>2, <1>4, ReconciledFields
  <1> HIDE DEF n
  <1>7. b \in Registries /\ AdoptRemoval(mem, c) \in Registries
    BY <1>2, <1>4, <1>6, PublishOnceFields, AdoptRemovalFields
  <1>8. disk' \in Disks /\ ddur' \in Disks
    BY <1>4, <1>5, SavedState
  <1>9. SameTypes
    BY <1>1, <1>5, <1>7, <1>8 DEF SameTypes, PluginsTypeOK, Shown
  <1>10. CASE op' = NoOp
    <2>1. PluginsTypeOK' /\ op'.pc = "idle" /\ op'.kind = "none"
      BY <1>9, <1>10, EndType DEF End
    <2>2. out \in {"failed", "unsynced"}
      <3>1. op.pc = "off" /\ NoOp.pc = "idle" /\ op \in Ops
        BY <1>1, <1>2, NoOpFields
      <3>2. op' = [op EXCEPT !.cand = c, !.pc = "mark"] => op'.pc = "mark"
        BY <3>1 DEF Ops
      <3> QED BY <1>5, <1>10, <3>1, <3>2
    <2> QED BY <1>1, <1>2, <1>4, <1>5, <1>10, <2>1, <2>2 DEF b, n
  <1>11. CASE out = "durable" /\ op' = [op EXCEPT !.cand = c, !.pc = "mark"]
    <2>1. /\ op' \in Ops /\ op'.pc = "mark" /\ op'.kind = op.kind /\ op'.o = op.o /\ op'.base = op.base
          /\ op'.cand = c /\ op'.clean = op.clean
      BY <1>2, <1>4, <1>11 DEF Ops
    <2>2. PluginsTypeOK'
      BY <1>2, <1>9, <2>1 DEF SameTypes, PluginsTypeOK
    <2> QED BY <1>1, <1>2, <1>4, <1>5, <1>11, <2>1, <2>2
  <1> QED BY <1>5, <1>10, <1>11

LEMMA MarkRemovingStep ==
  ASSUME PluginsTypeOK, MarkRemoving
  PROVE  /\ PluginsTypeOK'
         /\ UNCHANGED <<pkg, pdur, consent, undone, loose, lost, shown>>
         /\ op.pc = "mark" /\ op.o \in Objs /\ op.kind = "removal"
         /\ op'.kind = op.kind /\ op'.o = op.o /\ op'.base = op.base /\ op'.clean = op.clean
         /\ Entry("removing") \in Index
         /\ \E out \in Outcomes, c \in Registries :
              /\ Save("idx", Entry("removing"), out) /\ Kept(c, out, "removing")
              /\ mem' = AdoptRemoval(mem, c) /\ op'.cand = c
              /\ op'.pc = IF out = "durable" THEN "rename" ELSE "rollback"
  <1>1. UNCHANGED <<pkg, pdur, consent, undone, loose, lost, shown>> /\ op.pc = "mark"
    BY DEF MarkRemoving, told
  <1>2. op.o \in Objs /\ op.kind = "removal" /\ op \in Ops /\ op.cand \in Registries /\ mem \in Registries
    BY <1>1 DEF PluginsTypeOK, Ops
  <1> DEFINE x == Entry("removing")
  <1>3. PICK out \in Outcomes :
          LET c == IF Committed(out) THEN [op.cand EXCEPT !.idx = x] ELSE op.cand
          IN  /\ Save("idx", x, out)
              /\ mem' = AdoptRemoval(mem, c)
              /\ op' = [op EXCEPT !.cand = c, !.pc = IF Barrier(out) THEN "rename" ELSE "rollback"]
    BY DEF MarkRemoving, Entry
  <1> DEFINE c == IF Committed(out) THEN [op.cand EXCEPT !.idx = x] ELSE op.cand
             p == IF out = "durable" THEN "rename" ELSE "rollback"
  <1>4. Save("idx", x, out) /\ mem' = AdoptRemoval(mem, c) /\ op' = [op EXCEPT !.cand = c, !.pc = p]
    BY <1>3 DEF Barrier
  <1>5. x \in Index /\ Kept(c, out, "removing")
    BY <1>2, MarkedFields DEF Kept, Entry
  <1> HIDE DEF x, c
  <1>6. c \in Registries /\ p \in {"rename", "rollback"}
    BY <1>5 DEF Kept
  <1>7. mem' \in Registries
    BY <1>2, <1>4, <1>6, AdoptRemovalFields
  <1>8. disk' \in Disks /\ ddur' \in Disks
    BY <1>4, <1>5, SavedIndex
  <1> HIDE DEF p
  <1>9. /\ op' \in Ops /\ op'.kind = op.kind /\ op'.o = op.o /\ op'.base = op.base /\ op'.clean = op.clean
        /\ op'.cand = c /\ op'.pc = p
    BY <1>2, <1>4, <1>6 DEF Ops
  <1>10. PluginsTypeOK'
    BY <1>1, <1>2, <1>6, <1>7, <1>8, <1>9 DEF PluginsTypeOK
  <1> QED BY <1>1, <1>2, <1>4, <1>5, <1>6, <1>9, <1>10 DEF x, p

LEMMA QuarantineStep ==
  ASSUME PluginsTypeOK, Quarantine
  PROVE  /\ PluginsTypeOK'
         /\ UNCHANGED <<disk, ddur, mem, consent, undone, loose, lost, shown>>
         /\ op.pc = "rename" /\ op.o \in Objs /\ op.kind = "removal" /\ SameOp(op', op)
         /\ \A q \in Objs \ {op.o} : pkg'[q] = pkg[q] /\ pdur'[q] = pdur[q]
         /\ \/ op'.pc \in {"rollback", "look"} /\ UNCHANGED <<pkg, pdur>>
            \/ /\ pkg[op.o].at = "local" /\ pkg[op.o].kind = "ours" /\ op'.pc = "look"
               /\ pkg'[op.o].at = "quar" /\ pdur'[op.o] \in {pdur[op.o], pkg'[op.o]}
  <1>1. UNCHANGED <<disk, ddur, mem, consent, undone, loose, lost, shown>> /\ op.pc = "rename"
    BY DEF Quarantine, told
  <1>2. /\ op.o \in Objs /\ op.kind = "removal" /\ op \in Ops /\ pkg \in [Objs -> Packages]
        /\ pdur \in [Objs -> Packages]
    BY <1>1 DEF PluginsTypeOK
  <1> DEFINE l == Placed(op.o, "quar")
  <1>3. l \in [Objs -> Packages] /\ l[op.o].at = "quar" /\ \A q \in Objs \ {op.o} : l[q] = pkg[q]
    BY <1>2, PlacedFields DEF Places
  <1>4. \/ (Goto("rollback") \/ Goto("look")) /\ UNCHANGED <<pkg, pdur>>
        \/ /\ pkg[op.o].at = "local" /\ pkg[op.o].kind = "ours" /\ pkg' = l
           /\ \/ pdur' = [pdur EXCEPT ![op.o] = pkg'[op.o]] /\ op' = [op EXCEPT !.sure = TRUE, !.pc = "look"]
              \/ Goto("look") /\ UNCHANGED pdur
    BY DEF Quarantine, Intact
  <1> HIDE DEF l
  <1>5. CASE (Goto("rollback") \/ Goto("look")) /\ UNCHANGED <<pkg, pdur>>
    <2>1. op' \in Ops /\ op'.pc \in {"rollback", "look"} /\ SameOp(op', op)
      BY <1>5, GotoFields DEF Steps
    <2>2. PluginsTypeOK'
      BY <1>1, <1>2, <1>5, <2>1 DEF PluginsTypeOK, SameOp
    <2> QED BY <1>1, <1>2, <1>5, <2>1, <2>2
  <1>6. CASE /\ pkg[op.o].at = "local" /\ pkg[op.o].kind = "ours" /\ pkg' = l
             /\ \/ pdur' = [pdur EXCEPT ![op.o] = pkg'[op.o]] /\ op' = [op EXCEPT !.sure = TRUE, !.pc = "look"]
                \/ Goto("look") /\ UNCHANGED pdur
    <2>1. op' \in Ops /\ op'.pc = "look" /\ SameOp(op', op)
      <3>1. CASE op' = [op EXCEPT !.sure = TRUE, !.pc = "look"]
        BY <1>2, <3>1 DEF Ops, SameOp
      <3>2. CASE Goto("look")
        BY <3>2, GotoFields DEF Steps
      <3> QED BY <1>6, <3>1, <3>2
    <2>2. pkg'[op.o] \in Packages
      BY <1>2, <1>3, <1>6
    <2>3. /\ pdur' \in [Objs -> Packages] /\ pdur'[op.o] \in {pdur[op.o], pkg'[op.o]}
          /\ \A q \in Objs \ {op.o} : pdur'[q] = pdur[q]
      BY <1>2, <1>6, <2>2
    <2>4. PluginsTypeOK'
      BY <1>1, <1>2, <1>3, <1>6, <2>1, <2>3 DEF PluginsTypeOK, SameOp
    <2> QED BY <1>1, <1>2, <1>3, <1>6, <2>1, <2>3, <2>4
  <1> QED BY <1>4, <1>5, <1>6

LEMMA LookStep ==
  ASSUME PluginsTypeOK, Look
  PROVE  /\ PluginsTypeOK'
         /\ UNCHANGED <<pkg, pdur, disk, ddur, mem, consent, undone, loose, lost, shown>>
         /\ op.pc = "look" /\ op.o \in Objs /\ op.kind = "removal"
         /\ op'.kind = op.kind /\ op'.o = op.o /\ op'.base = op.base /\ op'.cand = op.cand
         /\ op'.pc = "delete" \/ (op'.pc = "forget" /\ op'.clean = "conflict")
  <1>1. UNCHANGED <<pkg, pdur, disk, ddur, mem, consent, undone, loose, lost, shown>> /\ op.pc = "look"
    BY DEF Look, disks, told
  <1>2. op.o \in Objs /\ op.kind = "removal" /\ op \in Ops
    BY <1>1 DEF PluginsTypeOK
  <1>3. PICK s \in Scans : op' = [op EXCEPT !.scan = s.v, !.pc = IF op.sure THEN "delete" ELSE "forget",
                                            !.clean = IF op.sure THEN @ ELSE "conflict"]
    BY DEF Look
  <1>4. s.v \in Photos
    BY ScansType
  <1>5. CASE op.sure
    <2>1. op' = [op EXCEPT !.scan = s.v, !.pc = "delete"]
      BY <1>2, <1>3, <1>5 DEF Ops
    <2>2. /\ op' \in Ops /\ op'.kind = op.kind /\ op'.o = op.o /\ op'.base = op.base /\ op'.cand = op.cand
          /\ op'.pc = "delete"
      BY <1>2, <1>4, <2>1 DEF Ops
    <2>3. PluginsTypeOK'
      BY <1>1, <1>2, <2>2 DEF PluginsTypeOK
    <2> QED BY <1>1, <1>2, <2>2, <2>3
  <1>6. CASE ~op.sure
    <2>1. op' = [op EXCEPT !.scan = s.v, !.pc = "forget", !.clean = "conflict"]
      BY <1>2, <1>3, <1>6 DEF Ops
    <2>2. /\ op' \in Ops /\ op'.kind = op.kind /\ op'.o = op.o /\ op'.base = op.base /\ op'.cand = op.cand
          /\ op'.pc = "forget" /\ op'.clean = "conflict"
      BY <1>2, <1>4, <2>1 DEF Ops
    <2>3. PluginsTypeOK'
      BY <1>1, <1>2, <2>2 DEF PluginsTypeOK
    <2> QED BY <1>1, <1>2, <2>2, <2>3
  <1> QED BY <1>5, <1>6
-----------------------------------------------------------------------------
LEMMA StopFields ==
  ASSUME PluginsTypeOK, NEW s \in {"removed", "absent", "conflict"} \cup Shapes, Stop(s)
  PROVE  /\ op' \in Ops /\ op'.kind = op.kind /\ op'.o = op.o /\ op'.base = op.base /\ op'.cand = op.cand
         /\ op'.scan = op.scan /\ op'.pc = "forget" /\ op'.clean = s
  BY DEF Stop, PluginsTypeOK, Ops

LEMMA DeleteStep ==
  ASSUME PluginsTypeOK, Delete
  PROVE  /\ PluginsTypeOK'
         /\ UNCHANGED <<disk, ddur, mem, consent, undone, loose, lost, shown>>
         /\ op.pc = "delete" /\ op.o \in Objs /\ op.kind = "removal"
         /\ op'.kind = op.kind /\ op'.o = op.o /\ op'.base = op.base /\ op'.cand = op.cand /\ op'.scan = op.scan
         /\ \A q \in Objs \ {op.o} : pkg'[q] = pkg[q] /\ pdur'[q] = pdur[q]
         /\ \/ /\ op'.pc = "delete" /\ pkg[op.o].at = "quar" /\ pkg[op.o].kind = "ours"
               /\ pkg'[op.o].at \in {"quar", "gone"} /\ UNCHANGED pdur
            \/ /\ op'.pc = "forget" /\ UNCHANGED pkg
               /\ op'.clean \in {"removed", "absent"} => pkg[op.o].at = "gone"
               /\ pdur'[op.o] = pdur[op.o] \/ (pdur'[op.o] = pkg[op.o] /\ pkg[op.o].at = "gone")
  <1>1. UNCHANGED <<disk, ddur, mem, consent, undone, loose, lost, shown>> /\ op.pc = "delete"
    BY DEF Delete, told
  <1>2. /\ op.o \in Objs /\ op.kind = "removal" /\ op \in Ops /\ pkg \in [Objs -> Packages]
        /\ pdur \in [Objs -> Packages] /\ pkg[op.o] \in Packages
    BY <1>1 DEF PluginsTypeOK
  <1>3. CASE /\ pkg[op.o].at = "quar" /\ Intact(op.o) /\ pkg[op.o].shape # "empty"
             /\ pkg' = [pkg EXCEPT ![op.o].shape = Less(@)] /\ UNCHANGED <<pdur, op>>
    <2> DEFINE s == Less(pkg[op.o].shape)
               e == [pkg[op.o] EXCEPT !.shape = s]
    <2>1. s \in Shapes
      BY <1>2, <1>3 DEF Less, Shapes, Packages
    <2> HIDE DEF s
    <2>2. e \in Packages /\ e.at = "quar"
      BY <1>2, <1>3, <2>1 DEF Packages
    <2>3. pkg' = [pkg EXCEPT ![op.o] = e]
      BY <1>2, <1>3 DEF s
    <2> HIDE DEF e
    <2>4. /\ pkg' \in [Objs -> Packages] /\ pkg'[op.o].at = "quar" /\ \A q \in Objs \ {op.o} : pkg'[q] = pkg[q]
      BY <1>2, <2>2, <2>3
    <2>5. PluginsTypeOK'
      BY <1>1, <1>3, <2>4 DEF PluginsTypeOK
    <2> QED BY <1>1, <1>2, <1>3, <2>4, <2>5 DEF Intact
  <1>4. CASE /\ pkg[op.o].at = "quar" /\ Intact(op.o)
             /\ pkg' = Placed(op.o, "gone") /\ UNCHANGED <<pdur, op>>
    <2>1. /\ pkg' \in [Objs -> Packages] /\ pkg'[op.o].at = "gone" /\ \A q \in Objs \ {op.o} : pkg'[q] = pkg[q]
      BY <1>2, <1>4, PlacedFields DEF Places
    <2>2. PluginsTypeOK'
      BY <1>1, <1>4, <2>1 DEF PluginsTypeOK
    <2> QED BY <1>1, <1>2, <1>4, <2>1, <2>2 DEF Intact
  <1>5. CASE pkg[op.o].at = "gone" /\ pdur' = [pdur EXCEPT ![op.o] = pkg[op.o]] /\ Stop("removed") /\ UNCHANGED pkg
    <2>1. /\ op' \in Ops /\ op'.kind = op.kind /\ op'.o = op.o /\ op'.base = op.base /\ op'.cand = op.cand
          /\ op'.scan = op.scan /\ op'.pc = "forget" /\ op'.clean = "removed"
      BY <1>5, StopFields
    <2>2. /\ pdur' \in [Objs -> Packages] /\ pdur'[op.o] = pkg[op.o] /\ \A q \in Objs \ {op.o} : pdur'[q] = pdur[q]
      BY <1>2, <1>5
    <2>3. PluginsTypeOK'
      BY <1>1, <1>2, <1>5, <2>1, <2>2 DEF PluginsTypeOK
    <2> QED BY <1>1, <1>2, <1>5, <2>1, <2>2, <2>3
  <1>6. CASE Stop(KnownShape(op.o)) /\ UNCHANGED <<pkg, pdur>>
    <2> DEFINE s == KnownShape(op.o)
    <2>1. s \in {"removed", "absent", "conflict"} \cup Shapes /\ (s \in {"removed", "absent"} => pkg[op.o].at = "gone")
      BY <1>2 DEF KnownShape, Packages, Shapes
    <2>2. Stop(s)
      BY <1>6
    <2> HIDE DEF s
    <2>3. /\ op' \in Ops /\ op'.kind = op.kind /\ op'.o = op.o /\ op'.base = op.base /\ op'.cand = op.cand
          /\ op'.scan = op.scan /\ op'.pc = "forget" /\ op'.clean = s
      BY <2>1, <2>2, StopFields
    <2>4. PluginsTypeOK'
      BY <1>1, <1>2, <1>6, <2>1, <2>3 DEF PluginsTypeOK, Shapes
    <2> QED BY <1>1, <1>2, <1>6, <2>1, <2>3, <2>4
  <1> QED BY <1>3, <1>4, <1>5, <1>6 DEF Delete

LEMMA ObservedFields ==
  ASSUME PluginsTypeOK, op.o \in Objs, op.pc = "forget"
  PROVE  Observed \in Photos /\ Readable(Observed) = Readable(op.scan)
  <1>1. op.scan \in Photos /\ op.clean \in {"removed", "absent", "conflict"} \cup Shapes
    BY DEF PluginsTypeOK, Ops
  <1>2. ASSUME NEW v \in Packages
        PROVE  LET f == [op.scan EXCEPT !.p[op.o] = v] IN f \in Photos /\ Readable(f) = Readable(op.scan)
    BY <1>1, <1>2 DEF Photos, Readable
  <1>3. CASE op.clean = "conflict"
    BY <1>1, <1>3 DEF Observed
  <1>4. CASE op.clean \in {"removed", "absent"}
    BY <1>2, <1>4, ConstantTypes DEF Observed
  <1>5. CASE op.clean \notin {"conflict", "removed", "absent"}
    <2> DEFINE v == [at |-> "quar", kind |-> "ours", shape |-> op.clean]
    <2>1. v \in Packages
      BY <1>1, <1>5 DEF Packages, Places
    <2>2. Observed = [op.scan EXCEPT !.p[op.o] = v]
      BY <1>5 DEF Observed
    <2> HIDE DEF v
    <2> QED BY <1>2, <2>1, <2>2
  <1> QED BY <1>3, <1>4, <1>5

\* What becomes of memory when a removal ends.
Concluded(c) ==
    \/ Publishable /\ Shown(PublishOnce(op.base, Reconciled(c, Observed)))
    \/ mem' = AdoptRemoval(mem, c) /\ UNCHANGED shown

LEMMA ConcludeType ==
  ASSUME PluginsTypeOK, op.o \in Objs, op.pc = "forget", NEW c \in Registries, Conclude(c)
  PROVE  mem' \in Registries /\ Concluded(c)
  <1>1. op.base \in Registries /\ Observed \in Photos /\ mem \in Registries
    BY ObservedFields DEF PluginsTypeOK, Ops
  <1>2. Concluded(c)
    BY DEF Conclude, Concluded, Show, Shown
  <1> DEFINE n == Reconciled(c, Observed)
  <1>3. n \in Registries
    BY <1>1, ReconciledFields
  <1> HIDE DEF n
  <1>4. PublishOnce(op.base, n) \in Registries /\ AdoptRemoval(mem, c) \in Registries
    BY <1>1, <1>3, PublishOnceFields, AdoptRemovalFields
  <1>5. mem' = PublishOnce(op.base, n) \/ mem' = AdoptRemoval(mem, c)
    BY <1>2 DEF Concluded, Shown, n
  <1> QED BY <1>2, <1>4, <1>5

LEMMA ForgetStep ==
  ASSUME PluginsTypeOK, Forget
  PROVE  /\ PluginsTypeOK'
         /\ UNCHANGED <<pkg, pdur, consent, undone, lost>>
         /\ op.pc = "forget" /\ op.o \in Objs /\ op.kind = "removal"
         /\ op' = NoOp /\ op'.pc = "idle" /\ op'.kind = "none"
         /\ Observed \in Photos /\ Readable(Observed) = Readable(op.scan)
         /\ \/ /\ Clean /\ Entry("none") \in Index
               /\ \E out \in Outcomes, c \in Registries :
                    /\ Save("idx", Entry("none"), out) /\ Kept(c, out, "none") /\ Concluded(c)
                    /\ loose' = Loosened(op.o, out # "failed")
            \/ Concluded(op.cand) /\ UNCHANGED <<disk, ddur, loose>>
  <1>1. UNCHANGED <<pkg, pdur, consent, undone, lost>> /\ op.pc = "forget" /\ End
    BY DEF Forget
  <1>2. op.o \in Objs /\ op.kind = "removal" /\ op \in Ops /\ op.cand \in Registries
    BY <1>1 DEF PluginsTypeOK, Ops
  <1>3. Observed \in Photos /\ Readable(Observed) = Readable(op.scan)
    BY <1>1, <1>2, ObservedFields
  <1>4. CASE Clean
    <2> DEFINE x == Entry("none")
    <2>1. PICK out \in Outcomes :
             /\ Save("idx", x, out)
             /\ Conclude(IF Committed(out) THEN [op.cand EXCEPT !.idx = x] ELSE op.cand)
             /\ loose' = Loosened(op.o, Committed(out))
      BY <1>4 DEF Forget, Entry
    <2> DEFINE c == IF Committed(out) THEN [op.cand EXCEPT !.idx = x] ELSE op.cand
    <2>2. x \in Index /\ Kept(c, out, "none")
      BY <1>2, MarkedFields DEF Kept, Entry
    <2>3. Conclude(c) /\ Save("idx", x, out)
      BY <2>1
    <2> HIDE DEF x, c
    <2>4. c \in Registries
      BY <2>2 DEF Kept
    <2>5. mem' \in Registries /\ Concluded(c)
      BY <1>1, <1>2, <2>3, <2>4, ConcludeType
    <2>6. disk' \in Disks /\ ddur' \in Disks
      BY <2>2, <2>3, SavedIndex
    <2>7. loose' = Loosened(op.o, out # "failed")
      <3>1. Committed(out) = (out # "failed")
        BY DEF Committed
      <3> QED BY <2>1, <3>1
    <2>8. loose' \subseteq Objs
      BY <1>2, <2>7 DEF Loosened, PluginsTypeOK
    <2>9. SameTypes
      BY <1>1, <2>5, <2>6, <2>8 DEF SameTypes, PluginsTypeOK
    <2>10. PluginsTypeOK' /\ op'.pc = "idle" /\ op'.kind = "none" /\ op' = NoOp
      BY <1>1, <2>9, EndType DEF End
    <2> QED BY <1>1, <1>2, <1>3, <1>4, <2>2, <2>3, <2>4, <2>5, <2>7, <2>10 DEF x
  <1>5. CASE ~Clean
    <2>1. Conclude(op.cand) /\ UNCHANGED <<disk, ddur, loose>>
      BY <1>5 DEF Forget
    <2>2. mem' \in Registries /\ Concluded(op.cand)
      BY <1>1, <1>2, <2>1, ConcludeType
    <2>3. SameTypes
      BY <1>1, <2>1, <2>2 DEF SameTypes, PluginsTypeOK
    <2>4. PluginsTypeOK' /\ op'.pc = "idle" /\ op'.kind = "none" /\ op' = NoOp
      BY <1>1, <2>3, EndType DEF End
    <2> QED BY <1>1, <1>2, <1>3, <2>1, <2>2, <2>4
  <1> QED BY <1>4, <1>5

LEMMA RollbackStep ==
  ASSUME PluginsTypeOK, Rollback
  PROVE  /\ PluginsTypeOK'
         /\ UNCHANGED <<pkg, pdur, consent, undone, loose, lost>>
         /\ op.pc = "rollback" /\ op.o \in Objs /\ op.kind = "removal"
         /\ op' = NoOp /\ op'.pc = "idle" /\ op'.kind = "none"
         /\ Entry("managed") \in Index
         /\ \E out \in Outcomes, c \in Registries :
              /\ Save("idx", Entry("managed"), out) /\ Kept(c, out, "managed")
              /\ Shown(PublishOnce(op.base, Reconciled(c, op.base.scan)))
  <1>1. UNCHANGED <<pkg, pdur, consent, undone, loose, lost>> /\ op.pc = "rollback" /\ End
    BY DEF Rollback, told
  <1>2. /\ op.o \in Objs /\ op.kind = "removal" /\ op \in Ops /\ op.cand \in Registries /\ op.base \in Registries
        /\ op.base.scan \in Photos
    BY <1>1 DEF PluginsTypeOK, Ops, Registries
  <1> DEFINE x == Entry("managed")
  <1>3. PICK out \in Outcomes :
          LET c == IF Committed(out) THEN [op.cand EXCEPT !.idx = x] ELSE op.cand
          IN  Save("idx", x, out) /\ Show(PublishOnce(op.base, Reconciled(c, op.base.scan)))
    BY DEF Rollback, Entry
  <1> DEFINE c == IF Committed(out) THEN [op.cand EXCEPT !.idx = x] ELSE op.cand
             n == Reconciled(c, op.base.scan)
  <1>4. x \in Index /\ Kept(c, out, "managed")
    BY <1>2, MarkedFields DEF Kept, Entry
  <1>5. Save("idx", x, out) /\ Shown(PublishOnce(op.base, n))
    BY <1>3 DEF Show, Shown
  <1> HIDE DEF x, c
  <1>6. c \in Registries
    BY <1>4 DEF Kept
  <1>7. n \in Registries
    BY <1>2, <1>6, ReconciledFields
  <1> HIDE DEF n
  <1>8. mem' \in Registries
    BY <1>2, <1>5, <1>7, PublishOnceFields DEF Shown
  <1>9. disk' \in Disks /\ ddur' \in Disks
    BY <1>4, <1>5, SavedIndex
  <1>10. SameTypes
    BY <1>1, <1>8, <1>9 DEF SameTypes, PluginsTypeOK
  <1>11. PluginsTypeOK' /\ op'.pc = "idle" /\ op'.kind = "none" /\ op' = NoOp
    BY <1>1, <1>10, EndType DEF End
  <1> QED BY <1>1, <1>2, <1>4, <1>5, <1>6, <1>11 DEF x, n
-----------------------------------------------------------------------------
LEMMA TamperStep ==
  ASSUME PluginsTypeOK, Tamper
  PROVE  /\ PluginsTypeOK'
         /\ UNCHANGED <<disk, ddur, mem, op, consent, undone, loose, lost, shown>> /\ user' = user + 1
         /\ \E o \in Objs :
              /\ \A q \in Objs \ {o} : pkg'[q] = pkg[q] /\ pdur'[q] = pdur[q]
              /\ pdur'[o] = pkg'[o]
              /\ \/ pkg[o].at = "new" /\ o # op.o /\ pkg'[o].at = "local"
                 \/ pkg[o].at \in {"local", "quar", "stage"} /\ pkg'[o].at = pkg[o].at
                 \/ pkg[o].at \in {"local", "quar"} /\ pkg'[o].at = "gone"
  <1>1. UNCHANGED <<disk, ddur, mem, op, consent, undone, loose, lost, shown>> /\ user' = user + 1
    BY DEF Tamper, told
  <1>2. PICK o \in Objs :
         \/ FirstUnused(o) /\ Put(o, [Nothing EXCEPT !.at = "local", !.kind = "external"])
         \/ FirstUnused(o) /\ Put(o, [Nothing EXCEPT !.at = "local", !.kind = "copy"])
         \/ /\ pkg[o].at \in {"local", "quar", "stage"}
            /\ \E k \in {"edited", "broken"} : Put(o, [pkg[o] EXCEPT !.kind = k])
         \/ pkg[o].at \in {"local", "quar"} /\ Put(o, [pkg[o] EXCEPT !.at = "gone"])
    BY DEF Tamper
  <1>3. pkg[o] \in Packages /\ pkg \in [Objs -> Packages]
    BY DEF PluginsTypeOK
  <1>4. FirstUnused(o) => pkg[o].at = "new" /\ o # op.o
    BY DEF FirstUnused, Unused
  <1>5. \E r \in Packages :
          /\ Put(o, r)
          /\ \/ pkg[o].at = "new" /\ o # op.o /\ r.at = "local"
             \/ pkg[o].at \in {"local", "quar", "stage"} /\ r.at = pkg[o].at
             \/ pkg[o].at \in {"local", "quar"} /\ r.at = "gone"
    <2> DEFINE a == [Nothing EXCEPT !.at = "local", !.kind = "external"]
               b == [Nothing EXCEPT !.at = "local", !.kind = "copy"]
               c(k) == [pkg[o] EXCEPT !.kind = k]
               g == [pkg[o] EXCEPT !.at = "gone"]
    <2>1. a \in Packages /\ b \in Packages /\ a.at = "local" /\ b.at = "local"
      BY DEF Nothing, Packages, Places, Shapes
    <2>2. \A k \in {"edited", "broken"} : c(k) \in Packages /\ c(k).at = pkg[o].at
      BY <1>3 DEF Packages
    <2>3. g \in Packages /\ g.at = "gone"
      BY <1>3 DEF Packages, Places
    <2>4. \/ FirstUnused(o) /\ Put(o, a)
          \/ FirstUnused(o) /\ Put(o, b)
          \/ pkg[o].at \in {"local", "quar", "stage"} /\ \E k \in {"edited", "broken"} : Put(o, c(k))
          \/ pkg[o].at \in {"local", "quar"} /\ Put(o, g)
      BY <1>2
    <2> HIDE DEF a, b, c, g
    <2> QED BY <1>4, <2>1, <2>2, <2>3, <2>4
  <1>6. PICK r \in Packages :
          /\ Put(o, r)
          /\ \/ pkg[o].at = "new" /\ o # op.o /\ r.at = "local"
             \/ pkg[o].at \in {"local", "quar", "stage"} /\ r.at = pkg[o].at
             \/ pkg[o].at \in {"local", "quar"} /\ r.at = "gone"
    BY <1>5
  <1>7. /\ pkg' \in [Objs -> Packages] /\ pdur' \in [Objs -> Packages]
        /\ pkg'[o] = r /\ pdur'[o] = r /\ \A q \in Objs \ {o} : pkg'[q] = pkg[q] /\ pdur'[q] = pdur[q]
    BY <1>6, PutFields
  <1>8. PluginsTypeOK'
    BY <1>1, <1>7 DEF PluginsTypeOK
  <1> QED BY <1>1, <1>6, <1>7, <1>8

LEMMA DamageStep ==
  ASSUME PluginsTypeOK, Damage
  PROVE  /\ PluginsTypeOK'
         /\ UNCHANGED <<pkg, pdur, mem, op, consent, undone, loose, shown>>
         /\ disk'.idx.cur = disk.idx.cur /\ disk'.st.cur = disk.st.cur
         /\ ddur'.idx.cur = ddur.idx.cur /\ ddur'.st.cur = ddur.st.cur
         /\ disk'.idx.bak = disk.idx.bak /\ ddur'.idx.bak = ddur.idx.bak
         /\ \/ lost' /\ disk'.st = disk.st /\ ddur'.st = ddur.st
            \/ /\ lost' = lost /\ disk'.idx = disk.idx /\ ddur'.idx = ddur.idx
               /\ disk'.st.bad /\ ddur'.st.bad
  <1>1. UNCHANGED <<pkg, pdur, mem, op, consent, undone, loose, shown>>
    BY DEF Damage
  <1>2. PICK d \in {"idx", "st"} :
         /\ disk' = [disk EXCEPT ![d].bad = TRUE]
         /\ ddur' = [ddur EXCEPT ![d].bad = TRUE]
         /\ lost' = (lost \/ d = "idx")
    BY DEF Damage
  <1>3. \A x \in Docs(Index) : LET e == [x EXCEPT !.bad = TRUE] IN e \in Docs(Index) /\ e.cur = x.cur /\ e.bak = x.bak /\ e.bad
    BY DEF Docs
  <1>4. \A x \in Docs(Decisions) : LET e == [x EXCEPT !.bad = TRUE] IN e \in Docs(Decisions) /\ e.cur = x.cur /\ e.bak = x.bak /\ e.bad
    BY DEF Docs
  <1>5. /\ disk \in Disks /\ ddur \in Disks /\ disk.idx \in Docs(Index) /\ ddur.idx \in Docs(Index)
        /\ disk.st \in Docs(Decisions) /\ ddur.st \in Docs(Decisions) /\ lost \in BOOLEAN
    BY DEF PluginsTypeOK, Disks
  <1>6. CASE d = "idx"
    <2> DEFINE e == [disk.idx EXCEPT !.bad = TRUE]
               f == [ddur.idx EXCEPT !.bad = TRUE]
    <2>1. disk' = [disk EXCEPT !.idx = e] /\ ddur' = [ddur EXCEPT !.idx = f]
      BY <1>2, <1>5, <1>6 DEF Disks
    <2>2. e \in Docs(Index) /\ e.cur = disk.idx.cur /\ e.bak = disk.idx.bak
          /\ f \in Docs(Index) /\ f.cur = ddur.idx.cur /\ f.bak = ddur.idx.bak
      BY <1>3, <1>5
    <2> HIDE DEF e, f
    <2>3. /\ disk' \in Disks /\ ddur' \in Disks /\ disk'.idx = e /\ ddur'.idx = f /\ disk'.st = disk.st
          /\ ddur'.st = ddur.st
      BY <1>5, <2>1, <2>2 DEF Disks
    <2>4. lost' = TRUE
      BY <1>2, <1>6
    <2>5. PluginsTypeOK'
      BY <1>1, <2>3, <2>4 DEF PluginsTypeOK
    <2> QED BY <1>1, <2>2, <2>3, <2>4, <2>5
  <1>7. CASE d = "st"
    <2> DEFINE e == [disk.st EXCEPT !.bad = TRUE]
               f == [ddur.st EXCEPT !.bad = TRUE]
    <2>1. disk' = [disk EXCEPT !.st = e] /\ ddur' = [ddur EXCEPT !.st = f]
      BY <1>2, <1>5, <1>7 DEF Disks
    <2>2. /\ e \in Docs(Decisions) /\ e.cur = disk.st.cur /\ e.bad
          /\ f \in Docs(Decisions) /\ f.cur = ddur.st.cur /\ f.bad
      BY <1>4, <1>5
    <2> HIDE DEF e, f
    <2>3. /\ disk' \in Disks /\ ddur' \in Disks /\ disk'.st = e /\ ddur'.st = f /\ disk'.idx = disk.idx
          /\ ddur'.idx = ddur.idx
      BY <1>5, <2>1, <2>2 DEF Disks
    <2>4. lost' = lost
      BY <1>2, <1>5, <1>7
    <2>5. PluginsTypeOK'
      BY <1>1, <2>3, <2>4 DEF PluginsTypeOK
    <2> QED BY <1>1, <2>2, <2>3, <2>4, <2>5
  <1> QED BY <1>6, <1>7

\* Memory after a start, from the documents as they then are.
Started ==
    \E x \in Indexed, t \in Stated :
      /\ \/ x.own = "ok" /\ ~disk'.idx.bad /\ x.idx = disk'.idx.cur
         \/ x.own = "rewrite" /\ disk'.idx.bad /\ x.idx \in disk'.idx.bak
         \/ x.own = "down" /\ x.idx = NoEntries
      /\ t.sto = "ok" => ~disk'.st.bad /\ t.st = disk'.st.cur
      /\ t.sto # "ok" => \A i \in Ids : ~t.st[i].on
      /\ mem' = Booted(x, t) /\ shown' = Structure(mem')

LEMMA BootFields ==
  ASSUME disk' \in Disks, Boot
  PROVE  mem' \in Registries /\ Started
  <1>1. PICK x \in {LoadIndex(disk'.idx), [idx |-> NoEntries, own |-> "down"]},
             t \in {LoadState(disk'.st), [st |-> NoState, sto |-> "down"]} :
             mem' = Booted(x, t) /\ shown' = Structure(mem')
    BY DEF Boot
  <1> DEFINE a == disk'.idx
             b == disk'.st
  <1>2. a \in Docs(Index) /\ b \in Docs(Decisions)
    BY DEF Disks
  <1>3. /\ LoadIndex(a) \in Indexed
        /\ LoadIndex(a).own = "ok" => ~a.bad /\ LoadIndex(a).idx = a.cur
        /\ LoadIndex(a).own = "rewrite" => a.bad /\ LoadIndex(a).idx \in a.bak
        /\ LoadIndex(a).own = "down" => LoadIndex(a).idx = NoEntries
    BY <1>2, LoadIndexFields
  <1>4. /\ LoadState(b) \in Stated
        /\ LoadState(b).sto = "ok" => ~b.bad /\ LoadState(b).st = b.cur
        /\ b.bad => \A i \in Ids : ~LoadState(b).st[i].on
        /\ LoadState(b).sto = "down" => LoadState(b).st = NoState
    BY <1>2, LoadStateFields
  <1>5. \A i \in Ids : ~NoState[i].on
    BY DEF NoState
  <1>6. LoadState(b).sto = "rewrite" => b.bad
    BY DEF LoadState
  <1>7. [idx |-> NoEntries, own |-> "down"] \in Indexed /\ [st |-> NoState, sto |-> "down"] \in Stated
    BY ConstantTypes DEF Indexed, Stated, Trust
  <1> HIDE DEF a, b
  <1>8. /\ x \in Indexed
        /\ \/ x.own = "ok" /\ ~a.bad /\ x.idx = a.cur
           \/ x.own = "rewrite" /\ a.bad /\ x.idx \in a.bak
           \/ x.own = "down" /\ x.idx = NoEntries
    <2>1. CASE x = LoadIndex(a)
      BY <1>3, <2>1 DEF Indexed, Trust
    <2>2. CASE x = [idx |-> NoEntries, own |-> "down"]
      BY <1>7, <2>2
    <2> QED BY <2>1, <2>2 DEF a
  <1>9. /\ t \in Stated
        /\ t.sto = "ok" => ~b.bad /\ t.st = b.cur
        /\ t.sto # "ok" => \A i \in Ids : ~t.st[i].on
    <2>1. CASE t = LoadState(b)
      BY <1>4, <1>5, <1>6, <2>1 DEF Stated, Trust
    <2>2. CASE t = [st |-> NoState, sto |-> "down"]
      BY <1>5, <1>7, <2>2
    <2> QED BY <2>1, <2>2 DEF b
  <1>10. mem' \in Registries
    BY <1>1, <1>8, <1>9, BootedFields
  <1> QED BY <1>1, <1>8, <1>9, <1>10 DEF Started, a, b

LEMMA RestartStep ==
  ASSUME PluginsTypeOK, Restart
  PROVE  /\ PluginsTypeOK'
         /\ UNCHANGED <<pkg, pdur, disk, ddur, consent, undone, loose, lost>>
         /\ Started /\ op' = NoOp /\ op'.pc = "idle" /\ op'.kind = "none"
  <1>1. UNCHANGED <<pkg, pdur, disk, ddur, consent, undone, loose, lost>> /\ Boot /\ End
    BY DEF Restart, disks, told
  <1>2. disk' \in Disks
    BY <1>1 DEF PluginsTypeOK
  <1>3. mem' \in Registries /\ Started
    BY <1>1, <1>2, BootFields
  <1>4. SameTypes
    BY <1>1, <1>3 DEF SameTypes, PluginsTypeOK
  <1> QED BY <1>1, <1>3, <1>4, EndType DEF End

LEMMA PowerLossStep ==
  ASSUME PluginsTypeOK, PowerLoss
  PROVE  /\ PluginsTypeOK'
         /\ UNCHANGED <<consent, loose, lost>>
         /\ \A o \in Objs : pkg'[o] \in {pkg[o], pdur[o]} /\ pdur'[o] = pkg'[o]
         /\ disk'.idx \in {disk.idx, ddur.idx} /\ disk'.st \in {disk.st, ddur.st} /\ ddur' = disk'
         /\ undone' = (undone \/ disk'.st # disk.st)
         /\ Started /\ op' = NoOp /\ op'.pc = "idle" /\ op'.kind = "none"
  <1>1. /\ UNCHANGED <<consent, loose, lost>> /\ Boot /\ End /\ ddur' = disk' /\ pdur' = pkg'
        /\ undone' = (undone \/ disk'.st # disk.st)
    BY DEF PowerLoss
  <1>2. PICK kept \in SUBSET Objs, docs \in SUBSET {"idx", "st"} :
         /\ pkg' = [o \in Objs |-> IF o \in kept THEN pkg[o] ELSE pdur[o]]
         /\ disk' = [disk EXCEPT !["idx"] = IF "idx" \in docs THEN @ ELSE ddur.idx,
                                 !["st"] = IF "st" \in docs THEN @ ELSE ddur.st]
    BY DEF PowerLoss
  <1>3. pkg' \in [Objs -> Packages] /\ \A o \in Objs : pkg'[o] \in {pkg[o], pdur[o]}
    BY <1>2 DEF PluginsTypeOK
  <1> DEFINE a == IF "idx" \in docs THEN disk.idx ELSE ddur.idx
             b == IF "st" \in docs THEN disk.st ELSE ddur.st
  <1>4. /\ a \in Docs(Index) /\ b \in Docs(Decisions) /\ a \in {disk.idx, ddur.idx} /\ b \in {disk.st, ddur.st}
        /\ disk \in Disks
    BY DEF PluginsTypeOK, Disks
  <1>5. disk' = [disk EXCEPT !["idx"] = a, !["st"] = b]
    BY <1>2, <1>4 DEF Disks
  <1> HIDE DEF a, b
  <1>6. disk' \in Disks /\ disk'.idx = a /\ disk'.st = b
    BY <1>4, <1>5 DEF Disks
  <1>7. mem' \in Registries /\ Started
    BY <1>1, <1>6, BootFields
  <1>8. undone' \in BOOLEAN
    BY <1>1
  <1>9. SameTypes
    BY <1>1, <1>3, <1>6, <1>7, <1>8 DEF SameTypes, PluginsTypeOK
  <1> QED BY <1>1, <1>3, <1>4, <1>6, <1>7, <1>9, EndType DEF End
-----------------------------------------------------------------------------
\* Where the package at hand is while an operation deals with it, and what was made
\* durable before anything of it is moved.
Underway ==
    /\ op.kind = "import" /\ op.pc \in {"load", "rewrite", "converge", "apply", "stage"} =>
         pkg[op.o].at = "new"
    /\ op.pc \in {"disable", "promote"} => pkg[op.o].at = "stage"
    /\ op.pc = "register" => pkg[op.o].at \in {"local", "gone"} /\ pdur[op.o].at \in {"local", "gone"}
    /\ op.pc \in {"off", "mark", "rename", "rollback"} =>
         pkg[op.o].at \in {"local", "gone"} /\ pdur[op.o].at # "quar"
    /\ op.pc = "forget" /\ op.clean \in {"removed", "absent"} => pkg[op.o].at = "gone"

Mirrored ==
    \A o \in Objs : /\ pkg[o].at \in {"new", "stage"} => pdur[o].at = pkg[o].at
                    /\ pkg[o].at = "local" => pdur[o].at # "quar"

OnlyOwn ==
    /\ op.pc \in {"mark", "rename"} => ~disk.st.cur[IdOf[op.o]].on /\ ~ddur.st.cur[IdOf[op.o]].on
    /\ op.pc \in {"rename", "look", "delete"} =>
         disk.idx.cur[op.o] = "removing" /\ ddur.idx.cur[op.o] = "removing"

Files == PluginsTypeOK /\ Underway /\ Mirrored /\ OnlyOwn

LEMMA IdleFiles ==
  ASSUME PluginsTypeOK', Mirrored', op'.pc = "idle"
  PROVE  Files'
  BY DEF Files, Underway, OnlyOwn

LEMMA SameFiles ==
  ASSUME Files, PluginsTypeOK', UNCHANGED <<pkg, pdur>>,
         op'.pc \in {"idle", "postscan"} \/ (op'.kind \in {"reload", "published"} /\ op'.pc \in {"load", "rewrite", "converge", "apply"})
  PROVE  Files'
  BY DEF Files, Underway, Mirrored, OnlyOwn

LEMMA FilesInit == PluginsInit => Files
  <1> SUFFICES ASSUME PluginsInit PROVE Files
    OBVIOUS
  <1> DEFINE n == [Nothing EXCEPT !.at = "new"]
  <1>1. n \in Packages /\ n.at = "new"
    BY DEF Nothing, Packages, Places, Shapes
  <1>2. pkg = [o \in Objs |-> n] /\ pdur = pkg /\ disk = [idx |-> Empty(NoEntries), st |-> Empty(NoState)] /\ ddur = disk
    BY DEF PluginsInit
  <1> HIDE DEF n
  <1>3. pkg \in [Objs -> Packages] /\ pdur \in [Objs -> Packages] /\ Mirrored
    BY <1>1, <1>2 DEF Mirrored
  <1>4. Empty(NoEntries) \in Docs(Index) /\ Empty(NoState) \in Docs(Decisions)
    BY ConstantTypes DEF Empty, Docs
  <1>5. disk \in Disks /\ ddur \in Disks /\ disk.idx \in Docs(Index) /\ disk.st \in Docs(Decisions)
    BY <1>2, <1>4 DEF Disks
  <1>6. mem = Booted(LoadIndex(disk.idx), LoadState(disk.st)) /\ op = NoOp
    BY DEF PluginsInit
  <1>7. LoadIndex(disk.idx) \in Indexed /\ LoadState(disk.st) \in Stated
    BY <1>5, LoadIndexFields, LoadStateFields
  <1>8. mem \in Registries
    BY <1>6, <1>7, BootedFields
  <1>9. op \in Ops /\ op.pc = "idle" /\ op.kind = "none"
    BY <1>6, NoOpFields
  <1>10. /\ consent \in [Ids -> BOOLEAN] /\ undone \in BOOLEAN /\ loose \subseteq Objs /\ lost \in BOOLEAN
    BY DEF PluginsInit
  <1>11. PluginsTypeOK
    BY <1>3, <1>5, <1>8, <1>9, <1>10 DEF PluginsTypeOK
  <1> QED BY <1>3, <1>9, <1>11 DEF Files, Underway, OnlyOwn

LEMMA FilesNext == Files /\ [PluginsNext]_pluginVars => Files'
  <1> SUFFICES ASSUME Files, [PluginsNext]_pluginVars PROVE Files'
    OBVIOUS
  <1>0. PluginsTypeOK
    BY DEF Files
  <1>1. CASE Reload
    <2>1. Scanned("reload", 0) /\ UNCHANGED <<disks, mem, told, shown>>
      BY <1>1 DEF Reload
    <2>2. /\ PluginsTypeOK' /\ UNCHANGED <<pkg, pdur>> /\ op'.pc = "load" /\ op'.kind = "reload"
      BY <1>0, <2>1, ScannedStep
    <2> QED BY <2>2, SameFiles
  <1>2. ASSUME NEW o \in Objs, Import(o) PROVE Files'
    <2>1. Scanned("import", o) /\ UNCHANGED <<disks, mem, told, shown>> /\ pkg[o].at = "new"
      BY <1>2 DEF Import, FirstUnused, Unused
    <2>2. /\ PluginsTypeOK' /\ UNCHANGED <<pkg, pdur>> /\ op'.pc = "load" /\ op'.kind = "import" /\ op'.o = o
      BY <1>0, <2>1, ScannedStep
    <2> QED BY <2>1, <2>2 DEF Files, Underway, Mirrored, OnlyOwn
  <1>3. CASE LoadOwnership
    <2>1. /\ PluginsTypeOK' /\ UNCHANGED <<pkg, pdur>> /\ op.pc = "load" /\ op'.kind = op.kind /\ op'.o = op.o
          /\ op'.pc \in {"rewrite", "converge", "apply"}
      BY <1>0, <1>3, LoadOwnershipStep
    <2> QED BY <2>1 DEF Files, Underway, Mirrored, OnlyOwn
  <1>4. CASE RewriteOwnership
    <2>1. /\ PluginsTypeOK' /\ UNCHANGED <<pkg, pdur>> /\ op.pc = "rewrite" /\ op'.kind = op.kind /\ op'.o = op.o
          /\ op'.pc \in {"converge", "apply"}
      BY <1>0, <1>4, RewriteOwnershipStep
    <2> QED BY <2>1 DEF Files, Underway, Mirrored, OnlyOwn
  <1>5. CASE Converge
    <2>1. /\ PluginsTypeOK' /\ UNCHANGED <<pkg, pdur>> /\ op.pc = "converge" /\ op'.kind = op.kind /\ op'.o = op.o
          /\ op'.pc \in {"converge", "apply"}
      BY <1>0, <1>5, ConvergeStep
    <2> QED BY <2>1 DEF Files, Underway, Mirrored, OnlyOwn
  <1>6. CASE Reloaded
    BY <1>0, <1>6, ReloadedStep, SameFiles
  <1>7. CASE RetryState
    BY <1>0, <1>7, RetryStateStep, SameFiles
  <1>8. ASSUME NEW i \in Ids, NEW on \in BOOLEAN, SetEnabled(i, on) PROVE Files'
    BY <1>0, <1>8, SetEnabledStep, SameFiles
  <1>9. CASE Prescanned
    <2>1. PluginsTypeOK' /\ UNCHANGED <<pkg, pdur>> /\ op.pc = "apply" /\ op.kind = "import"
      BY <1>0, <1>9, PrescannedStep
    <2>2. op'.pc = "idle" \/ (op'.pc = "stage" /\ op'.kind = op.kind /\ op'.o = op.o)
      BY <1>0, <1>9, PrescannedStep
    <2> QED BY <2>1, <2>2 DEF Files, Underway, Mirrored, OnlyOwn
  <1>10. CASE Stage
    BY <1>0, <1>10, StageStep DEF Files, Underway, Mirrored, OnlyOwn, SameOp
  <1>11. CASE Disable
    <2>1. PluginsTypeOK' /\ UNCHANGED <<pkg, pdur>> /\ op.pc = "disable"
      BY <1>0, <1>11, DisableStep
    <2>2. op'.pc = "idle" \/ (op'.pc = "promote" /\ op'.kind = op.kind /\ op'.o = op.o)
      BY <1>0, <1>11, DisableStep
    <2> QED BY <2>1, <2>2 DEF Files, Underway, Mirrored, OnlyOwn
  <1>12. CASE Promote
    <2>1. /\ PluginsTypeOK' /\ op.pc = "promote" /\ op.o \in Objs
          /\ \A q \in Objs \ {op.o} : pkg'[q] = pkg[q] /\ pdur'[q] = pdur[q]
          /\ \/ op'.pc = "register" /\ op'.o = op.o /\ pkg'[op.o].at = "local" /\ pdur'[op.o] = pkg'[op.o]
             \/ op'.pc = "postscan" /\ pkg'[op.o].at = "local" /\ pdur'[op.o] = pdur[op.o]
             \/ op'.pc = "postscan" /\ UNCHANGED <<pkg, pdur>>
             \/ op'.pc = "idle" /\ pdur'[op.o] = pkg'[op.o]
      BY <1>0, <1>12, PromoteStep DEF SameOp
    <2>2. pkg[op.o].at = "stage" /\ pdur[op.o].at = "stage"
      BY <2>1 DEF Files, Underway, Mirrored
    <2>3. Mirrored'
      BY <2>1, <2>2 DEF Files, Mirrored
    <2>4. Underway' /\ OnlyOwn'
      BY <2>1 DEF Underway, OnlyOwn
    <2> QED BY <2>1, <2>3, <2>4 DEF Files
  <1>13. CASE Register
    BY <1>0, <1>13, RegisterStep, SameFiles
  <1>14. CASE Postscan
    <2>1. PluginsTypeOK' /\ UNCHANGED <<pkg, pdur>>
      BY <1>0, <1>14, PostscanStep
    <2>2. op'.pc = "idle" \/ (op'.pc = "load" /\ op'.kind = "published")
      BY <1>0, <1>14, PostscanStep
    <2> QED BY <2>1, <2>2, SameFiles
  <1>15. CASE Imported
    BY <1>0, <1>15, ImportedStep, SameFiles
  <1>16. ASSUME NEW o \in Objs, Remove(o) PROVE Files'
    <2>1. PluginsTypeOK' /\ UNCHANGED <<pkg, pdur>> /\ op'.pc = "off" /\ op'.kind = "removal" /\ op'.o = o
      BY <1>0, <1>16, RemoveStep
    <2>2. pkg[o].at = "local"
      BY <1>16 DEF Remove, Removable
    <2> QED BY <2>1, <2>2 DEF Files, Underway, Mirrored, OnlyOwn
  <1>17. CASE SaveDisabled
    <2>1. PluginsTypeOK' /\ UNCHANGED <<pkg, pdur>> /\ op.pc = "off" /\ op.o \in Objs /\ op.kind = "removal"
      BY <1>0, <1>17, SaveDisabledStep
    <2>2. PICK out \in Outcomes, st \in Decisions :
            /\ Save("st", st, out) /\ ~st[IdOf[op.o]].on
            /\ op'.pc = "idle" \/ (out = "durable" /\ op'.pc = "mark" /\ op'.kind = op.kind /\ op'.o = op.o)
      BY <1>0, <1>17, SaveDisabledStep
    <2>3. out = "durable" => disk'.st.cur = st /\ ddur' = disk'
      BY <1>0, <2>2, SavedState
    <2> QED BY <2>1, <2>2, <2>3 DEF Files, Underway, Mirrored, OnlyOwn
  <1>18. CASE MarkRemoving
    <2>1. /\ PluginsTypeOK' /\ UNCHANGED <<pkg, pdur>> /\ op.pc = "mark" /\ op.o \in Objs /\ op.kind = "removal"
          /\ op'.kind = op.kind /\ op'.o = op.o /\ Entry("removing") \in Index
      BY <1>0, <1>18, MarkRemovingStep
    <2>2. PICK out \in Outcomes :
            Save("idx", Entry("removing"), out) /\ op'.pc = IF out = "durable" THEN "rename" ELSE "rollback"
      BY <1>0, <1>18, MarkRemovingStep
    <2>3. out = "durable" => disk'.idx.cur = Entry("removing") /\ ddur' = disk' /\ disk'.st = disk.st
      BY <1>0, <2>1, <2>2, SavedIndex
    <2>4. Entry("removing")[op.o] = "removing"
      BY <2>1 DEF Entry, PluginsTypeOK, Files, Ops, Registries, Index
    <2> QED BY <2>1, <2>2, <2>3, <2>4 DEF Files, Underway, Mirrored, OnlyOwn
  <1>19. CASE Quarantine
    <2>1. /\ PluginsTypeOK' /\ UNCHANGED <<disk, ddur>> /\ op.pc = "rename" /\ op.o \in Objs /\ op'.kind = op.kind /\ op'.o = op.o
          /\ op.kind = "removal"
          /\ \A q \in Objs \ {op.o} : pkg'[q] = pkg[q] /\ pdur'[q] = pdur[q]
          /\ \/ op'.pc \in {"rollback", "look"} /\ UNCHANGED <<pkg, pdur>>
             \/ op'.pc = "look" /\ pkg'[op.o].at = "quar"
      BY <1>0, <1>19, QuarantineStep DEF SameOp
    <2>2. Mirrored'
      BY <2>1 DEF Files, Mirrored
    <2>3. Underway' /\ OnlyOwn'
      BY <2>1 DEF Files, Underway, OnlyOwn
    <2> QED BY <2>1, <2>2, <2>3 DEF Files
  <1>20. CASE Look
    <2>1. /\ PluginsTypeOK' /\ UNCHANGED <<pkg, pdur, disk, ddur>> /\ op.pc = "look" /\ op'.kind = "removal" /\ op'.o = op.o
          /\ op'.pc = "delete" \/ (op'.pc = "forget" /\ op'.clean = "conflict")
      BY <1>0, <1>20, LookStep
    <2> QED BY <2>1 DEF Files, Underway, Mirrored, OnlyOwn
  <1>21. CASE Delete
    <2>1. /\ PluginsTypeOK' /\ UNCHANGED <<disk, ddur>> /\ op.pc = "delete" /\ op.o \in Objs /\ op'.kind = "removal" /\ op'.o = op.o
          /\ \A q \in Objs \ {op.o} : pkg'[q] = pkg[q] /\ pdur'[q] = pdur[q]
          /\ \/ op'.pc = "delete" /\ pkg'[op.o].at \in {"quar", "gone"}
             \/ /\ op'.pc = "forget" /\ UNCHANGED pkg
                /\ op'.clean \in {"removed", "absent"} => pkg[op.o].at = "gone"
                /\ pdur'[op.o] = pdur[op.o] \/ (pdur'[op.o] = pkg[op.o] /\ pkg[op.o].at = "gone")
      BY <1>0, <1>21, DeleteStep
    <2>2. Mirrored'
      BY <2>1 DEF Files, Mirrored
    <2>3. Underway' /\ OnlyOwn'
      BY <2>1 DEF Files, Underway, OnlyOwn
    <2> QED BY <2>1, <2>2, <2>3 DEF Files
  <1>22. CASE Forget
    BY <1>0, <1>22, ForgetStep, SameFiles
  <1>23. CASE Rollback
    BY <1>0, <1>23, RollbackStep, SameFiles
  <1>24. CASE Tamper
    <2>1. PluginsTypeOK' /\ UNCHANGED <<disk, ddur, op>>
      BY <1>0, <1>24, TamperStep
    <2>2. PICK o \in Objs :
              /\ \A q \in Objs \ {o} : pkg'[q] = pkg[q] /\ pdur'[q] = pdur[q]
              /\ pdur'[o] = pkg'[o]
              /\ \/ pkg[o].at = "new" /\ o # op.o /\ pkg'[o].at = "local"
                 \/ pkg[o].at \in {"local", "quar", "stage"} /\ pkg'[o].at = pkg[o].at
                 \/ pkg[o].at \in {"local", "quar"} /\ pkg'[o].at = "gone"
      BY <1>0, <1>24, TamperStep
    <2>3. Mirrored'
      BY <2>2 DEF Files, Mirrored
    <2>4. OnlyOwn'
      BY <2>1 DEF Files, OnlyOwn
    <2>5. op.pc # "idle" /\ op.kind \in {"import", "published", "removal"} => op.o \in Objs
      BY <1>0 DEF PluginsTypeOK
    <2>6. Underway'
      <3>1. CASE op.o = o
        BY <2>1, <2>2, <3>1 DEF Files, Underway
      <3>2. CASE op.o # o /\ op.o \in Objs
        BY <2>1, <2>2, <3>2 DEF Files, Underway
      <3>3. CASE op.o \notin Objs
        BY <1>0, <2>1, <2>5, <3>3 DEF Underway, PluginsTypeOK
      <3> QED BY <3>1, <3>2, <3>3
    <2> QED BY <2>1, <2>3, <2>4, <2>6 DEF Files
  <1>25. CASE Damage
    BY <1>0, <1>25, DamageStep DEF Files, Underway, Mirrored, OnlyOwn
  <1>26. CASE Restart
    BY <1>0, <1>26, RestartStep, SameFiles
  <1>27. CASE PowerLoss
    <2>1. PluginsTypeOK' /\ op'.pc = "idle" /\ \A o \in Objs : pdur'[o] = pkg'[o]
      BY <1>0, <1>27, PowerLossStep
    <2>2. Mirrored'
      BY <2>1 DEF Mirrored
    <2> QED BY <2>1, <2>2, IdleFiles
  <1>28. CASE UNCHANGED pluginVars
    <2>1. UNCHANGED <<pkg, pdur, disk, ddur, mem, op, consent, undone, loose, lost>>
      BY <1>28 DEF pluginVars, disks, told
    <2>2. PluginsTypeOK'
      BY <1>0, <2>1 DEF PluginsTypeOK
    <2> QED BY <2>1, <2>2 DEF Files, Underway, Mirrored, OnlyOwn
  <1> QED BY <1>1, <1>2, <1>3, <1>4, <1>5, <1>6, <1>7, <1>8, <1>9, <1>10, <1>11, <1>12, <1>13, <1>14, <1>15, <1>16,
             <1>17, <1>18, <1>19, <1>20, <1>21, <1>22, <1>23, <1>24, <1>25, <1>26, <1>27, <1>28 DEF PluginsNext
-----------------------------------------------------------------------------
LEMMA UserSteps ==
  ASSUME user \in Nat, [PluginsNext]_pluginVars
  PROVE  user' \in Nat /\ (user' = user \/ Tamper)
  <1>1. CASE Tamper
    BY <1>1 DEF Tamper
  <1>2. CASE UNCHANGED pluginVars
    BY <1>2 DEF pluginVars
  <1>3. CASE Reload \/ LoadOwnership \/ RewriteOwnership \/ Converge \/ Reloaded \/ RetryState
    BY <1>3 DEF Reload, LoadOwnership, RewriteOwnership, Converge, Reloaded, RetryState
  <1>4. CASE \E i \in Ids, on \in BOOLEAN : SetEnabled(i, on)
    BY <1>4 DEF SetEnabled
  <1>5. CASE \E o \in Objs : Import(o) \/ Remove(o)
    BY <1>5 DEF Import, Remove
  <1>6. CASE Prescanned \/ Stage \/ Disable \/ Promote \/ Register \/ Postscan \/ Imported
    BY <1>6 DEF Prescanned, Stage, Disable, Promote, Register, Postscan, Imported
  <1>7. CASE SaveDisabled \/ MarkRemoving \/ Quarantine \/ Look \/ Delete \/ Forget \/ Rollback
    BY <1>7 DEF SaveDisabled, MarkRemoving, Quarantine, Look, Delete, Forget, Rollback
  <1>8. CASE Damage \/ Restart \/ PowerLoss
    BY <1>8 DEF Damage, Restart, PowerLoss
  <1> QED BY <1>1, <1>2, <1>3, <1>4, <1>5, <1>6, <1>7, <1>8 DEF PluginsNext

\* Which steps change a package at all.
LEMMA Movers ==
  ASSUME PluginsTypeOK, [PluginsNext]_pluginVars, pkg' # pkg
  PROVE  Stage \/ Promote \/ Quarantine \/ Delete \/ Tamper \/ PowerLoss
  <1>1. ~UNCHANGED pluginVars
    BY DEF pluginVars, disks
  <1>2. ~(Reload \/ LoadOwnership \/ RewriteOwnership \/ Converge \/ Reloaded \/ RetryState)
    BY DEF Reload, LoadOwnership, RewriteOwnership, Converge, Reloaded, RetryState, disks
  <1>3. \A i \in Ids, on \in BOOLEAN : ~SetEnabled(i, on)
    BY DEF SetEnabled
  <1>4. \A o \in Objs : ~(Import(o) \/ Remove(o))
    BY DEF Import, Remove, disks
  <1>5. ~(Prescanned \/ Disable \/ Register \/ Postscan \/ Imported)
    BY DEF Prescanned, Disable, Register, Postscan, Imported, disks
  <1>6. ~(SaveDisabled \/ MarkRemoving \/ Look \/ Forget \/ Rollback)
    BY DEF SaveDisabled, MarkRemoving, Look, Forget, Rollback, disks
  <1>7. ~(Damage \/ Restart)
    BY DEF Damage, Restart, disks
  <1> QED BY <1>1, <1>2, <1>3, <1>4, <1>5, <1>6, <1>7 DEF PluginsNext

LEMMA OwnRemovals ==
  ASSUME Files, user \in Nat, [PluginsNext]_pluginVars
  PROVE  RemovalStep
  <1> SUFFICES ASSUME user' = user, pkg' # pkg, ~PowerLoss,
                      NEW o \in Objs, pkg[o].at \in {"local", "quar"}, pkg'[o] # pkg[o]
               PROVE  /\ pkg[o].kind = "ours" /\ pkg'[o].at # "local"
                      /\ ddur.idx.cur[o] = "removing"
                      /\ pkg[o].at = "local" => ~ddur.st.cur[IdOf[o]].on
    BY DEF RemovalStep
  <1>0. PluginsTypeOK
    BY DEF Files
  <1>1. ~Tamper
    BY DEF Tamper
  <1>2. Stage \/ Promote \/ Quarantine \/ Delete
    BY <1>0, <1>1, Movers
  <1>3. CASE Stage
    <2>1. op.pc = "stage" /\ op.kind = "import" /\ op.o = o
      BY <1>0, <1>3, StageStep
    <2> QED BY <2>1 DEF Files, Underway
  <1>4. CASE Promote
    <2>1. op.pc = "promote" /\ op.o = o
      BY <1>0, <1>4, PromoteStep
    <2> QED BY <2>1 DEF Files, Underway
  <1>5. CASE Quarantine
    <2>1. op.pc = "rename" /\ op.o = o /\ pkg[o].at = "local" /\ pkg[o].kind = "ours" /\ pkg'[o].at = "quar"
      BY <1>0, <1>5, QuarantineStep
    <2> QED BY <2>1 DEF Files, OnlyOwn
  <1>6. CASE Delete
    <2>1. op.pc = "delete" /\ op.o = o /\ pkg[o].at = "quar" /\ pkg[o].kind = "ours" /\ pkg'[o].at \in {"quar", "gone"}
      BY <1>0, <1>6, DeleteStep
    <2> QED BY <2>1 DEF Files, OnlyOwn
  <1> QED BY <1>2, <1>3, <1>4, <1>5, <1>6

\* The program moves or deletes only unaltered packages of its own, which are disabled
\* and marked as under removal even after a power loss: each of the two saves is durable
\* before the next step of a removal (plugin/runtime/removal.rs), and what is moved or
\* deleted is verified then (storage/local_plugin_package/platform.rs).
THEOREM RemovalsAreOwn == PluginsSpec => RemovesOnlyOwn
  <1> DEFINE J == Files /\ user \in Nat
  <1>1. PluginsInit => J
    BY FilesInit DEF PluginsInit
  <1>2. J /\ [PluginsNext]_pluginVars => J'
    BY FilesNext, UserSteps
  <1>3. J /\ [PluginsNext]_pluginVars => RemovalStep
    BY OwnRemovals
  <1> HIDE DEF J
  <1>4. J /\ [PluginsNext]_pluginVars => [RemovalStep]_pluginVars
    BY <1>3
  <1> QED BY <1>1, <1>2, <1>4, PTL DEF PluginsSpec, RemovesOnlyOwn
-----------------------------------------------------------------------------
\* The index: an entry stands for a package promoted for good; what is in quarantine
\* has its entry; what a scan will settle is still as the scan saw it; memory's index
\* follows the saved one.
Promoted(o) == pdur[o].at \notin {"new", "stage"}
Real(x) == \A o \in Objs : x[o] # "none" => Promoted(o)
DiskIndices == {disk.idx.cur, ddur.idx.cur} \cup disk.idx.bak \cup ddur.idx.bak

Entered ==
    /\ (\A x \in DiskIndices : Real(x)) /\ Real(mem.idx) /\ Real(op.cand.idx)
    /\ op.kind = "removal" => Promoted(op.o)

Suspect ==
    /\ disk.idx.bad \/ ddur.idx.bad => lost
    /\ op.pc = "rewrite" \/ (op.pc = "apply" /\ op.cand.own = "rewrite") => lost

Quarantined(o) == pkg[o].at = "quar" \/ pdur[o].at = "quar"
Accounted ==
    \A o \in Objs : Quarantined(o) =>
        o \in loose \/ lost \/ (disk.idx.cur[o] = "removing" /\ ddur.idx.cur[o] = "removing")

ScanHolds ==
    op.pc \in {"load", "rewrite", "converge"} =>
      \A o \in Objs :
        /\ op.scan.p[o].at = "local" => pkg[o].at \in {"local", "gone"} /\ pdur[o].at # "quar"
        /\ Readable(op.scan) /\ op.scan.p[o].at = "none" => pkg[o].at # "quar"

ToSettle ==
    op.pc = "converge" =>
      /\ Readable(op.scan) /\ op.cand.own = "ok"
      /\ \A o \in op.todo : /\ op.cand.idx[o] = "removing"
                            /\ op.scan.p[o].at \in {"local", "none"}

Scanning == op.pc \in {"load", "rewrite", "converge", "apply"} /\ op.kind \in {"reload", "import"}
Follows(x) == \A o \in Objs : x[o] \in {disk.idx.cur[o], "removing"}
IndexFollows ==
    ~lost =>
      /\ op.pc \notin {"idle", "load", "rewrite"} /\ op.cand.own = "ok" =>
           /\ Follows(op.cand.idx)
           /\ op.kind # "removal" => op.cand.idx = disk.idx.cur
      /\ ~Scanning /\ mem.own = "ok" => Follows(mem.idx)

Frozen ==
    /\ Scanning => op.base = mem /\ op.cand.gen = mem.gen
    /\ op.kind = "removal" => op.cand.own = "ok"

Books == Files /\ Entered /\ Suspect /\ Accounted /\ ScanHolds /\ ToSettle /\ IndexFollows /\ Frozen
-----------------------------------------------------------------------------
LEMMA PdurMovers ==
  ASSUME PluginsTypeOK, [PluginsNext]_pluginVars, pdur' # pdur
  PROVE  Stage \/ Promote \/ Quarantine \/ Delete \/ Tamper \/ PowerLoss
  <1>1. ~UNCHANGED pluginVars
    BY DEF pluginVars, disks
  <1>2. ~(Reload \/ LoadOwnership \/ RewriteOwnership \/ Converge \/ Reloaded \/ RetryState)
    BY DEF Reload, LoadOwnership, RewriteOwnership, Converge, Reloaded, RetryState, disks
  <1>3. \A i \in Ids, on \in BOOLEAN : ~SetEnabled(i, on)
    BY DEF SetEnabled
  <1>4. \A o \in Objs : ~(Import(o) \/ Remove(o))
    BY DEF Import, Remove, disks
  <1>5. ~(Prescanned \/ Disable \/ Register \/ Postscan \/ Imported)
    BY DEF Prescanned, Disable, Register, Postscan, Imported, disks
  <1>6. ~(SaveDisabled \/ MarkRemoving \/ Look \/ Forget \/ Rollback)
    BY DEF SaveDisabled, MarkRemoving, Look, Forget, Rollback, disks
  <1>7. ~(Damage \/ Restart)
    BY DEF Damage, Restart, disks
  <1> QED BY <1>1, <1>2, <1>3, <1>4, <1>5, <1>6, <1>7 DEF PluginsNext

LEMMA PromotedStays ==
  ASSUME Files, [PluginsNext]_pluginVars, NEW o \in Objs, Promoted(o)
  PROVE  Promoted(o)'
  <1>0. PluginsTypeOK
    BY DEF Files
  <1>1. CASE pdur' = pdur
    BY <1>1 DEF Promoted
  <1>2. CASE Stage
    <2>1. /\ op.pc = "stage" /\ op.kind = "import" /\ op.o \in Objs
          /\ \A q \in Objs \ {op.o} : pdur'[q] = pdur[q]
      BY <1>0, <1>2, StageStep
    <2>2. pdur[op.o].at = "new"
      BY <2>1 DEF Files, Underway, Mirrored
    <2> QED BY <2>1, <2>2 DEF Promoted
  <1>3. CASE Promote
    <2>1. /\ op.pc = "promote" /\ op.o \in Objs
          /\ \A q \in Objs \ {op.o} : pdur'[q] = pdur[q]
      BY <1>0, <1>3, PromoteStep
    <2>2. pdur[op.o].at = "stage"
      BY <2>1 DEF Files, Underway, Mirrored
    <2> QED BY <2>1, <2>2 DEF Promoted
  <1>4. CASE Quarantine
    <2>1. /\ op.o \in Objs /\ \A q \in Objs \ {op.o} : pdur'[q] = pdur[q]
          /\ pdur' = pdur \/ (pkg'[op.o].at = "quar" /\ pdur'[op.o] \in {pdur[op.o], pkg'[op.o]})
      BY <1>0, <1>4, QuarantineStep
    <2> QED BY <2>1 DEF Promoted
  <1>5. CASE Delete
    <2>1. /\ op.o \in Objs /\ \A q \in Objs \ {op.o} : pdur'[q] = pdur[q]
          /\ pdur' = pdur \/ pdur'[op.o] = pdur[op.o] \/ (pdur'[op.o] = pkg[op.o] /\ pkg[op.o].at = "gone")
      BY <1>0, <1>5, DeleteStep
    <2> QED BY <2>1 DEF Promoted
  <1>6. CASE Tamper
    <2>1. PICK q \in Objs :
              /\ \A r \in Objs \ {q} : pkg'[r] = pkg[r] /\ pdur'[r] = pdur[r]
              /\ pdur'[q] = pkg'[q]
              /\ \/ pkg'[q].at \in {"local", "gone"}
                 \/ pkg[q].at \in {"local", "quar", "stage"} /\ pkg'[q].at = pkg[q].at
      BY <1>0, <1>6, TamperStep
    <2>2. pkg[q].at = "stage" => pdur[q].at = "stage"
      BY DEF Files, Mirrored
    <2> QED BY <2>1, <2>2 DEF Promoted
  <1>7. CASE PowerLoss
    <2>1. pkg'[o] \in {pkg[o], pdur[o]} /\ pdur'[o] = pkg'[o]
      BY <1>0, <1>7, PowerLossStep
    <2>2. pkg[o].at \in {"new", "stage"} => pdur[o].at = pkg[o].at
      BY DEF Files, Mirrored
    <2> QED BY <2>1, <2>2 DEF Promoted
  <1> QED BY <1>0, <1>1, <1>2, <1>3, <1>4, <1>5, <1>6, <1>7, PdurMovers

LEMMA RealStays ==
  ASSUME NEW x, Real(x), \A o \in Objs : Promoted(o) => Promoted(o)'
  PROVE  \A o \in Objs : x[o] # "none" => Promoted(o)'
  BY DEF Real

LEMMA NothingEntered == Real(NoEntries) /\ \A o \in Objs : NoEntries[o] = "none"
  BY DEF Real, NoEntries

LEMMA SavingIndex ==
  ASSUME Books, NEW v \in Index, NEW out \in Outcomes, Save("idx", v, out), UNCHANGED <<pkg, pdur, lost>>,
         loose \subseteq loose', Real(v),
         \A o \in Objs : /\ Quarantined(o) /\ out # "failed" /\ o \notin loose' /\ ~lost /\ disk.idx.cur[o] = "removing"
                         => v[o] = "removing"
  PROVE  /\ Accounted' /\ (\A x \in DiskIndices' : \A o \in Objs : x[o] # "none" => Promoted(o)')
         /\ disk'.idx.bad \/ ddur'.idx.bad => lost'
         /\ out = "failed" => disk' = disk
         /\ out # "failed" => disk'.idx.cur = v
         /\ disk'.st = disk.st
  <1>0. PluginsTypeOK
    BY DEF Books, Files
  <1>1. /\ disk'.st = disk.st
        /\ out = "failed" => disk' = disk /\ ddur' = ddur
        /\ out # "failed" => /\ disk'.idx.cur = v /\ ~disk'.idx.bad
                             /\ disk'.idx.bak \subseteq {disk.idx.cur} \cup disk.idx.bak
        /\ out = "unsynced" => ddur' = disk
        /\ out = "durable" => ddur' = disk'
    BY <1>0, SavedIndex
  <1>2. out \in {"failed", "unsynced", "durable"}
    BY DEF Outcomes
  <1>3. DiskIndices' \subseteq DiskIndices \cup {v}
    BY <1>1, <1>2 DEF DiskIndices
  <1>4. \A x \in DiskIndices' : Real(x)
    BY <1>3 DEF Books, Entered
  <1>5. \A x \in DiskIndices' : \A o \in Objs : x[o] # "none" => Promoted(o)'
    BY <1>4 DEF Real, Promoted
  <1>6. Accounted'
    BY <1>1, <1>2 DEF Books, Accounted, Quarantined
  <1>7. disk'.idx.bad \/ ddur'.idx.bad => lost'
    BY <1>1, <1>2 DEF Books, Suspect
  <1> QED BY <1>1, <1>5, <1>6, <1>7

LEMMA SavingState ==
  ASSUME Books, NEW v \in Decisions, NEW out \in Outcomes, Save("st", v, out), UNCHANGED <<pkg, pdur, loose, lost>>
  PROVE  /\ Accounted' /\ (\A x \in DiskIndices' : \A o \in Objs : x[o] # "none" => Promoted(o)')
         /\ disk'.idx.bad \/ ddur'.idx.bad => lost'
         /\ disk'.idx = disk.idx
  <1>0. PluginsTypeOK
    BY DEF Books, Files
  <1>1. disk'.idx = disk.idx /\ ddur'.idx \in {ddur.idx, disk.idx}
    BY <1>0, SavedState
  <1>2. DiskIndices' \subseteq DiskIndices
    BY <1>1 DEF DiskIndices
  <1>3. \A x \in DiskIndices' : \A o \in Objs : x[o] # "none" => Promoted(o)'
    BY <1>2 DEF Books, Entered, Real, Promoted
  <1>4. Accounted'
    BY <1>1 DEF Books, Accounted, Quarantined
  <1> QED BY <1>1, <1>3, <1>4 DEF Books, Suspect

\* When nothing is saved and nothing is moved.
LEMMA QuietBooks ==
  ASSUME Books, Files', UNCHANGED <<pkg, pdur, disk, ddur, loose, lost>>,
         op'.pc = "rewrite" \/ (op'.pc = "apply" /\ op'.cand.own = "rewrite") => lost,
         Real(mem'.idx), Real(op'.cand.idx), op'.kind = "removal" => Promoted(op'.o),
         ScanHolds', ToSettle', IndexFollows', Frozen'
  PROVE  Books'
  <1>1. Entered'
    BY DEF Books, Entered, Real, Promoted, DiskIndices
  <1>2. Suspect' /\ Accounted'
    BY DEF Books, Suspect, Accounted, Quarantined
  <1> QED BY <1>1, <1>2 DEF Books

\* When an operation ends.
LEMMA EndBooks ==
  ASSUME Files', op' = NoOp, Accounted', \A x \in DiskIndices' : \A o \in Objs : x[o] # "none" => Promoted(o)',
         disk'.idx.bad \/ ddur'.idx.bad => lost',
         \A o \in Objs : mem'.idx[o] # "none" => Promoted(o)',
         ~lost' /\ mem'.own = "ok" => \A o \in Objs : mem'.idx[o] \in {disk'.idx.cur[o], "removing"}
  PROVE  Books'
  <1>1. op'.pc = "idle" /\ op'.kind = "none" /\ op'.cand.idx = NoEntries
    BY NoOpFields
  <1>2. \A o \in Objs : op'.cand.idx[o] = "none"
    BY <1>1, NothingEntered
  <1>3. Entered'
    BY <1>1, <1>2 DEF Entered, Real
  <1>4. Suspect' /\ ScanHolds' /\ ToSettle' /\ Frozen'
    BY <1>1 DEF Suspect, ScanHolds, ToSettle, Frozen, Scanning
  <1>5. IndexFollows'
    BY <1>1 DEF IndexFollows, Follows
  <1> QED BY <1>3, <1>4, <1>5 DEF Books

LEMMA QuietEnd ==
  ASSUME Books, Files', op' = NoOp, UNCHANGED <<pkg, pdur, disk, ddur, loose, lost>>, Real(mem'.idx),
         ~lost /\ mem'.own = "ok" => Follows(mem'.idx)
  PROVE  Books'
  <1>1. /\ Accounted' /\ (\A x \in DiskIndices' : \A o \in Objs : x[o] # "none" => Promoted(o)')
        /\ disk'.idx.bad \/ ddur'.idx.bad => lost'
    BY DEF Books, Accounted, Quarantined, Entered, Real, Promoted, DiskIndices, Suspect
  <1>2. \A o \in Objs : mem'.idx[o] # "none" => Promoted(o)'
    BY DEF Real, Promoted
  <1>3. ~lost' /\ mem'.own = "ok" => \A o \in Objs : mem'.idx[o] \in {disk'.idx.cur[o], "removing"}
    BY DEF Follows
  <1> QED BY <1>1, <1>2, <1>3, EndBooks
-----------------------------------------------------------------------------
LEMMA TodoFields ==
  ASSUME NEW r, NEW o \in Todo(r)
  PROVE  o \in Objs /\ r.idx[o] = "removing" /\ op.scan.p[o].at \in {"local", "none"}
  BY DEF Todo, Restorable, Vanished, Removing, Matches, Listed, Candidates

LEMMA PhotoHolds ==
  ASSUME Files, NEW l \in BOOLEAN, NEW q \in BOOLEAN, NEW o \in Objs
  PROVE  LET s == Photo(l, q)
         IN  /\ s.p[o].at = "local" => pkg[o].at = "local" /\ pdur[o].at # "quar"
             /\ Readable(s) /\ s.p[o].at = "none" => pkg[o].at # "quar"
  <1>0. PluginsTypeOK
    BY DEF Files
  <1>1. /\ Photo(l, q).local = l /\ Photo(l, q).quar = q
        /\ Photo(l, q).p[o] = IF (pkg[o].at = "local" /\ l) \/ (pkg[o].at = "quar" /\ q) THEN pkg[o] ELSE Nothing
    BY <1>0, PhotoFields
  <1>2. Nothing.at = "none"
    BY DEF Nothing
  <1>3. pkg[o].at = "local" => pdur[o].at # "quar"
    BY DEF Files, Mirrored
  <1> QED BY <1>1, <1>2, <1>3 DEF Readable

LEMMA ScannedBooks ==
  ASSUME Books, Files', NEW kind \in {"reload", "import"}, NEW o \in Objs \cup {0}, kind = "import" => o \in Objs,
         op.pc = "idle", Scanned(kind, o), UNCHANGED <<disks, mem, told, shown>>
  PROVE  Books'
  <1>0. PluginsTypeOK /\ Files
    BY DEF Books, Files
  <1>1. /\ UNCHANGED <<pkg, pdur, disk, ddur, mem, loose, lost>>
        /\ op'.pc = "load" /\ op'.kind = kind /\ op'.base = mem /\ op'.cand = mem
    BY <1>0, ScannedStep
  <1>2. PICK l \in BOOLEAN, q \in BOOLEAN : op'.scan = Photo(l, q)
    BY <1>0, ScannedStep
  <1>3. ScanHolds'
    BY <1>0, <1>1, <1>2, PhotoHolds DEF ScanHolds
  <1>4. ToSettle' /\ IndexFollows' /\ Frozen'
    BY <1>1 DEF ToSettle, IndexFollows, Frozen, Scanning
  <1>5. Real(mem'.idx) /\ Real(op'.cand.idx)
    BY <1>1 DEF Books, Entered
  <1> QED BY <1>1, <1>3, <1>4, <1>5, QuietBooks

LEMMA LoadOwnershipBooks ==
  ASSUME Books, Files', LoadOwnership
  PROVE  Books'
  <1>0. PluginsTypeOK /\ Files
    BY DEF Books, Files
  <1>1. /\ UNCHANGED <<pkg, pdur, disk, ddur, mem, loose, lost>>
        /\ op.pc = "load" /\ op'.kind = op.kind /\ op'.o = op.o /\ op'.base = op.base /\ op'.scan = op.scan
        /\ SameRest(op'.cand, op.cand)
        /\ \/ op'.pc = "rewrite" /\ Readable(op.scan) /\ op'.cand.own = "rewrite"
           \/ /\ op'.todo = Todo(op'.cand)
              /\ op'.pc = IF Readable(op.scan) /\ op'.cand.own = "ok" /\ op'.todo # {} THEN "converge" ELSE "apply"
    BY <1>0, LoadOwnershipStep
  <1>2. PICK x \in Indexed :
           /\ x \in {LoadIndex(disk.idx), [idx |-> NoEntries, own |-> "down"]}
           /\ op'.cand.idx = x.idx /\ op'.cand.own = x.own
    BY <1>0, LoadOwnershipStep
  <1>3. /\ x.own = "ok" => ~disk.idx.bad /\ x.idx = disk.idx.cur
        /\ x.own = "rewrite" => disk.idx.bad /\ x.idx \in disk.idx.bak
        /\ x.own = "down" => x.idx = NoEntries
        /\ x.own \in {"ok", "rewrite", "down"}
    <2>1. disk.idx \in Docs(Index)
      BY <1>0 DEF PluginsTypeOK, Disks
    <2>2. CASE x = LoadIndex(disk.idx)
      BY <2>1, <2>2, LoadIndexFields DEF Indexed, Trust
    <2>3. CASE x = [idx |-> NoEntries, own |-> "down"]
      BY <2>3
    <2> QED BY <1>2, <2>2, <2>3
  <1>4. Real(mem'.idx) /\ Real(op'.cand.idx)
    BY <1>1, <1>2, <1>3, NothingEntered DEF Books, Entered, DiskIndices
  <1>5. op'.pc = "rewrite" \/ (op'.pc = "apply" /\ op'.cand.own = "rewrite") => lost
    BY <1>1, <1>2, <1>3 DEF Books, Suspect
  <1>6. ScanHolds'
    BY <1>1 DEF Books, ScanHolds
  <1>7. ToSettle'
    <2>1. op'.pc = "converge" => op'.todo = Todo(op'.cand) /\ Readable(op.scan) /\ op'.cand.own = "ok"
      BY <1>1
    <2> DEFINE c == op'.cand
    <2>2. \A o \in Todo(c) : c.idx[o] = "removing" /\ op.scan.p[o].at \in {"local", "none"}
      <3> HIDE DEF c
      <3> QED BY TodoFields
    <2> QED BY <1>1, <2>1, <2>2 DEF ToSettle
  <1>8. Scanning' = Scanning
    BY <1>1 DEF Scanning
  <1>9. op.kind # "removal"
    BY <1>0, <1>1 DEF PluginsTypeOK
  <1>10. IndexFollows'
    BY <1>1, <1>2, <1>3, <1>8 DEF Books, IndexFollows, Follows
  <1>11. Frozen'
    BY <1>1, <1>8, <1>9 DEF Books, Frozen, SameRest
  <1> QED BY <1>1, <1>4, <1>5, <1>6, <1>7, <1>9, <1>10, <1>11, QuietBooks

LEMMA RewriteOwnershipBooks ==
  ASSUME Books, Files', RewriteOwnership
  PROVE  Books'
  <1>0. PluginsTypeOK /\ Files
    BY DEF Books, Files
  <1>1. /\ UNCHANGED <<pkg, pdur, mem, loose, lost>>
        /\ op.pc = "rewrite" /\ op'.kind = op.kind /\ op'.o = op.o /\ op'.base = op.base /\ op'.scan = op.scan
        /\ op'.cand.idx = op.cand.idx /\ SameRest(op'.cand, op.cand)
        /\ op'.todo = Todo(op'.cand)
        /\ op'.pc = IF Readable(op.scan) /\ op'.cand.own = "ok" /\ op'.todo # {} THEN "converge" ELSE "apply"
        /\ op.cand.idx \in Index
    BY <1>0, RewriteOwnershipStep
  <1>2. PICK out \in Outcomes : Save("idx", op.cand.idx, out)
    BY <1>0, RewriteOwnershipStep
  <1>3. lost
    BY <1>1 DEF Books, Suspect
  <1>4. Real(op.cand.idx) /\ Real(mem.idx)
    BY DEF Books, Entered
  <1>5. /\ Accounted' /\ (\A x \in DiskIndices' : \A o \in Objs : x[o] # "none" => Promoted(o)')
    BY <1>1, <1>2, <1>3, <1>4, SavingIndex
  <1>6. op.kind # "removal"
    BY <1>0, <1>1 DEF PluginsTypeOK
  <1>7. Entered'
    BY <1>1, <1>4, <1>5, <1>6 DEF Entered, Real, Promoted
  <1>8. Suspect' /\ IndexFollows'
    BY <1>1, <1>3 DEF Suspect, IndexFollows
  <1>9. ScanHolds'
    BY <1>1 DEF Books, ScanHolds
  <1>10. ToSettle'
    <2> DEFINE c == op'.cand
    <2>1. \A o \in Todo(c) : c.idx[o] = "removing" /\ op.scan.p[o].at \in {"local", "none"}
      <3> HIDE DEF c
      <3> QED BY TodoFields
    <2> QED BY <1>1, <2>1 DEF ToSettle
  <1>11. Frozen'
    BY <1>1, <1>6 DEF Books, Frozen, SameRest, Scanning
  <1> QED BY <1>5, <1>7, <1>8, <1>9, <1>10, <1>11 DEF Books

LEMMA ConvergeBooks ==
  ASSUME Books, Files', Converge
  PROVE  Books'
  <1>0. PluginsTypeOK /\ Files
    BY DEF Books, Files
  <1> DEFINE o == First(op.todo)
             x == Settled(op.cand.idx, op.scan, o)
  <1>1. /\ UNCHANGED <<pkg, pdur, mem, lost>>
        /\ op.pc = "converge" /\ op'.kind = op.kind /\ op'.o = op.o /\ op'.base = op.base /\ op'.scan = op.scan
        /\ op'.cand.own = op.cand.own /\ SameRest(op'.cand, op.cand)
        /\ x \in Index
        /\ op'.todo = op.todo \ {o} /\ op'.pc \in {"apply", "converge"}
    BY <1>0, ConvergeStep
  <1>2. PICK out \in Outcomes :
           /\ Save("idx", x, out)
           /\ op'.cand.idx = IF out # "failed" THEN x ELSE op.cand.idx
           /\ loose' = Loosened(o, out # "failed" /\ x[o] = "none")
    BY <1>0, ConvergeStep
  <1>3. op.todo \subseteq Objs /\ op.todo # {} /\ op.cand.idx \in Index
    BY <1>0, <1>1 DEF PluginsTypeOK, Ops, Registries
  <1>4. o \in op.todo /\ o \in Objs
    BY <1>3, FirstIn
  <1>5. /\ op.cand.idx[o] = "removing" /\ op.scan.p[o].at \in {"local", "none"}
        /\ Readable(op.scan) /\ op.cand.own = "ok"
    BY <1>1, <1>4 DEF Books, ToSettle
  <1>6. /\ x[o] \in {"managed", "none"} /\ (x[o] = "managed" => op.scan.p[o].at = "local")
        /\ \A q \in Objs \ {o} : x[q] = op.cand.idx[q]
    BY <1>3, <1>4 DEF Settled, Index, Restorable, Matches, Listed, Candidates
  <1> HIDE DEF x, o
  <1>7. /\ op.scan.p[o].at = "local" => pkg[o].at \in {"local", "gone"} /\ pdur[o].at # "quar"
        /\ op.scan.p[o].at = "none" => pkg[o].at # "quar"
    BY <1>1, <1>4, <1>5 DEF Books, ScanHolds
  <1>8. loose \subseteq loose' /\ (out # "failed" /\ x[o] = "none" /\ pdur[o].at = "quar" => o \in loose')
    BY <1>2 DEF Loosened
  <1>9. ~lost => op.cand.idx = disk.idx.cur
    <2>1. op.kind # "removal"
      BY <1>0, <1>1 DEF PluginsTypeOK
    <2> QED BY <1>1, <1>5, <2>1 DEF Books, IndexFollows
  <1>10. Real(x) /\ Real(op.cand.idx) /\ Real(mem.idx)
    BY <1>4, <1>5, <1>6 DEF Books, Entered, Real
  <1>11. \A q \in Objs : /\ Quarantined(q) /\ out # "failed" /\ q \notin loose' /\ ~lost /\ disk.idx.cur[q] = "removing"
                         => x[q] = "removing"
    BY <1>5, <1>6, <1>7, <1>8, <1>9 DEF Quarantined
  <1>12. /\ Accounted' /\ (\A y \in DiskIndices' : \A q \in Objs : y[q] # "none" => Promoted(q)')
         /\ disk'.idx.bad \/ ddur'.idx.bad => lost'
         /\ out = "failed" => disk' = disk
         /\ out # "failed" => disk'.idx.cur = x
    BY <1>1, <1>2, <1>8, <1>10, <1>11, SavingIndex
  <1>13. op.kind # "removal"
    BY <1>0, <1>1 DEF PluginsTypeOK
  <1>14. Entered'
    BY <1>1, <1>2, <1>10, <1>12, <1>13 DEF Entered, Real, Promoted
  <1>15. Suspect' /\ ScanHolds'
    BY <1>1, <1>5, <1>12 DEF Books, Suspect, ScanHolds
  <1>16. ToSettle'
    <2>1. \A q \in op.todo \ {o} : op.cand.idx[q] = "removing" /\ op.scan.p[q].at \in {"local", "none"} /\ q \in Objs
      BY <1>1, <1>3 DEF Books, ToSettle
    <2>2. \A q \in op.todo \ {o} : op'.cand.idx[q] = "removing"
      BY <1>2, <1>6, <2>1
    <2> QED BY <1>1, <1>5, <2>1, <2>2 DEF ToSettle
  <1>17. IndexFollows'
    <2> SUFFICES ASSUME ~lost PROVE IndexFollows'
      BY <1>1 DEF IndexFollows
    <2>1. op'.cand.idx = disk'.idx.cur
      BY <1>2, <1>9, <1>12
    <2>2. ~Scanning' /\ mem'.own = "ok" => \A q \in Objs : mem.idx[q] \in {disk'.idx.cur[q], "removing"}
      <3> SUFFICES ASSUME ~Scanning', mem'.own = "ok" PROVE \A q \in Objs : mem.idx[q] \in {disk'.idx.cur[q], "removing"}
        OBVIOUS
      <3>1. Follows(mem.idx)
        BY <1>1 DEF Books, IndexFollows, Scanning
      <3>2. mem.idx[o] = "removing"
        BY <1>4, <1>5, <1>9, <3>1 DEF Follows
      <3>3. \A q \in Objs \ {o} : disk'.idx.cur[q] = disk.idx.cur[q]
        BY <1>6, <1>9, <1>12
      <3> QED BY <3>1, <3>2, <3>3 DEF Follows
    <2> QED BY <1>1, <2>1, <2>2 DEF IndexFollows, Follows
  <1>18. Frozen'
    BY <1>1, <1>13 DEF Books, Frozen, SameRest, Scanning
  <1> QED BY <1>12, <1>14, <1>15, <1>16, <1>17, <1>18 DEF Books
-----------------------------------------------------------------------------
\* A candidate that a scan renewed has the saved index.
LEMMA AppliedFollows ==
  ASSUME Books, NEW t \in Stated, op.pc = "apply"
  PROVE  /\ Applied(t) \in Registries /\ Applied(t).idx = op.cand.idx /\ Real(Applied(t).idx)
         /\ Applied(t).own = "ok" => op.cand.own = "ok"
         /\ ~lost /\ Applied(t).own = "ok" => Applied(t).idx = disk.idx.cur /\ Follows(Applied(t).idx)
  <1>0. PluginsTypeOK
    BY DEF Books, Files
  <1> DEFINE f == Applied(t)
  <1>1. /\ f \in Registries /\ f.idx = op.cand.idx
        /\ f.own = (IF Readable(op.scan) /\ op.cand.own = "rewrite" THEN "down" ELSE op.cand.own)
    BY <1>0, AppliedFields
  <1> HIDE DEF f
  <1>2. op.kind # "removal"
    BY <1>0 DEF PluginsTypeOK
  <1>3. f.own = "ok" => op.cand.own = "ok"
    BY <1>1
  <1>4. ~lost /\ op.cand.own = "ok" => op.cand.idx = disk.idx.cur /\ Follows(op.cand.idx)
    BY <1>2 DEF Books, IndexFollows
  <1>5. Real(op.cand.idx)
    BY DEF Books, Entered
  <1> QED BY <1>1, <1>3, <1>4, <1>5 DEF f

\* A scan that leaves the number as it was has found the catalog that is shown.
LEMMA SameNumber ==
  ASSUME Books, NEW t \in Stated, Scanning, Applied(t).gen = mem.gen
  PROVE  Structure(Applied(t)) = Structure(mem) /\ mem.gen # 0
  <1>0. PluginsTypeOK
    BY DEF Books, Files
  <1> DEFINE f == Applied(t)
             n == Renewed(t)
  <1>1. /\ f \in Registries /\ n \in Registries
        /\ f.idx = n.idx /\ f.own = n.own /\ f.sto = n.sto
        /\ f.scan = n.scan /\ f.cls = n.cls /\ f.sum = n.sum
        /\ f.gen = (IF op.base.gen = 0 THEN 1
                    ELSE IF Structure(n) # Structure(op.base) THEN NextNumber(op.base.gen) ELSE op.cand.gen)
    BY <1>0, AppliedFields
  <1>2. f.gen = mem.gen
    OBVIOUS
  <1> HIDE DEF f, n
  <1>3. op.base = mem /\ op.cand.gen = mem.gen
    BY DEF Books, Frozen
  <1>4. mem.gen \in {0, 1, 2} /\ NextNumber(mem.gen) # mem.gen
    BY <1>0 DEF PluginsTypeOK, Registries, NextNumber
  <1>5. Structure(n) = Structure(mem) /\ mem.gen # 0
    BY <1>1, <1>2, <1>3, <1>4
  <1>6. Structure(f) = Structure(n)
    BY <1>1, SameStructure
  <1> QED BY <1>5, <1>6 DEF f

LEMMA ReloadedBooks ==
  ASSUME Books, Files', Reloaded
  PROVE  Books'
  <1>0. PluginsTypeOK
    BY DEF Books, Files
  <1>1. UNCHANGED <<pkg, pdur, disk, ddur, loose, lost>> /\ op.pc = "apply" /\ op' = NoOp
    BY <1>0, ReloadedStep
  <1>2. PICK t \in Stated : mem' = Applied(t)
    BY <1>0, ReloadedStep DEF Shown
  <1>3. Real(mem'.idx) /\ (~lost /\ mem'.own = "ok" => Follows(mem'.idx))
    BY <1>1, <1>2, AppliedFollows
  <1> QED BY <1>1, <1>3, QuietEnd

LEMMA ImportedBooks ==
  ASSUME Books, Files', Imported
  PROVE  Books'
  <1>0. PluginsTypeOK /\ mem \in Registries
    BY DEF Books, Files, PluginsTypeOK
  <1>1. UNCHANGED <<pkg, pdur, disk, ddur, loose, lost>> /\ op.pc = "apply" /\ op.kind = "published" /\ op' = NoOp
    BY <1>0, ImportedStep
  <1>2. UNCHANGED mem \/ \E t \in Stated : mem' = Renumbered(mem, Applied(t))
    BY <1>0, ImportedStep DEF Shown
  <1>3. CASE UNCHANGED mem
    <2>1. Real(mem.idx) /\ (~lost /\ mem.own = "ok" => Follows(mem.idx))
      BY <1>1 DEF Books, Entered, IndexFollows, Scanning
    <2> QED BY <1>1, <1>3, <2>1, QuietEnd
  <1>4. ASSUME NEW t \in Stated, mem' = Renumbered(mem, Applied(t)) PROVE Books'
    <2> DEFINE f == Applied(t)
    <2>1. f \in Registries /\ Real(f.idx) /\ (~lost /\ f.own = "ok" => Follows(f.idx))
      BY <1>1, AppliedFollows
    <2> HIDE DEF f
    <2>2. mem' = Renumbered(mem, f)
      BY <1>4 DEF f
    <2>3. mem'.idx = f.idx /\ mem'.own = f.own
      BY <1>0, <2>1, <2>2, RenumberedFields
    <2> QED BY <1>1, <2>1, <2>3, QuietEnd
  <1> QED BY <1>2, <1>3, <1>4

LEMMA PrescannedBooks ==
  ASSUME Books, Files', Prescanned
  PROVE  Books'
  <1>0. PluginsTypeOK /\ mem \in Registries
    BY DEF Books, Files, PluginsTypeOK
  <1>1. UNCHANGED <<pkg, pdur, disk, ddur, loose, lost>> /\ op.pc = "apply" /\ op.kind = "import"
    BY <1>0, PrescannedStep
  <1>2. PICK t \in Stated :
          \/ op' = NoOp /\ mem' = Renumbered(mem, Applied(t))
          \/ /\ Applied(t).gen = mem.gen /\ UNCHANGED mem
             /\ op'.pc = "stage" /\ op'.kind = op.kind /\ op'.o = op.o /\ op'.cand = Applied(t)
          \/ Applied(t).gen = mem.gen /\ UNCHANGED mem /\ op' = NoOp
    BY <1>0, PrescannedStep DEF Shown
  <1> DEFINE f == Applied(t)
  <1>3. f \in Registries /\ f.idx = op.cand.idx /\ Real(f.idx) /\ (f.own = "ok" => op.cand.own = "ok")
        /\ (~lost /\ f.own = "ok" => f.idx = disk.idx.cur /\ Follows(f.idx))
    BY <1>1, AppliedFollows
  <1>4. f.gen = mem.gen => Structure(f) = Structure(mem)
    BY <1>1, SameNumber DEF Scanning
  <1>5. f.own = (IF Readable(op.scan) /\ op.cand.own = "rewrite" THEN "down" ELSE op.cand.own)
    BY <1>0, AppliedFields
  <1>6. \/ op' = NoOp /\ mem' = Renumbered(mem, f)
        \/ /\ f.gen = mem.gen /\ UNCHANGED mem
           /\ op'.pc = "stage" /\ op'.kind = op.kind /\ op'.o = op.o /\ op'.cand = f
        \/ f.gen = mem.gen /\ UNCHANGED mem /\ op' = NoOp
    BY <1>2
  <1> HIDE DEF f
  <1>7. Real(mem.idx)
    BY DEF Books, Entered
  <1>8. f.gen = mem.gen /\ ~lost /\ mem.own = "ok" => Follows(mem.idx)
    <2> SUFFICES ASSUME f.gen = mem.gen, ~lost, mem.own = "ok" PROVE Follows(mem.idx)
      OBVIOUS
    <2>1. f.own # "down" /\ f.idx = mem.idx
      BY <1>4, StructureFields
    <2>2. op.cand.own # "rewrite"
      BY <1>1 DEF Books, Suspect
    <2>3. op.cand.own \in Trust
      BY <1>0 DEF PluginsTypeOK, Ops, Registries
    <2>4. f.own = "ok"
      BY <1>5, <2>1, <2>2, <2>3 DEF Trust
    <2> QED BY <1>3, <2>1, <2>4
  <1>9. CASE op' = NoOp /\ mem' = Renumbered(mem, f)
    <2>1. mem'.idx = f.idx /\ mem'.own = f.own
      BY <1>0, <1>3, <1>9, RenumberedFields
    <2> QED BY <1>1, <1>3, <1>9, <2>1, QuietEnd
  <1>10. CASE f.gen = mem.gen /\ UNCHANGED mem /\ op' = NoOp
    BY <1>1, <1>7, <1>8, <1>10, QuietEnd
  <1>11. CASE /\ f.gen = mem.gen /\ UNCHANGED mem
              /\ op'.pc = "stage" /\ op'.kind = op.kind /\ op'.o = op.o /\ op'.cand = f
    <2>1. ScanHolds' /\ ToSettle' /\ Frozen'
      BY <1>1, <1>11 DEF ScanHolds, ToSettle, Frozen, Scanning
    <2>2. IndexFollows'
      BY <1>1, <1>3, <1>8, <1>11 DEF IndexFollows, Follows
    <2> QED BY <1>1, <1>3, <1>7, <1>11, <2>1, <2>2, QuietBooks
  <1> QED BY <1>6, <1>9, <1>10, <1>11

LEMMA RetryStateBooks ==
  ASSUME Books, Files', RetryState
  PROVE  Books'
  <1>0. PluginsTypeOK /\ mem \in Registries
    BY DEF Books, Files, PluginsTypeOK
  <1>1. UNCHANGED <<pkg, pdur, disk, ddur, loose, lost, op>> /\ op.pc = "idle"
    BY <1>0, RetryStateStep
  <1>2. PICK t \in Stated : WithState(mem, t) \in Registries /\ mem' = Renumbered(mem, WithState(mem, t))
    BY <1>0, RetryStateStep DEF Shown
  <1> DEFINE w == WithState(mem, t)
  <1>3. w \in Registries /\ w.idx = mem.idx /\ w.own = mem.own
    BY <1>0, StateFields DEF Stated
  <1>4. mem' = Renumbered(mem, w)
    BY <1>2
  <1> HIDE DEF w
  <1>5. mem'.idx = mem.idx /\ mem'.own = mem.own
    BY <1>0, <1>3, <1>4, RenumberedFields
  <1>6. op.kind # "removal"
    BY <1>0, <1>1 DEF PluginsTypeOK
  <1>7. Real(mem'.idx) /\ Real(op'.cand.idx)
    BY <1>1, <1>5 DEF Books, Entered
  <1>8. ScanHolds' /\ ToSettle' /\ Frozen'
    BY <1>1, <1>6 DEF ScanHolds, ToSettle, Frozen, Scanning
  <1>9. IndexFollows'
    BY <1>1, <1>5 DEF Books, IndexFollows, Follows, Scanning
  <1> QED BY <1>1, <1>6, <1>7, <1>8, <1>9, QuietBooks

LEMMA SetEnabledBooks ==
  ASSUME Books, Files', NEW i \in Ids, NEW on \in BOOLEAN, SetEnabled(i, on)
  PROVE  Books'
  <1>0. PluginsTypeOK /\ mem \in Registries
    BY DEF Books, Files, PluginsTypeOK
  <1>1. UNCHANGED <<pkg, pdur, op, loose, lost>> /\ op.pc = "idle"
    BY <1>0, SetEnabledStep
  <1>2. PICK st \in Decisions, out \in Outcomes :
              /\ Save("st", st, out)
              /\ out = "failed" => mem' = mem
              /\ out # "failed" => mem' = WithState(mem, [st |-> st, sto |-> "ok"])
    BY <1>0, SetEnabledStep
  <1>3. mem'.idx = mem.idx /\ mem'.own = mem.own
    BY <1>0, <1>2, StateFields DEF Trust
  <1>4. /\ Accounted' /\ (\A x \in DiskIndices' : \A o \in Objs : x[o] # "none" => Promoted(o)')
        /\ (disk'.idx.bad \/ ddur'.idx.bad => lost')
        /\ disk'.idx = disk.idx
    BY <1>1, <1>2, SavingState
  <1>5. op.kind # "removal"
    BY <1>0, <1>1 DEF PluginsTypeOK
  <1>6. Entered'
    BY <1>1, <1>3, <1>4, <1>5 DEF Books, Entered, Real, Promoted
  <1>7. Suspect' /\ ScanHolds' /\ ToSettle' /\ Frozen'
    BY <1>1, <1>4, <1>5 DEF Suspect, ScanHolds, ToSettle, Frozen, Scanning
  <1>8. IndexFollows'
    BY <1>1, <1>3, <1>4 DEF Books, IndexFollows, Follows, Scanning
  <1> QED BY <1>4, <1>6, <1>7, <1>8 DEF Books
-----------------------------------------------------------------------------
\* While an operation is neither scanning nor starting a scan.
Acting == op.pc \in {"stage", "disable", "promote", "register", "postscan", "off", "mark", "rename", "look", "delete",
                     "forget", "rollback"}

LEMMA ActingBooks ==
  ASSUME Acting' PROVE ScanHolds' /\ ToSettle' /\ ~Scanning' /\ op'.pc \notin {"idle", "load", "rewrite", "apply"}
  BY DEF Acting, ScanHolds, ToSettle, Scanning

\* When packages are moved and nothing is saved.
LEMMA MovedBooks ==
  ASSUME Books, Files', \A o \in Objs : Promoted(o) => Promoted(o)', UNCHANGED <<disk, ddur, loose, lost>>,
         Acting, op'.kind = op.kind, op'.o = op.o, op'.cand = op.cand, UNCHANGED mem, Acting',
         \A o \in Objs : /\ Quarantined(o)' /\ ~Quarantined(o)
                         => disk.idx.cur[o] = "removing" /\ ddur.idx.cur[o] = "removing"
  PROVE  Books'
  <1>0. PluginsTypeOK /\ PluginsTypeOK'
    BY DEF Books, Files
  <1>1. op.kind = "removal" => op.o \in Objs
    BY <1>0 DEF PluginsTypeOK, Acting
  <1>2. Entered'
    BY <1>1 DEF Books, Entered, Real, DiskIndices
  <1>3. Accounted'
    BY DEF Books, Accounted, Quarantined
  <1>4. Suspect' /\ ScanHolds' /\ ToSettle'
    BY ActingBooks DEF Books, Suspect
  <1>5. IndexFollows' /\ Frozen'
    BY ActingBooks DEF Books, IndexFollows, Frozen, Follows, Acting, Scanning
  <1> QED BY <1>2, <1>3, <1>4, <1>5 DEF Books

LEMMA StageBooks ==
  ASSUME Books, Files', [PluginsNext]_pluginVars, Stage
  PROVE  Books'
  <1>0. PluginsTypeOK /\ Files
    BY DEF Books, Files
  <1>1. /\ UNCHANGED <<disk, ddur, mem, loose, lost>> /\ op.pc = "stage" /\ op.o \in Objs
        /\ pkg'[op.o].at = "stage" /\ pdur'[op.o].at = "stage"
        /\ \A q \in Objs \ {op.o} : pkg'[q] = pkg[q] /\ pdur'[q] = pdur[q]
        /\ \/ op'.pc = "disable" /\ SameOp(op', op)
           \/ op' = NoOp
    BY <1>0, StageStep
  <1>2. \A o \in Objs : Promoted(o) => Promoted(o)'
    BY <1>0, PromotedStays
  <1>3. \A o \in Objs : ~(Quarantined(o)' /\ ~Quarantined(o))
    BY <1>1 DEF Quarantined
  <1>4. CASE op'.pc = "disable" /\ SameOp(op', op)
    BY <1>1, <1>2, <1>3, <1>4, MovedBooks DEF SameOp, Acting
  <1>5. CASE op' = NoOp
    <2>1. Accounted' /\ (disk'.idx.bad \/ ddur'.idx.bad => lost')
      BY <1>1, <1>3 DEF Books, Accounted, Suspect, Quarantined
    <2>2. /\ \A x \in DiskIndices' : \A o \in Objs : x[o] # "none" => Promoted(o)'
          /\ \A o \in Objs : mem'.idx[o] # "none" => Promoted(o)'
      BY <1>1, <1>2 DEF Books, Entered, Real, DiskIndices
    <2>3. ~lost' /\ mem'.own = "ok" => \A o \in Objs : mem'.idx[o] \in {disk'.idx.cur[o], "removing"}
      BY <1>1 DEF Books, IndexFollows, Follows, Scanning
    <2> QED BY <1>5, <2>1, <2>2, <2>3, EndBooks
  <1> QED BY <1>1, <1>4, <1>5

LEMMA DisableBooks ==
  ASSUME Books, Files', Disable
  PROVE  Books'
  <1>0. PluginsTypeOK /\ mem \in Registries
    BY DEF Books, Files, PluginsTypeOK
  <1>1. UNCHANGED <<pkg, pdur, loose, lost>> /\ op.pc = "disable" /\ op.kind = "import"
    BY <1>0, DisableStep
  <1>2. PICK c \in Registries :
          /\ mem' = AdoptImport(mem, c) /\ c.idx = op.cand.idx /\ c.own = op.cand.own
          /\ op' = NoOp \/ (op'.pc = "promote" /\ op'.kind = op.kind /\ op'.o = op.o /\ op'.cand = c)
          /\ UNCHANGED <<disk, ddur>> \/ \E out \in Outcomes, st \in Decisions : Save("st", st, out)
    BY <1>0, DisableStep
  <1>3. mem'.idx = op.cand.idx /\ mem'.own = op.cand.own
    BY <1>0, <1>2, AdoptImportFields
  <1>4. /\ Accounted' /\ (\A x \in DiskIndices' : \A o \in Objs : x[o] # "none" => Promoted(o)')
        /\ (disk'.idx.bad \/ ddur'.idx.bad => lost')
        /\ disk'.idx = disk.idx
    <2>1. CASE UNCHANGED <<disk, ddur>>
      BY <1>1, <2>1 DEF Books, Accounted, Quarantined, Entered, Real, Promoted, DiskIndices, Suspect
    <2>2. ASSUME NEW out \in Outcomes, NEW st \in Decisions, Save("st", st, out)
          PROVE  /\ Accounted' /\ (\A x \in DiskIndices' : \A o \in Objs : x[o] # "none" => Promoted(o)')
                 /\ (disk'.idx.bad \/ ddur'.idx.bad => lost')
                 /\ disk'.idx = disk.idx
      BY <1>1, <2>2, SavingState
    <2> QED BY <1>2, <2>1, <2>2
  <1>5. Real(op.cand.idx) /\ (~lost /\ op.cand.own = "ok" => op.cand.idx = disk.idx.cur /\ Follows(op.cand.idx))
    BY <1>1 DEF Books, Entered, IndexFollows
  <1>6. CASE op' = NoOp
    <2>1. \A o \in Objs : mem'.idx[o] # "none" => Promoted(o)'
      BY <1>1, <1>3, <1>5 DEF Real, Promoted
    <2>2. ~lost' /\ mem'.own = "ok" => \A o \in Objs : mem'.idx[o] \in {disk'.idx.cur[o], "removing"}
      BY <1>1, <1>3, <1>4, <1>5 DEF Follows
    <2> QED BY <1>4, <1>6, <2>1, <2>2, EndBooks
  <1>7. CASE op'.pc = "promote" /\ op'.kind = op.kind /\ op'.o = op.o /\ op'.cand = c
    <2>1. Entered'
      BY <1>1, <1>2, <1>3, <1>4, <1>5, <1>7 DEF Entered, Real, Promoted
    <2>2. Suspect' /\ ScanHolds' /\ ToSettle' /\ Frozen'
      BY <1>1, <1>4, <1>7 DEF Suspect, ScanHolds, ToSettle, Frozen, Scanning
    <2>3. IndexFollows'
      BY <1>1, <1>2, <1>3, <1>4, <1>5, <1>7 DEF IndexFollows, Follows
    <2> QED BY <1>4, <2>1, <2>2, <2>3 DEF Books
  <1> QED BY <1>2, <1>6, <1>7

LEMMA PromoteBooks ==
  ASSUME Books, Files', [PluginsNext]_pluginVars, Promote
  PROVE  Books'
  <1>0. PluginsTypeOK /\ Files /\ mem \in Registries /\ op.cand \in Registries
    BY DEF Books, Files, PluginsTypeOK, Ops
  <1>1. /\ UNCHANGED <<disk, ddur, loose, lost>> /\ op.pc = "promote" /\ op.o \in Objs /\ op.kind = "import"
        /\ \A q \in Objs \ {op.o} : pkg'[q] = pkg[q] /\ pdur'[q] = pdur[q]
        /\ pkg'[op.o].at \in {"local", "gone", pkg[op.o].at} /\ pdur'[op.o] \in {pdur[op.o], pkg'[op.o]}
        /\ \/ op'.pc \in {"register", "postscan"} /\ SameOp(op', op) /\ UNCHANGED mem
           \/ op' = NoOp /\ mem' = Renumbered(mem, op.cand)
    BY <1>0, PromoteStep DEF Shown
  <1>2. \A o \in Objs : Promoted(o) => Promoted(o)'
    BY <1>0, PromotedStays
  <1>3. \A o \in Objs : ~(Quarantined(o)' /\ ~Quarantined(o))
    BY <1>1 DEF Quarantined
  <1>4. CASE op'.pc \in {"register", "postscan"} /\ SameOp(op', op) /\ UNCHANGED mem
    BY <1>1, <1>2, <1>3, <1>4, MovedBooks DEF SameOp, Acting
  <1>5. CASE op' = NoOp /\ mem' = Renumbered(mem, op.cand)
    <2>1. Accounted' /\ (disk'.idx.bad \/ ddur'.idx.bad => lost')
      BY <1>1, <1>3 DEF Books, Accounted, Suspect, Quarantined
    <2>2. mem'.idx = op.cand.idx /\ mem'.own = op.cand.own
      BY <1>0, <1>5, RenumberedFields
    <2>3. /\ \A x \in DiskIndices' : \A o \in Objs : x[o] # "none" => Promoted(o)'
          /\ \A o \in Objs : mem'.idx[o] # "none" => Promoted(o)'
      BY <1>1, <1>2, <2>2 DEF Books, Entered, Real, DiskIndices
    <2>4. ~lost' /\ mem'.own = "ok" => \A o \in Objs : mem'.idx[o] \in {disk'.idx.cur[o], "removing"}
      BY <1>1, <2>2 DEF Books, IndexFollows, Follows, Scanning
    <2> QED BY <1>5, <2>1, <2>3, <2>4, EndBooks
  <1> QED BY <1>1, <1>4, <1>5

LEMMA RegisterBooks ==
  ASSUME Books, Files', Register
  PROVE  Books'
  <1>0. PluginsTypeOK /\ mem \in Registries /\ op.cand.idx \in Index
    BY DEF Books, Files, PluginsTypeOK, Ops, Registries
  <1>1. /\ UNCHANGED <<pkg, pdur, loose, lost>> /\ op.pc = "register" /\ op.o \in Objs /\ op.kind = "import"
        /\ op'.pc = "postscan" /\ op'.kind = op.kind /\ op'.o = op.o
    BY <1>0, RegisterStep
  <1>2. PICK c \in Registries :
          /\ mem' = AdoptImport(mem, c) /\ op'.cand = c
          /\ \/ /\ Registrable(op.cand, op.o) /\ Entry("managed") \in Index
                /\ \E out \in Outcomes : Save("idx", Entry("managed"), out) /\ Kept(c, out, "managed")
             \/ c = op.cand /\ UNCHANGED <<disk, ddur>>
    BY <1>0, RegisterStep
  <1>3. mem'.idx = c.idx /\ mem'.own = c.own
    BY <1>0, <1>2, AdoptImportFields
  <1>4. Real(op.cand.idx) /\ (~lost /\ op.cand.own = "ok" => op.cand.idx = disk.idx.cur /\ Follows(op.cand.idx))
    BY <1>1 DEF Books, Entered, IndexFollows
  <1>5. /\ Accounted' /\ (\A x \in DiskIndices' : \A o \in Objs : x[o] # "none" => Promoted(o)')
        /\ (disk'.idx.bad \/ ddur'.idx.bad => lost')
        /\ Real(c.idx) /\ (~lost /\ c.own = "ok" => c.idx = disk'.idx.cur)
    <2>1. CASE c = op.cand /\ UNCHANGED <<disk, ddur>>
      BY <1>1, <1>4, <2>1 DEF Books, Accounted, Quarantined, Entered, Real, Promoted, DiskIndices, Suspect
    <2>2. ASSUME Registrable(op.cand, op.o), Entry("managed") \in Index, NEW out \in Outcomes,
                 Save("idx", Entry("managed"), out), Kept(c, out, "managed")
          PROVE  /\ Accounted' /\ (\A x \in DiskIndices' : \A o \in Objs : x[o] # "none" => Promoted(o)')
                 /\ (disk'.idx.bad \/ ddur'.idx.bad => lost')
                 /\ Real(c.idx) /\ (~lost /\ c.own = "ok" => c.idx = disk'.idx.cur)
      <3> DEFINE v == Entry("managed")
      <3>1. v[op.o] = "managed" /\ \A q \in Objs \ {op.o} : v[q] = op.cand.idx[q]
        BY <1>0, <1>1 DEF Entry, Index
      <3>2. pkg[op.o].at \in {"local", "gone"} /\ pdur[op.o].at \in {"local", "gone"}
        BY <1>1 DEF Books, Files, Underway
      <3>3. op.cand.own = "ok"
        BY <2>2 DEF Registrable
      <3>4. v \in Index /\ Save("idx", v, out)
        BY <2>2
      <3>5. (out = "failed" => c = op.cand) /\ (out # "failed" => c.idx = v) /\ c.own = op.cand.own
        BY <2>2 DEF Kept
      <3> HIDE DEF v
      <3>6. Real(v)
        BY <1>4, <3>1, <3>2 DEF Real, Promoted
      <3>7. \A o \in Objs : /\ Quarantined(o) /\ out # "failed" /\ o \notin loose' /\ ~lost /\ disk.idx.cur[o] = "removing"
                            => v[o] = "removing"
        BY <1>4, <3>1, <3>2, <3>3 DEF Quarantined
      <3>8. /\ Accounted' /\ (\A x \in DiskIndices' : \A o \in Objs : x[o] # "none" => Promoted(o)')
            /\ (disk'.idx.bad \/ ddur'.idx.bad => lost')
            /\ (out = "failed" => disk' = disk) /\ (out # "failed" => disk'.idx.cur = v)
        BY <1>1, <3>4, <3>6, <3>7, SavingIndex
      <3> QED BY <1>4, <3>3, <3>5, <3>6, <3>8
    <2> QED BY <1>2, <2>1, <2>2
  <1>6. Entered'
    BY <1>1, <1>2, <1>3, <1>5 DEF Entered, Real, Promoted
  <1>7. Suspect' /\ ScanHolds' /\ ToSettle' /\ Frozen'
    BY <1>1, <1>5 DEF Suspect, ScanHolds, ToSettle, Frozen, Scanning
  <1>8. IndexFollows'
    BY <1>1, <1>2, <1>3, <1>5 DEF IndexFollows, Follows
  <1> QED BY <1>5, <1>6, <1>7, <1>8 DEF Books

LEMMA PostscanBooks ==
  ASSUME Books, Files', Postscan
  PROVE  Books'
  <1>0. PluginsTypeOK /\ Files
    BY DEF Books, Files
  <1>1. UNCHANGED <<pkg, pdur, disk, ddur, mem, loose, lost>> /\ op.pc = "postscan" /\ op.kind = "import"
    BY <1>0, PostscanStep
  <1>2. \/ op' = NoOp
        \/ /\ op'.pc = "load" /\ op'.kind = "published" /\ op'.o = op.o /\ op'.base = op.cand /\ op'.cand = op.cand
           /\ \E l \in BOOLEAN, q \in BOOLEAN : op'.scan = Photo(l, q)
    BY <1>0, PostscanStep
  <1>3. Real(mem.idx) /\ Real(op.cand.idx) /\ (~lost /\ mem.own = "ok" => Follows(mem.idx))
    BY <1>1 DEF Books, Entered, IndexFollows, Scanning
  <1>4. CASE op' = NoOp
    BY <1>1, <1>3, <1>4, QuietEnd
  <1>5. CASE /\ op'.pc = "load" /\ op'.kind = "published" /\ op'.o = op.o /\ op'.base = op.cand /\ op'.cand = op.cand
             /\ \E l \in BOOLEAN, q \in BOOLEAN : op'.scan = Photo(l, q)
    <2>1. ScanHolds'
      <3>1. PICK l \in BOOLEAN, q \in BOOLEAN : op'.scan = Photo(l, q)
        BY <1>5
      <3> QED BY <1>0, <1>1, <3>1, PhotoHolds DEF ScanHolds
    <2>2. ToSettle' /\ Frozen' /\ IndexFollows'
      BY <1>1, <1>3, <1>5 DEF ToSettle, Frozen, IndexFollows, Scanning, Follows
    <2> QED BY <1>1, <1>3, <1>5, <2>1, <2>2, QuietBooks
  <1> QED BY <1>2, <1>4, <1>5
-----------------------------------------------------------------------------
LEMMA RemoveBooks ==
  ASSUME Books, Files', NEW o \in Objs, Remove(o)
  PROVE  Books'
  <1>0. PluginsTypeOK
    BY DEF Books, Files
  <1>1. /\ UNCHANGED <<pkg, pdur, disk, ddur, mem, loose, lost>> /\ op.pc = "idle" /\ Removable(o)
        /\ op'.pc = "off" /\ op'.kind = "removal" /\ op'.o = o /\ op'.cand = mem
    BY <1>0, RemoveStep
  <1>2. mem.own = "ok" /\ mem.idx[o] = "managed"
    BY <1>1 DEF Removable, Proves
  <1>3. Real(mem.idx) /\ (~lost => Follows(mem.idx))
    BY <1>1, <1>2 DEF Books, Entered, IndexFollows, Scanning
  <1>4. Promoted(o)
    BY <1>2, <1>3 DEF Real
  <1>5. ScanHolds' /\ ToSettle' /\ Frozen'
    BY <1>1, <1>2 DEF ScanHolds, ToSettle, Frozen, Scanning
  <1>6. IndexFollows'
    BY <1>1, <1>3 DEF IndexFollows, Follows
  <1> QED BY <1>1, <1>3, <1>4, <1>5, <1>6, QuietBooks

\* While a removal is under way: its candidate, the package's entry.
LEMMA RemovalBooks ==
  ASSUME Books, op.kind = "removal"
  PROVE  /\ op.o \in Objs /\ Promoted(op.o) /\ op.cand.own = "ok" /\ Real(op.cand.idx) /\ Real(mem.idx)
         /\ ~lost => Follows(op.cand.idx) /\ (mem.own = "ok" => Follows(mem.idx))
         /\ op.cand \in Registries /\ op.base \in Registries /\ mem \in Registries /\ op.cand.idx \in Index
  <1>0. PluginsTypeOK
    BY DEF Books, Files
  <1>1. op.pc \in {"off", "mark", "rename", "look", "delete", "forget", "rollback"}
    BY <1>0 DEF PluginsTypeOK
  <1>2. op.o \in Objs /\ op.cand \in Registries /\ op.base \in Registries /\ mem \in Registries /\ op.cand.idx \in Index
    BY <1>0, <1>1 DEF PluginsTypeOK, Ops, Registries
  <1> QED BY <1>1, <1>2 DEF Books, Entered, Frozen, IndexFollows, Scanning

\* The end of a removal, whatever memory makes of the candidate c.
LEMMA RemovalEnds ==
  ASSUME Books, Files', UNCHANGED <<pkg, pdur, lost>>, op' = NoOp, Accounted',
         \A x \in DiskIndices' : \A o \in Objs : x[o] # "none" => Promoted(o)',
         disk'.idx.bad \/ ddur'.idx.bad => lost',
         NEW c \in Registries, mem'.idx = c.idx, Real(c.idx),
         ~lost => \A o \in Objs : c.idx[o] \in {disk'.idx.cur[o], "removing"}
  PROVE  Books'
  <1>1. \A o \in Objs : mem'.idx[o] # "none" => Promoted(o)'
    BY DEF Real, Promoted
  <1>2. ~lost' /\ mem'.own = "ok" => \A o \in Objs : mem'.idx[o] \in {disk'.idx.cur[o], "removing"}
    OBVIOUS
  <1> QED BY <1>1, <1>2, EndBooks

LEMMA PublishedIndex ==
  ASSUME NEW base \in Registries, NEW c \in Registries, NEW s \in Photos
  PROVE  PublishOnce(base, Reconciled(c, s)).idx = c.idx
  <1> DEFINE r == Reconciled(c, s)
  <1>1. r \in Registries /\ r.idx = c.idx
    BY ReconciledFields
  <1> HIDE DEF r
  <1>2. PublishOnce(base, r).idx = c.idx
    BY <1>1, PublishOnceFields
  <1> QED BY <1>2 DEF r

LEMMA SaveDisabledBooks ==
  ASSUME Books, Files', SaveDisabled
  PROVE  Books'
  <1>0. PluginsTypeOK
    BY DEF Books, Files
  <1>1. UNCHANGED <<pkg, pdur, loose, lost>> /\ op.pc = "off" /\ op.kind = "removal"
    BY <1>0, SaveDisabledStep
  <1>2. PICK out \in Outcomes, st \in Decisions, c \in Registries :
          /\ Save("st", st, out) /\ c.idx = op.cand.idx /\ c.own = op.cand.own
          /\ \/ op' = NoOp /\ mem' = AdoptRemoval(mem, c)
             \/ op' = NoOp /\ mem' = PublishOnce(op.base, Reconciled(c, op.base.scan))
             \/ /\ op'.pc = "mark" /\ op'.kind = op.kind /\ op'.o = op.o
                /\ op'.cand = c /\ mem' = AdoptRemoval(mem, c)
    BY <1>0, SaveDisabledStep DEF Shown
  <1>3. /\ op.o \in Objs /\ Promoted(op.o) /\ op.cand.own = "ok" /\ Real(op.cand.idx)
        /\ ~lost => Follows(op.cand.idx)
        /\ op.base \in Registries /\ mem \in Registries
    BY <1>1, RemovalBooks
  <1>4. op.base.scan \in Photos
    BY <1>3 DEF Registries
  <1>5. mem'.idx = c.idx
    BY <1>2, <1>3, <1>4, AdoptRemovalFields, PublishedIndex
  <1>6. /\ Accounted' /\ (\A x \in DiskIndices' : \A o \in Objs : x[o] # "none" => Promoted(o)')
        /\ (disk'.idx.bad \/ ddur'.idx.bad => lost')
        /\ disk'.idx = disk.idx
    BY <1>1, <1>2, SavingState
  <1>7. Real(c.idx) /\ (~lost => \A o \in Objs : c.idx[o] \in {disk'.idx.cur[o], "removing"})
    BY <1>2, <1>3, <1>6 DEF Follows
  <1>8. CASE op' = NoOp
    BY <1>1, <1>5, <1>6, <1>7, <1>8, RemovalEnds
  <1>9. CASE op'.pc = "mark" /\ op'.kind = op.kind /\ op'.o = op.o /\ op'.cand = c
    <2>1. Entered'
      BY <1>1, <1>3, <1>5, <1>6, <1>7, <1>9 DEF Entered, Real, Promoted
    <2>2. Suspect' /\ ScanHolds' /\ ToSettle' /\ Frozen'
      BY <1>1, <1>2, <1>3, <1>6, <1>9 DEF Suspect, ScanHolds, ToSettle, Frozen, Scanning
    <2>3. IndexFollows'
      BY <1>1, <1>5, <1>7, <1>9 DEF IndexFollows, Follows
    <2> QED BY <1>6, <2>1, <2>2, <2>3 DEF Books
  <1> QED BY <1>2, <1>8, <1>9

\* A save of the index in which only the entry of the package at hand changes.
LEMMA SavingEntry ==
  ASSUME Books, op.kind = "removal", NEW m \in {"none", "managed", "removing"}, NEW out \in Outcomes, NEW c,
         Entry(m) \in Index, Save("idx", Entry(m), out), Kept(c, out, m), UNCHANGED <<pkg, pdur, lost>>,
         loose \subseteq loose',
         out # "failed" /\ Quarantined(op.o) /\ op.o \notin loose' => m = "removing"
  PROVE  /\ Accounted' /\ (\A x \in DiskIndices' : \A o \in Objs : x[o] # "none" => Promoted(o)')
         /\ disk'.idx.bad \/ ddur'.idx.bad => lost'
         /\ Real(c.idx) /\ c.own = "ok"
         /\ ~lost => \A o \in Objs : c.idx[o] \in {disk'.idx.cur[o], "removing"}
  <1>1. /\ op.o \in Objs /\ Promoted(op.o) /\ op.cand.own = "ok" /\ Real(op.cand.idx) /\ op.cand.idx \in Index
        /\ ~lost => Follows(op.cand.idx)
    BY RemovalBooks
  <1> DEFINE v == Entry(m)
  <1>2. v[op.o] = m /\ \A q \in Objs \ {op.o} : v[q] = op.cand.idx[q]
    BY <1>1 DEF Entry, Index
  <1>3. (out = "failed" => c = op.cand) /\ (out # "failed" => c.idx = v) /\ c.own = op.cand.own
    BY DEF Kept
  <1>4. v \in Index /\ Save("idx", v, out)
    OBVIOUS
  <1> HIDE DEF v
  <1>5. Real(v)
    BY <1>1, <1>2 DEF Real
  <1>6. \A o \in Objs : /\ Quarantined(o) /\ out # "failed" /\ o \notin loose' /\ ~lost /\ disk.idx.cur[o] = "removing"
                        => v[o] = "removing"
    BY <1>1, <1>2 DEF Follows
  <1>7. /\ Accounted' /\ (\A x \in DiskIndices' : \A o \in Objs : x[o] # "none" => Promoted(o)')
        /\ (disk'.idx.bad \/ ddur'.idx.bad => lost')
        /\ (out = "failed" => disk' = disk) /\ (out # "failed" => disk'.idx.cur = v)
    BY <1>4, <1>5, <1>6, SavingIndex
  <1>8. ~lost => \A o \in Objs : c.idx[o] \in {disk'.idx.cur[o], "removing"}
    BY <1>1, <1>3, <1>7 DEF Follows
  <1> QED BY <1>1, <1>3, <1>5, <1>7, <1>8

LEMMA MarkRemovingBooks ==
  ASSUME Books, Files', MarkRemoving
  PROVE  Books'
  <1>0. PluginsTypeOK
    BY DEF Books, Files
  <1>1. /\ UNCHANGED <<pkg, pdur, loose, lost>> /\ op.kind = "removal"
        /\ op'.kind = op.kind /\ op'.o = op.o /\ Entry("removing") \in Index
    BY <1>0, MarkRemovingStep
  <1>2. PICK out \in Outcomes, c \in Registries :
          /\ Save("idx", Entry("removing"), out) /\ Kept(c, out, "removing")
          /\ mem' = AdoptRemoval(mem, c) /\ op'.cand = c
          /\ op'.pc \in {"rename", "rollback"}
    BY <1>0, MarkRemovingStep
  <1>3. op.o \in Objs /\ Promoted(op.o) /\ mem \in Registries
    BY <1>1, RemovalBooks
  <1>4. /\ Accounted' /\ (\A x \in DiskIndices' : \A o \in Objs : x[o] # "none" => Promoted(o)')
        /\ (disk'.idx.bad \/ ddur'.idx.bad => lost')
        /\ Real(c.idx) /\ c.own = "ok"
        /\ (~lost => \A o \in Objs : c.idx[o] \in {disk'.idx.cur[o], "removing"})
    BY <1>1, <1>2, SavingEntry
  <1>5. mem'.idx = c.idx
    BY <1>2, <1>3, AdoptRemovalFields
  <1>6. Entered'
    BY <1>1, <1>2, <1>3, <1>4, <1>5 DEF Entered, Real, Promoted
  <1>7. Suspect' /\ ScanHolds' /\ ToSettle' /\ Frozen'
    BY <1>1, <1>2, <1>4 DEF Suspect, ScanHolds, ToSettle, Frozen, Scanning
  <1>8. IndexFollows'
    BY <1>1, <1>2, <1>4, <1>5 DEF IndexFollows, Follows
  <1> QED BY <1>4, <1>6, <1>7, <1>8 DEF Books

LEMMA QuarantineBooks ==
  ASSUME Books, Files', [PluginsNext]_pluginVars, Quarantine
  PROVE  Books'
  <1>0. PluginsTypeOK /\ Files
    BY DEF Books, Files
  <1>1. /\ UNCHANGED <<disk, ddur, mem, loose, lost>>
        /\ op.pc = "rename" /\ op.o \in Objs /\ op.kind = "removal" /\ SameOp(op', op) /\ op'.pc \in {"rollback", "look"}
        /\ \A q \in Objs \ {op.o} : pkg'[q] = pkg[q] /\ pdur'[q] = pdur[q]
    BY <1>0, QuarantineStep
  <1>2. disk.idx.cur[op.o] = "removing" /\ ddur.idx.cur[op.o] = "removing"
    BY <1>0, <1>1 DEF Files, OnlyOwn
  <1>3. \A o \in Objs : Promoted(o) => Promoted(o)'
    BY <1>0, PromotedStays
  <1>4. \A o \in Objs : /\ Quarantined(o)' /\ ~Quarantined(o)
                        => disk.idx.cur[o] = "removing" /\ ddur.idx.cur[o] = "removing"
    BY <1>1, <1>2 DEF Quarantined
  <1> QED BY <1>1, <1>3, <1>4, MovedBooks DEF SameOp, Acting

LEMMA LookBooks ==
  ASSUME Books, Files', [PluginsNext]_pluginVars, Look
  PROVE  Books'
  <1>0. PluginsTypeOK /\ Files
    BY DEF Books, Files
  <1>1. /\ UNCHANGED <<pkg, pdur, disk, ddur, mem, loose, lost>>
        /\ op.pc = "look" /\ op'.kind = op.kind /\ op'.o = op.o /\ op'.cand = op.cand
        /\ op'.pc \in {"delete", "forget"}
    BY <1>0, LookStep
  <1>2. \A o \in Objs : Promoted(o) => Promoted(o)'
    BY <1>0, PromotedStays
  <1>3. \A o \in Objs : ~(Quarantined(o)' /\ ~Quarantined(o))
    BY <1>1 DEF Quarantined
  <1> QED BY <1>1, <1>2, <1>3, MovedBooks DEF Acting

LEMMA DeleteBooks ==
  ASSUME Books, Files', [PluginsNext]_pluginVars, Delete
  PROVE  Books'
  <1>0. PluginsTypeOK /\ Files
    BY DEF Books, Files
  <1>1. /\ UNCHANGED <<disk, ddur, mem, loose, lost>>
        /\ op.pc = "delete" /\ op.o \in Objs /\ op'.kind = op.kind /\ op'.o = op.o /\ op'.cand = op.cand
        /\ op'.pc \in {"delete", "forget"}
        /\ \A q \in Objs \ {op.o} : pkg'[q] = pkg[q] /\ pdur'[q] = pdur[q]
    BY <1>0, DeleteStep
  <1>2. disk.idx.cur[op.o] = "removing" /\ ddur.idx.cur[op.o] = "removing"
    BY <1>0, <1>1 DEF Files, OnlyOwn
  <1>3. \A o \in Objs : Promoted(o) => Promoted(o)'
    BY <1>0, PromotedStays
  <1>4. \A o \in Objs : /\ Quarantined(o)' /\ ~Quarantined(o)
                        => disk.idx.cur[o] = "removing" /\ ddur.idx.cur[o] = "removing"
    BY <1>1, <1>2 DEF Quarantined
  <1> QED BY <1>1, <1>3, <1>4, MovedBooks DEF Acting

LEMMA ForgetBooks ==
  ASSUME Books, Files', Forget
  PROVE  Books'
  <1>0. PluginsTypeOK
    BY DEF Books, Files
  <1>1. /\ UNCHANGED <<pkg, pdur, lost>> /\ op.pc = "forget" /\ op.kind = "removal"
        /\ op' = NoOp /\ Observed \in Photos
    BY <1>0, ForgetStep
  <1>2. \/ /\ Clean /\ Entry("none") \in Index
           /\ \E out \in Outcomes, c \in Registries :
                /\ Save("idx", Entry("none"), out) /\ Kept(c, out, "none") /\ Concluded(c)
                /\ loose' = Loosened(op.o, out # "failed")
        \/ Concluded(op.cand) /\ UNCHANGED <<disk, ddur, loose>>
    BY <1>0, ForgetStep
  <1>3. /\ op.o \in Objs /\ op.cand \in Registries /\ op.base \in Registries /\ mem \in Registries
        /\ Real(op.cand.idx) /\ (~lost => Follows(op.cand.idx))
    BY <1>1, RemovalBooks
  <1>4. \A c \in Registries : Concluded(c) => mem'.idx = c.idx
    BY <1>1, <1>3, AdoptRemovalFields, PublishedIndex DEF Concluded, Shown
  <1>5. CASE Concluded(op.cand) /\ UNCHANGED <<disk, ddur, loose>>
    <2>1. /\ Accounted' /\ (\A x \in DiskIndices' : \A o \in Objs : x[o] # "none" => Promoted(o)')
          /\ (disk'.idx.bad \/ ddur'.idx.bad => lost')
      BY <1>1, <1>5 DEF Books, Accounted, Quarantined, Entered, Real, Promoted, DiskIndices, Suspect
    <2>2. ~lost => \A o \in Objs : op.cand.idx[o] \in {disk'.idx.cur[o], "removing"}
      BY <1>3, <1>5 DEF Follows
    <2> QED BY <1>1, <1>3, <1>4, <1>5, <2>1, <2>2, RemovalEnds
  <1>6. ASSUME Clean, Entry("none") \in Index, NEW out \in Outcomes, NEW c \in Registries,
               Save("idx", Entry("none"), out), Kept(c, out, "none"), Concluded(c),
               loose' = Loosened(op.o, out # "failed")
        PROVE  Books'
    <2>1. pkg[op.o].at = "gone"
      BY <1>1, <1>6 DEF Books, Files, Underway, Clean
    <2>2. loose \subseteq loose' /\ (out # "failed" /\ pdur[op.o].at = "quar" => op.o \in loose')
      BY <1>6 DEF Loosened
    <2>3. out # "failed" /\ Quarantined(op.o) => op.o \in loose'
      BY <2>1, <2>2 DEF Quarantined
    <2>4. /\ Accounted' /\ (\A x \in DiskIndices' : \A o \in Objs : x[o] # "none" => Promoted(o)')
          /\ (disk'.idx.bad \/ ddur'.idx.bad => lost')
          /\ Real(c.idx) /\ (~lost => \A o \in Objs : c.idx[o] \in {disk'.idx.cur[o], "removing"})
      BY <1>1, <1>6, <2>2, <2>3, SavingEntry
    <2> QED BY <1>1, <1>4, <1>6, <2>4, RemovalEnds
  <1> QED BY <1>2, <1>5, <1>6

LEMMA RollbackBooks ==
  ASSUME Books, Files', Rollback
  PROVE  Books'
  <1>0. PluginsTypeOK
    BY DEF Books, Files
  <1>1. /\ UNCHANGED <<pkg, pdur, loose, lost>> /\ op.pc = "rollback" /\ op.kind = "removal"
        /\ op' = NoOp /\ Entry("managed") \in Index
    BY <1>0, RollbackStep
  <1>2. PICK out \in Outcomes, c \in Registries :
              /\ Save("idx", Entry("managed"), out) /\ Kept(c, out, "managed")
              /\ mem' = PublishOnce(op.base, Reconciled(c, op.base.scan))
    BY <1>0, RollbackStep DEF Shown
  <1>3. op.base \in Registries /\ op.base.scan \in Photos
    BY <1>1, RemovalBooks DEF Registries
  <1>4. mem'.idx = c.idx
    BY <1>2, <1>3, PublishedIndex
  <1>5. ~Quarantined(op.o)
    BY <1>1 DEF Books, Files, Underway, Quarantined
  <1>6. /\ Accounted' /\ (\A x \in DiskIndices' : \A o \in Objs : x[o] # "none" => Promoted(o)')
        /\ (disk'.idx.bad \/ ddur'.idx.bad => lost')
        /\ Real(c.idx) /\ (~lost => \A o \in Objs : c.idx[o] \in {disk'.idx.cur[o], "removing"})
    BY <1>1, <1>2, <1>5, SavingEntry
  <1> QED BY <1>1, <1>4, <1>6, RemovalEnds
-----------------------------------------------------------------------------
LEMMA TamperBooks ==
  ASSUME Books, Files', [PluginsNext]_pluginVars, Tamper
  PROVE  Books'
  <1>0. PluginsTypeOK /\ Files
    BY DEF Books, Files
  <1>1. UNCHANGED <<disk, ddur, mem, op, loose, lost>>
    BY <1>0, TamperStep
  <1>2. PICK o \in Objs :
              /\ \A q \in Objs \ {o} : pkg'[q] = pkg[q] /\ pdur'[q] = pdur[q]
              /\ pdur'[o] = pkg'[o]
              /\ \/ pkg[o].at = "new" /\ o # op.o /\ pkg'[o].at = "local"
                 \/ pkg[o].at \in {"local", "quar", "stage"} /\ pkg'[o].at = pkg[o].at
                 \/ pkg[o].at \in {"local", "quar"} /\ pkg'[o].at = "gone"
    BY <1>0, TamperStep
  <1>3. \A q \in Objs : Promoted(q) => Promoted(q)'
    BY <1>0, PromotedStays
  <1>4. op.kind = "removal" => op.o \in Objs
    BY <1>0 DEF PluginsTypeOK
  <1>5. Entered'
    BY <1>1, <1>3, <1>4 DEF Books, Entered, Real, DiskIndices
  <1>6. Suspect' /\ ToSettle'
    BY <1>1 DEF Books, Suspect, ToSettle
  <1>7. IndexFollows' /\ Frozen'
    BY <1>1 DEF Books, IndexFollows, Frozen, Scanning, Follows
  <1>8. \A q \in Objs : Quarantined(q)' => Quarantined(q)
    BY <1>2 DEF Quarantined
  <1>9. Accounted'
    BY <1>1, <1>8 DEF Books, Accounted
  <1>10. ScanHolds'
    BY <1>1, <1>2 DEF Books, ScanHolds
  <1> QED BY <1>5, <1>6, <1>7, <1>9, <1>10 DEF Books

LEMMA DamageBooks ==
  ASSUME Books, Files', Damage
  PROVE  Books'
  <1>0. PluginsTypeOK
    BY DEF Books, Files
  <1>1. /\ UNCHANGED <<pkg, pdur, mem, op, loose>>
        /\ disk'.idx.cur = disk.idx.cur /\ ddur'.idx.cur = ddur.idx.cur
        /\ disk'.idx.bak = disk.idx.bak /\ ddur'.idx.bak = ddur.idx.bak
        /\ lost' \/ (lost' = lost /\ disk'.idx = disk.idx /\ ddur'.idx = ddur.idx)
    BY <1>0, DamageStep
  <1>2. Entered'
    BY <1>1 DEF Books, Entered, Real, Promoted, DiskIndices
  <1>3. Suspect'
    BY <1>1 DEF Books, Suspect
  <1>4. Accounted'
    BY <1>1 DEF Books, Accounted, Quarantined
  <1>5. ScanHolds' /\ ToSettle' /\ Frozen'
    BY <1>1 DEF Books, ScanHolds, ToSettle, Frozen, Scanning
  <1>6. IndexFollows'
    BY <1>1 DEF Books, IndexFollows, Scanning, Follows
  <1> QED BY <1>2, <1>3, <1>4, <1>5, <1>6 DEF Books

\* The process starts anew from documents it had.
LEMMA StartedBooks ==
  ASSUME Books, Files', op' = NoOp, Started, \A o \in Objs : Promoted(o) => Promoted(o)', UNCHANGED <<loose, lost>>,
         disk'.idx \in {disk.idx, ddur.idx}, ddur'.idx \in {disk.idx, ddur.idx},
         \A o \in Objs : Quarantined(o)' => Quarantined(o)
  PROVE  Books'
  <1>1. PICK x \in Indexed, t \in Stated :
          /\ \/ x.own = "ok" /\ ~disk'.idx.bad /\ x.idx = disk'.idx.cur
             \/ x.own = "rewrite" /\ disk'.idx.bad /\ x.idx \in disk'.idx.bak
             \/ x.own = "down" /\ x.idx = NoEntries
          /\ mem' = Booted(x, t)
    BY DEF Started
  <1>2. mem'.idx = x.idx /\ mem'.own = x.own
    BY <1>1, BootedFields
  <1>3. DiskIndices' \subseteq DiskIndices
    BY DEF DiskIndices
  <1>4. \A y \in DiskIndices' : \A o \in Objs : y[o] # "none" => Promoted(o)'
    BY <1>3 DEF Books, Entered, Real
  <1>5. x.idx \in DiskIndices' \cup {NoEntries}
    BY <1>1 DEF DiskIndices
  <1>6. \A o \in Objs : mem'.idx[o] # "none" => Promoted(o)'
    BY <1>2, <1>4, <1>5, NothingEntered
  <1>7. Accounted' /\ (disk'.idx.bad \/ ddur'.idx.bad => lost')
    BY DEF Books, Accounted, Suspect
  <1>8. mem'.own = "ok" => \A o \in Objs : mem'.idx[o] \in {disk'.idx.cur[o], "removing"}
    BY <1>1, <1>2
  <1> QED BY <1>4, <1>6, <1>7, <1>8, EndBooks

LEMMA RestartBooks ==
  ASSUME Books, Files', Restart
  PROVE  Books'
  <1>0. PluginsTypeOK
    BY DEF Books, Files
  <1>1. UNCHANGED <<pkg, pdur, disk, ddur, loose, lost>> /\ Started /\ op' = NoOp
    BY <1>0, RestartStep
  <1>2. \A o \in Objs : (Promoted(o) => Promoted(o)') /\ (Quarantined(o)' => Quarantined(o))
    BY <1>1 DEF Promoted, Quarantined
  <1> QED BY <1>1, <1>2, StartedBooks

LEMMA PowerLossBooks ==
  ASSUME Books, Files', [PluginsNext]_pluginVars, PowerLoss
  PROVE  Books'
  <1>0. PluginsTypeOK /\ Files
    BY DEF Books, Files
  <1>1. /\ UNCHANGED <<loose, lost>>
        /\ \A o \in Objs : pkg'[o] \in {pkg[o], pdur[o]} /\ pdur'[o] = pkg'[o]
        /\ disk'.idx \in {disk.idx, ddur.idx} /\ ddur' = disk'
        /\ Started /\ op' = NoOp
    BY <1>0, PowerLossStep
  <1>2. \A o \in Objs : Promoted(o) => Promoted(o)'
    BY <1>0, PromotedStays
  <1>3. \A o \in Objs : Quarantined(o)' => Quarantined(o)
    BY <1>1 DEF Quarantined
  <1> QED BY <1>1, <1>2, <1>3, StartedBooks

LEMMA BooksInit == PluginsInit => Books
  <1> SUFFICES ASSUME PluginsInit PROVE Books
    OBVIOUS
  <1>1. Files /\ PluginsTypeOK
    BY FilesInit DEF Files
  <1>2. /\ pkg = [o \in Objs |-> [Nothing EXCEPT !.at = "new"]] /\ pdur = pkg
        /\ disk = [idx |-> Empty(NoEntries), st |-> Empty(NoState)] /\ ddur = disk
        /\ op = NoOp /\ loose = {} /\ lost = FALSE
        /\ mem = Booted(LoadIndex(disk.idx), LoadState(disk.st))
    BY DEF PluginsInit
  <1>3. \A o \in Objs : pkg[o].at = "new" /\ pdur[o].at = "new"
    BY <1>2 DEF Nothing
  <1>4. disk.idx = Empty(NoEntries) /\ ddur.idx = Empty(NoEntries) /\ disk.idx \in Docs(Index) /\ disk.st \in Docs(Decisions)
    BY <1>1, <1>2 DEF PluginsTypeOK, Disks
  <1>5. disk.idx.cur = NoEntries /\ disk.idx.bak = {} /\ ~disk.idx.bad /\ ddur.idx.cur = NoEntries /\ ddur.idx.bak = {}
        /\ ~ddur.idx.bad
    BY <1>4 DEF Empty
  <1>6. LoadIndex(disk.idx).idx = NoEntries
    BY <1>5 DEF LoadIndex, Loadable, Version
  <1>7. mem.idx = NoEntries
    BY <1>2, <1>4, <1>6, LoadIndexFields, LoadStateFields, BootedFields
  <1>8. op.pc = "idle" /\ op.kind = "none" /\ op.cand.idx = NoEntries
    BY <1>2, NoOpFields
  <1>9. Entered
    BY <1>5, <1>7, <1>8, NothingEntered DEF Entered, DiskIndices
  <1>10. Suspect /\ ScanHolds /\ ToSettle /\ Frozen
    BY <1>5, <1>8 DEF Suspect, ScanHolds, ToSettle, Frozen, Scanning
  <1>11. Accounted
    BY <1>3 DEF Accounted, Quarantined
  <1>12. IndexFollows
    BY <1>5, <1>7, <1>8 DEF IndexFollows, Follows
  <1> QED BY <1>1, <1>9, <1>10, <1>11, <1>12 DEF Books

LEMMA BooksNext == Books /\ [PluginsNext]_pluginVars => Books'
  <1> SUFFICES ASSUME Books, [PluginsNext]_pluginVars PROVE Books'
    OBVIOUS
  <1>0. Files'
    BY FilesNext DEF Books
  <1>1. CASE Reload
    <2>1. op.pc = "idle" /\ Scanned("reload", 0) /\ UNCHANGED <<disks, mem, told, shown>>
      BY <1>1 DEF Reload
    <2> QED BY <1>0, <2>1, ScannedBooks
  <1>2. ASSUME NEW o \in Objs, Import(o) PROVE Books'
    <2>1. op.pc = "idle" /\ Scanned("import", o) /\ UNCHANGED <<disks, mem, told, shown>>
      BY <1>2 DEF Import
    <2> QED BY <1>0, <2>1, ScannedBooks
  <1>3. CASE LoadOwnership \/ RewriteOwnership \/ Converge
    BY <1>0, <1>3, LoadOwnershipBooks, RewriteOwnershipBooks, ConvergeBooks
  <1>4. CASE Reloaded \/ RetryState \/ Prescanned \/ Imported
    BY <1>0, <1>4, ReloadedBooks, RetryStateBooks, PrescannedBooks, ImportedBooks
  <1>5. ASSUME NEW i \in Ids, NEW on \in BOOLEAN, SetEnabled(i, on) PROVE Books'
    BY <1>0, <1>5, SetEnabledBooks
  <1>6. CASE Stage \/ Disable \/ Promote \/ Register \/ Postscan
    BY <1>0, <1>6, StageBooks, DisableBooks, PromoteBooks, RegisterBooks, PostscanBooks
  <1>7. ASSUME NEW o \in Objs, Remove(o) PROVE Books'
    BY <1>0, <1>7, RemoveBooks
  <1>8. CASE SaveDisabled \/ MarkRemoving \/ Forget \/ Rollback
    BY <1>0, <1>8, SaveDisabledBooks, MarkRemovingBooks, ForgetBooks, RollbackBooks
  <1>9. CASE Quarantine \/ Look \/ Delete
    BY <1>0, <1>9, QuarantineBooks, LookBooks, DeleteBooks
  <1>10. CASE Tamper \/ Damage \/ Restart \/ PowerLoss
    BY <1>0, <1>10, TamperBooks, DamageBooks, RestartBooks, PowerLossBooks
  <1>11. CASE UNCHANGED pluginVars
    <2>1. UNCHANGED <<pkg, pdur, disk, ddur, mem, op, loose, lost>>
      BY <1>11 DEF pluginVars, disks, told
    <2>2. Entered' /\ Suspect' /\ Accounted'
      BY <2>1 DEF Books, Entered, Suspect, Accounted, Quarantined, Real, Promoted, DiskIndices
    <2>3. ScanHolds' /\ ToSettle' /\ IndexFollows' /\ Frozen'
      BY <2>1 DEF Books, ScanHolds, ToSettle, IndexFollows, Frozen, Scanning, Follows
    <2> QED BY <1>0, <2>2, <2>3 DEF Books
  <1> QED BY <1>1, <1>2, <1>3, <1>4, <1>5, <1>6, <1>7, <1>8, <1>9, <1>10, <1>11 DEF PluginsNext
-----------------------------------------------------------------------------
\* The state document: what is enabled was enabled by a decision since the last import
\* of that id, and memory's decisions are the saved ones.
Consented(st) == \A i \in Ids : st[i].on => consent[i] \/ undone
Sound(r) == Consented(r.st) /\ (~disk.st.bad /\ r.sto = "ok" => r.st = disk.st.cur)
SwitchedOffFirst ==
    op.pc = "promote" =>
      /\ ~op.cand.st[IdOf[op.o]].on /\ ~mem.st[IdOf[op.o]].on
      /\ ~disk.st.bad => ~disk.st.cur[IdOf[op.o]].on
Choices ==
    /\ Books
    /\ ~disk.st.bad => Consented(disk.st.cur)
    /\ Sound(mem) /\ (op.pc # "idle" => Sound(op.cand))
    /\ SwitchedOffFirst

LEMMA SoundSame ==
  ASSUME NEW r, NEW q, Sound(q), r.st = q.st, r.sto = q.sto
  PROVE  Sound(r)
  BY DEF Sound, Consented

LEMMA ChoicesKept ==
  ASSUME Choices, Books', UNCHANGED <<consent, undone>>, disk'.st = disk.st, Sound(mem'),
         op'.pc # "idle" => Sound(op'.cand), op'.pc # "promote"
  PROVE  Choices'
  BY DEF Choices, Sound, Consented, SwitchedOffFirst

LEMMA StateOff ==
  ASSUME NEW st, \A i \in Ids : ~st[i].on
  PROVE  Consented(st)
  BY DEF Consented

LEMMA NoStateOff == \A i \in Ids : ~NoState[i].on
  BY DEF NoState

LEMMA LoadedSound ==
  ASSUME Choices, NEW t \in Stated, t \in {LoadState(disk.st), [st |-> NoState, sto |-> "down"]}
  PROVE  Sound(t)
  <1>0. PluginsTypeOK
    BY DEF Choices, Books, Files
  <1>1. disk.st \in Docs(Decisions)
    BY <1>0 DEF PluginsTypeOK, Disks
  <1>2. CASE t = LoadState(disk.st)
    <2> DEFINE l == LoadState(disk.st)
    <2>1. /\ l.sto = "ok" => ~disk.st.bad /\ l.st = disk.st.cur
          /\ disk.st.bad => \A i \in Ids : ~l.st[i].on
      BY <1>1, LoadStateFields
    <2>2. ~disk.st.bad => l.st = disk.st.cur
      BY DEF LoadState, Loadable
    <2> HIDE DEF l
    <2>3. Consented(l.st)
      BY <2>1, <2>2, StateOff DEF Choices
    <2> QED BY <1>2, <2>1, <2>3 DEF Sound, l
  <1>3. CASE t = [st |-> NoState, sto |-> "down"]
    BY <1>3, NoStateOff, StateOff DEF Sound
  <1> QED BY <1>2, <1>3

LEMMA ReadSound ==
  ASSUME Choices, NEW t \in Stated, Read(t), op.pc # "idle"
  PROVE  Sound(t)
  <1>1. CASE op.cand.sto = "down"
    BY <1>1, LoadedSound DEF Read
  <1>2. CASE op.cand.sto # "down"
    BY <1>2, SoundSame DEF Read, Choices
  <1> QED BY <1>1, <1>2

LEMMA AppliedSound ==
  ASSUME Choices, NEW t \in Stated, Read(t), op.pc # "idle"
  PROVE  Applied(t) \in Registries /\ Sound(Applied(t)) /\ Sound(Renumbered(mem, Applied(t)))
  <1>0. PluginsTypeOK /\ mem \in Registries
    BY DEF Choices, Books, Files, PluginsTypeOK
  <1>1. Sound(t)
    BY ReadSound
  <1> DEFINE f == Applied(t)
  <1>2. f \in Registries /\ f.st = t.st /\ f.sto = t.sto
    BY <1>0, AppliedFields
  <1> HIDE DEF f
  <1> DEFINE g == Renumbered(mem, f)
  <1>3. g.st = f.st /\ g.sto = f.sto
    BY <1>0, <1>2, RenumberedFields
  <1> HIDE DEF g
  <1>4. Sound(f) /\ Sound(g)
    BY <1>1, <1>2, <1>3, SoundSame
  <1> QED BY <1>2, <1>4 DEF f, g

LEMMA AdoptedSound ==
  ASSUME NEW r \in Registries, NEW c \in Registries
  PROVE  /\ AdoptImport(r, c).st = c.st /\ AdoptImport(r, c).sto = c.sto
         /\ AdoptRemoval(r, c).st = c.st /\ AdoptRemoval(r, c).sto = c.sto
  BY AdoptImportFields, AdoptRemovalFields

LEMMA PublishedState ==
  ASSUME NEW base \in Registries, NEW c \in Registries, NEW s \in Photos
  PROVE  PublishOnce(base, Reconciled(c, s)).st = c.st /\ PublishOnce(base, Reconciled(c, s)).sto = c.sto
  <1> DEFINE r == Reconciled(c, s)
  <1>1. r \in Registries /\ r.st = c.st /\ r.sto = c.sto
    BY ReconciledFields
  <1> HIDE DEF r
  <1>2. PublishOnce(base, r).st = c.st /\ PublishOnce(base, r).sto = c.sto
    BY <1>1, PublishOnceFields
  <1> QED BY <1>2 DEF r

\* Steps that leave the state document and memory's decisions alone.
LEMMA QuietChoices ==
  ASSUME Choices, Books', UNCHANGED <<consent, undone, mem>>, disk'.st = disk.st,
         op'.pc # "idle" => op.pc # "idle" /\ op'.cand.st = op.cand.st /\ op'.cand.sto = op.cand.sto, op'.pc # "promote"
  PROVE  Choices'
  <1>1. Sound(mem') /\ (op'.pc # "idle" => Sound(op'.cand))
    BY SoundSame DEF Choices
  <1> QED BY <1>1, ChoicesKept

LEMMA ScanChoices ==
  ASSUME Choices, Books', \/ Reload \/ LoadOwnership \/ RewriteOwnership \/ Converge \/ Postscan
                          \/ \E o \in Objs : Import(o) \/ Remove(o)
  PROVE  Choices'
  <1>0. PluginsTypeOK
    BY DEF Choices, Books, Files
  <1>1. CASE Reload
    <2>1. Scanned("reload", 0) /\ UNCHANGED <<disks, mem, told, shown>>
      BY <1>1 DEF Reload
    <2>2. UNCHANGED <<consent, undone, mem, disk>> /\ op'.pc = "load" /\ op'.cand = mem
      BY <1>0, <2>1, ScannedStep
    <2> QED BY <2>2, ChoicesKept DEF Choices
  <1>2. ASSUME NEW o \in Objs, Import(o) PROVE Choices'
    <2>1. Scanned("import", o) /\ UNCHANGED <<disks, mem, told, shown>>
      BY <1>2 DEF Import
    <2>2. UNCHANGED <<consent, undone, mem, disk>> /\ op'.pc = "load" /\ op'.cand = mem
      BY <1>0, <2>1, ScannedStep
    <2> QED BY <2>2, ChoicesKept DEF Choices
  <1>3. ASSUME NEW o \in Objs, Remove(o) PROVE Choices'
    <2>1. UNCHANGED <<consent, undone, mem, disk>> /\ op'.pc = "off" /\ op'.cand = mem
      BY <1>0, <1>3, RemoveStep
    <2> QED BY <2>1, ChoicesKept DEF Choices
  <1>4. CASE LoadOwnership
    <2>1. /\ UNCHANGED <<consent, undone, mem, disk>> /\ op.pc = "load" /\ SameRest(op'.cand, op.cand)
          /\ op'.pc \in {"rewrite", "converge", "apply"}
      BY <1>0, <1>4, LoadOwnershipStep
    <2> QED BY <2>1, QuietChoices DEF SameRest
  <1>5. CASE RewriteOwnership
    <2>1. /\ UNCHANGED <<consent, undone, mem>> /\ op.pc = "rewrite" /\ SameRest(op'.cand, op.cand)
          /\ op'.pc \in {"converge", "apply"} /\ op.cand.idx \in Index
      BY <1>0, <1>5, RewriteOwnershipStep
    <2>2. PICK out \in Outcomes : Save("idx", op.cand.idx, out)
      BY <1>0, <1>5, RewriteOwnershipStep
    <2>3. disk'.st = disk.st
      BY <1>0, <2>1, <2>2, SavedIndex
    <2> QED BY <2>1, <2>3, QuietChoices DEF SameRest
  <1>6. CASE Converge
    <2> DEFINE x == Settled(op.cand.idx, op.scan, First(op.todo))
    <2>1. /\ UNCHANGED <<consent, undone, mem>> /\ op.pc = "converge" /\ SameRest(op'.cand, op.cand)
          /\ op'.pc \in {"converge", "apply"} /\ x \in Index
      BY <1>0, <1>6, ConvergeStep
    <2>2. PICK out \in Outcomes : Save("idx", x, out)
      BY <1>0, <1>6, ConvergeStep
    <2>3. disk'.st = disk.st
      <3> HIDE DEF x
      <3> QED BY <1>0, <2>1, <2>2, SavedIndex
    <2> QED BY <2>1, <2>3, QuietChoices DEF SameRest
  <1>7. CASE Postscan
    <2>1. /\ UNCHANGED <<consent, undone, mem, disk>> /\ op.pc = "postscan"
          /\ op'.pc = "idle" \/ (op'.pc = "load" /\ op'.cand = op.cand)
      BY <1>0, <1>7, PostscanStep
    <2> QED BY <2>1, QuietChoices
  <1> QED BY <1>1, <1>2, <1>3, <1>4, <1>5, <1>6, <1>7

LEMMA PublicationChoices ==
  ASSUME Choices, Books', Reloaded \/ RetryState \/ Prescanned \/ Imported
  PROVE  Choices'
  <1>0. PluginsTypeOK /\ mem \in Registries
    BY DEF Choices, Books, Files, PluginsTypeOK
  <1>m. Sound(mem)
    BY DEF Choices
  <1>1. CASE Reloaded
    <2>1. UNCHANGED <<consent, undone, disk>> /\ op.pc = "apply" /\ op'.pc = "idle"
      BY <1>0, <1>1, ReloadedStep
    <2>2. PICK t \in Stated : Read(t) /\ mem' = Applied(t)
      BY <1>0, <1>1, ReloadedStep DEF Shown
    <2>3. Sound(mem')
      BY <2>1, <2>2, AppliedSound
    <2> QED BY <2>1, <2>3, ChoicesKept
  <1>2. CASE RetryState
    <2>1. UNCHANGED <<consent, undone, disk, op>> /\ op.pc = "idle"
      BY <1>0, <1>2, RetryStateStep
    <2>2. PICK t \in Stated : /\ t \in {LoadState(disk.st), [st |-> NoState, sto |-> "down"]}
                              /\ mem' = Renumbered(mem, WithState(mem, t))
      BY <1>0, <1>2, RetryStateStep DEF Shown
    <2> DEFINE w == WithState(mem, t)
    <2>3. w \in Registries /\ w.st = t.st /\ w.sto = t.sto
      BY <1>0, StateFields DEF Stated
    <2>4. mem' = Renumbered(mem, w)
      BY <2>2
    <2> HIDE DEF w
    <2>5. mem'.st = t.st /\ mem'.sto = t.sto
      BY <1>0, <2>3, <2>4, RenumberedFields
    <2>6. Sound(mem')
      BY <2>2, <2>5, LoadedSound, SoundSame
    <2> QED BY <2>1, <2>6, ChoicesKept
  <1>3. CASE Prescanned
    <2>1. UNCHANGED <<consent, undone, disk>> /\ op.pc = "apply"
      BY <1>0, <1>3, PrescannedStep
    <2>2. PICK t \in Stated :
            /\ Read(t)
            /\ \/ mem' = Renumbered(mem, Applied(t)) /\ op'.pc = "idle"
               \/ UNCHANGED mem /\ op'.pc = "stage" /\ op'.cand = Applied(t)
               \/ UNCHANGED mem /\ op'.pc = "idle"
      BY <1>0, <1>3, PrescannedStep DEF Shown
    <2>3. Sound(Applied(t)) /\ Sound(Renumbered(mem, Applied(t)))
      BY <2>1, <2>2, AppliedSound
    <2>4. Sound(mem') /\ (op'.pc # "idle" => Sound(op'.cand)) /\ op'.pc # "promote"
      BY <1>m, <2>2, <2>3
    <2> QED BY <2>1, <2>4, ChoicesKept
  <1>4. CASE Imported
    <2>1. UNCHANGED <<consent, undone, disk>> /\ op.pc = "apply" /\ op'.pc = "idle"
      BY <1>0, <1>4, ImportedStep
    <2>2. UNCHANGED mem \/ \E t \in Stated : Read(t) /\ mem' = Renumbered(mem, Applied(t))
      BY <1>0, <1>4, ImportedStep DEF Shown
    <2>3. Sound(mem')
      BY <1>m, <2>1, <2>2, AppliedSound
    <2> QED BY <2>1, <2>3, ChoicesKept
  <1> QED BY <1>1, <1>2, <1>3, <1>4
-----------------------------------------------------------------------------
LEMMA SetEnabledChoices ==
  ASSUME Choices, Books', NEW i \in Ids, NEW on \in BOOLEAN, SetEnabled(i, on)
  PROVE  Choices'
  <1>0. PluginsTypeOK /\ mem \in Registries /\ consent \in [Ids -> BOOLEAN]
    BY DEF Choices, Books, Files, PluginsTypeOK
  <1>1. UNCHANGED <<op, undone>> /\ op.pc = "idle"
    BY <1>0, SetEnabledStep
  <1>2. PICK st \in Decisions, out \in Outcomes :
              /\ st[i].on = on /\ \A j \in Ids \ {i} : st[j] = mem.st[j]
              /\ Save("st", st, out)
              /\ out = "failed" => mem' = mem /\ consent' = consent
              /\ out # "failed" => /\ mem' = WithState(mem, [st |-> st, sto |-> "ok"])
                                   /\ consent' = [consent EXCEPT ![i] = on]
    BY <1>0, SetEnabledStep
  <1>3. (out = "failed" => disk' = disk) /\ (out # "failed" => disk'.st.cur = st /\ ~disk'.st.bad)
    BY <1>0, <1>2, SavedState
  <1>4. CASE out = "failed"
    BY <1>1, <1>2, <1>3, <1>4, ChoicesKept DEF Choices
  <1>5. CASE out # "failed"
    <2>1. mem'.st = st /\ mem'.sto = "ok"
      BY <1>0, <1>2, <1>5, StateFields DEF Trust
    <2>2. \A j \in Ids : st[j].on => consent'[j] \/ undone'
      BY <1>0, <1>1, <1>2, <1>5 DEF Choices, Sound, Consented
    <2> QED BY <1>1, <1>3, <1>5, <2>1, <2>2 DEF Choices, Sound, Consented, SwitchedOffFirst
  <1> QED BY <1>4, <1>5

LEMMA DisableChoices ==
  ASSUME Choices, Books', Disable
  PROVE  Choices'
  <1>0. PluginsTypeOK /\ mem \in Registries
    BY DEF Choices, Books, Files, PluginsTypeOK
  <1>1. UNCHANGED <<consent, undone>> /\ op.pc = "disable" /\ op.o \in Objs
    BY <1>0, DisableStep
  <1> DEFINE i == IdOf[op.o]
  <1>2. PICK c \in Registries :
              /\ mem' = AdoptImport(mem, c)
              /\ op'.pc = "idle" \/ (op'.pc = "promote" /\ op'.o = op.o /\ op'.cand = c)
              /\ \/ c = op.cand /\ c.sto = "ok" /\ ~c.st[i].on /\ UNCHANGED <<disk, ddur>>
                 \/ \E out \in Outcomes, st \in Decisions :
                      /\ Save("st", st, out)
                      /\ ~st[i].on /\ \A j \in Ids \ {i} : st[j] = op.cand.st[j]
                      /\ out = "failed" => c = op.cand
                      /\ out # "failed" => c.st = st /\ c.sto = "ok"
                      /\ op'.pc = "promote" => out = "durable"
    BY <1>0, DisableStep
  <1> HIDE DEF i
  <1>3. mem'.st = c.st /\ mem'.sto = c.sto
    BY <1>0, <1>2, AdoptedSound
  <1>4. Sound(op.cand)
    BY <1>1 DEF Choices
  <1>5. CASE c = op.cand /\ c.sto = "ok" /\ ~c.st[i].on /\ UNCHANGED <<disk, ddur>>
    <2>1. ~disk.st.bad => c.st = disk.st.cur
      BY <1>4, <1>5 DEF Sound
    <2> QED BY <1>1, <1>2, <1>3, <1>4, <1>5, <2>1 DEF Choices, Sound, Consented, SwitchedOffFirst, i
  <1>6. ASSUME NEW out \in Outcomes, NEW st \in Decisions, Save("st", st, out),
               ~st[i].on, \A j \in Ids \ {i} : st[j] = op.cand.st[j],
               out = "failed" => c = op.cand,
               out # "failed" => c.st = st /\ c.sto = "ok",
               op'.pc = "promote" => out = "durable"
        PROVE  Choices'
    <2>1. (out = "failed" => disk' = disk) /\ (out # "failed" => disk'.st.cur = st /\ ~disk'.st.bad)
      BY <1>0, <1>6, SavedState
    <2>2. CASE out = "failed"
      <3>1. op'.pc = "idle"
        BY <1>2, <1>6, <2>2
      <3>2. Sound(mem')
        BY <1>3, <1>4, <1>6, <2>2, SoundSame
      <3> QED BY <1>1, <2>1, <2>2, <3>1, <3>2, ChoicesKept
    <2>3. CASE out # "failed"
      <3>1. Consented(st)
        BY <1>4, <1>6 DEF Sound, Consented
      <3> QED BY <1>1, <1>2, <1>3, <1>6, <2>1, <2>3, <3>1 DEF Choices, Sound, Consented, SwitchedOffFirst, i
    <2> QED BY <2>2, <2>3
  <1> QED BY <1>2, <1>5, <1>6

LEMMA PromoteChoices ==
  ASSUME Choices, Books', Promote
  PROVE  Choices'
  <1>0. PluginsTypeOK /\ mem \in Registries /\ op.cand \in Registries /\ consent \in [Ids -> BOOLEAN]
    BY DEF Choices, Books, Files, PluginsTypeOK, Ops
  <1> DEFINE i == IdOf[op.o]
  <1>1. /\ UNCHANGED <<disk, undone>> /\ op.pc = "promote" /\ op.o \in Objs
        /\ \/ /\ op'.pc \in {"register", "postscan"} /\ op'.cand = op.cand /\ UNCHANGED mem
              /\ consent' = [consent EXCEPT ![i] = FALSE] \/ UNCHANGED consent
           \/ op'.pc = "idle" /\ UNCHANGED consent /\ mem' = Renumbered(mem, op.cand)
    BY <1>0, PromoteStep DEF SameOp, Shown
  <1>2. i \in Ids
    BY <1>1, ManifestAssumption
  <1>3. ~op.cand.st[i].on /\ ~mem.st[i].on /\ (~disk.st.bad => ~disk.st.cur[i].on)
    BY <1>1 DEF Choices, SwitchedOffFirst
  <1> HIDE DEF i
  <1>4. Sound(op.cand) /\ Sound(mem)
    BY <1>1 DEF Choices
  <1>5. CASE op'.pc = "idle" /\ UNCHANGED consent /\ mem' = Renumbered(mem, op.cand)
    <2>1. mem'.st = op.cand.st /\ mem'.sto = op.cand.sto
      BY <1>0, <1>5, RenumberedFields
    <2>2. Sound(mem')
      BY <1>4, <2>1, SoundSame
    <2> QED BY <1>1, <1>5, <2>2, ChoicesKept
  <1>6. CASE op'.pc \in {"register", "postscan"} /\ op'.cand = op.cand /\ UNCHANGED mem /\ UNCHANGED consent
    BY <1>1, <1>4, <1>6, ChoicesKept
  <1>7. CASE /\ op'.pc \in {"register", "postscan"} /\ op'.cand = op.cand /\ UNCHANGED mem
             /\ consent' = [consent EXCEPT ![i] = FALSE]
    <2>1. \A j \in Ids \ {i} : consent'[j] = consent[j]
      BY <1>0, <1>7
    <2>2. /\ \A j \in Ids : op.cand.st[j].on => consent'[j] \/ undone'
          /\ \A j \in Ids : mem.st[j].on => consent'[j] \/ undone'
          /\ ~disk.st.bad => \A j \in Ids : disk.st.cur[j].on => consent'[j] \/ undone'
      BY <1>1, <1>3, <1>4, <2>1 DEF Choices, Sound, Consented
    <2> QED BY <1>1, <1>4, <1>7, <2>2 DEF Choices, Sound, Consented, SwitchedOffFirst
  <1> QED BY <1>1, <1>5, <1>6, <1>7

\* Steps of a package, and of the index.
LEMMA EntryChoices ==
  ASSUME Choices, Books', Stage \/ Register \/ MarkRemoving \/ Quarantine \/ Look \/ Delete \/ Forget \/ Rollback
  PROVE  Choices'
  <1>0. PluginsTypeOK /\ mem \in Registries /\ op.cand \in Registries /\ op.base \in Registries /\ op.base.scan \in Photos
    BY DEF Choices, Books, Files, PluginsTypeOK, Ops, Registries
  <1>1. CASE Stage
    <2>1. /\ UNCHANGED <<consent, undone, mem, disk>> /\ op.pc = "stage"
          /\ op'.pc = "idle" \/ (op'.pc = "disable" /\ op'.cand = op.cand)
      BY <1>0, <1>1, StageStep DEF SameOp
    <2> QED BY <2>1, QuietChoices
  <1>2. CASE Quarantine
    <2>1. UNCHANGED <<consent, undone, mem, disk>> /\ op.pc = "rename" /\ op'.cand = op.cand /\ op'.pc \in {"rollback", "look"}
      BY <1>0, <1>2, QuarantineStep DEF SameOp
    <2> QED BY <2>1, QuietChoices
  <1>3. CASE Look
    <2>1. UNCHANGED <<consent, undone, mem, disk>> /\ op.pc = "look" /\ op'.cand = op.cand /\ op'.pc \in {"delete", "forget"}
      BY <1>0, <1>3, LookStep
    <2> QED BY <2>1, QuietChoices
  <1>4. CASE Delete
    <2>1. UNCHANGED <<consent, undone, mem, disk>> /\ op.pc = "delete" /\ op'.cand = op.cand /\ op'.pc \in {"delete", "forget"}
      BY <1>0, <1>4, DeleteStep
    <2> QED BY <2>1, QuietChoices
  <1>5. CASE Register
    <2>1. UNCHANGED <<consent, undone>> /\ op.pc = "register" /\ op'.pc = "postscan"
      BY <1>0, <1>5, RegisterStep
    <2>2. PICK c \in Registries :
              /\ mem' = AdoptImport(mem, c) /\ op'.cand = c
              /\ \/ /\ Entry("managed") \in Index
                    /\ \E out \in Outcomes : Save("idx", Entry("managed"), out) /\ Kept(c, out, "managed")
                 \/ c = op.cand /\ UNCHANGED <<disk, ddur>>
      BY <1>0, <1>5, RegisterStep
    <2>3. disk'.st = disk.st /\ c.st = op.cand.st /\ c.sto = op.cand.sto
      BY <1>0, <2>2, SavedIndex DEF Kept, SameRest
    <2>4. Sound(c)
      BY <2>1, <2>3, SoundSame DEF Choices
    <2>5. Sound(mem')
      BY <1>0, <2>2, <2>4, AdoptedSound, SoundSame
    <2> QED BY <2>1, <2>2, <2>3, <2>4, <2>5, ChoicesKept
  <1>6. CASE MarkRemoving
    <2>1. UNCHANGED <<consent, undone>> /\ op.pc = "mark" /\ Entry("removing") \in Index
      BY <1>0, <1>6, MarkRemovingStep
    <2>2. PICK out \in Outcomes, c \in Registries :
              /\ Save("idx", Entry("removing"), out) /\ Kept(c, out, "removing")
              /\ mem' = AdoptRemoval(mem, c) /\ op'.cand = c /\ op'.pc \in {"rename", "rollback"}
      BY <1>0, <1>6, MarkRemovingStep
    <2>3. disk'.st = disk.st /\ c.st = op.cand.st /\ c.sto = op.cand.sto
      BY <1>0, <2>1, <2>2, SavedIndex DEF Kept, SameRest
    <2>4. Sound(c)
      BY <2>1, <2>3, SoundSame DEF Choices
    <2>5. Sound(mem')
      BY <1>0, <2>2, <2>4, AdoptedSound, SoundSame
    <2> QED BY <2>1, <2>2, <2>3, <2>4, <2>5, ChoicesKept
  <1>7. CASE Forget
    <2>1. UNCHANGED <<consent, undone>> /\ op.pc = "forget" /\ op'.pc = "idle" /\ Observed \in Photos
      BY <1>0, <1>7, ForgetStep
    <2>2. PICK c \in Registries :
            /\ Concluded(c)
            /\ \/ /\ Entry("none") \in Index
                  /\ \E out \in Outcomes : Save("idx", Entry("none"), out) /\ Kept(c, out, "none")
               \/ c = op.cand /\ UNCHANGED <<disk, ddur>>
      BY <1>0, <1>7, ForgetStep
    <2>3. disk'.st = disk.st /\ c.st = op.cand.st /\ c.sto = op.cand.sto
      BY <1>0, <2>2, SavedIndex DEF Kept, SameRest
    <2>4. Sound(c)
      BY <2>1, <2>3, SoundSame DEF Choices
    <2>5. mem'.st = c.st /\ mem'.sto = c.sto
      BY <1>0, <2>1, <2>2, AdoptedSound, PublishedState DEF Concluded, Shown
    <2>6. Sound(mem')
      BY <2>4, <2>5, SoundSame
    <2> QED BY <2>1, <2>3, <2>6, ChoicesKept
  <1>8. CASE Rollback
    <2>1. UNCHANGED <<consent, undone>> /\ op.pc = "rollback" /\ op'.pc = "idle" /\ Entry("managed") \in Index
      BY <1>0, <1>8, RollbackStep
    <2>2. PICK out \in Outcomes, c \in Registries :
              /\ Save("idx", Entry("managed"), out) /\ Kept(c, out, "managed")
              /\ mem' = PublishOnce(op.base, Reconciled(c, op.base.scan))
      BY <1>0, <1>8, RollbackStep DEF Shown
    <2>3. disk'.st = disk.st /\ c.st = op.cand.st /\ c.sto = op.cand.sto
      BY <1>0, <2>1, <2>2, SavedIndex DEF Kept, SameRest
    <2>4. Sound(c)
      BY <2>1, <2>3, SoundSame DEF Choices
    <2>5. Sound(mem')
      BY <1>0, <2>2, <2>4, PublishedState, SoundSame
    <2> QED BY <2>1, <2>3, <2>5, ChoicesKept
  <1> QED BY <1>1, <1>2, <1>3, <1>4, <1>5, <1>6, <1>7, <1>8

LEMMA SaveDisabledChoices ==
  ASSUME Choices, Books', SaveDisabled
  PROVE  Choices'
  <1>0. PluginsTypeOK /\ mem \in Registries /\ op.base \in Registries /\ op.base.scan \in Photos
    BY DEF Choices, Books, Files, PluginsTypeOK, Ops, Registries
  <1>1. UNCHANGED <<consent, undone>> /\ op.pc = "off" /\ op.o \in Objs
    BY <1>0, SaveDisabledStep
  <1> DEFINE i == IdOf[op.o]
  <1>2. PICK out \in Outcomes, st \in Decisions, c \in Registries :
              /\ Save("st", st, out)
              /\ ~st[i].on /\ \A j \in Ids \ {i} : st[j] = op.cand.st[j]
              /\ out = "failed" => c = op.cand
              /\ out # "failed" => c.st = st /\ c.sto = "ok"
              /\ \/ op'.pc = "idle" /\ mem' = AdoptRemoval(mem, c)
                 \/ op'.pc = "idle" /\ mem' = PublishOnce(op.base, Reconciled(c, op.base.scan))
                 \/ op'.pc = "mark" /\ op'.cand = c /\ mem' = AdoptRemoval(mem, c)
    BY <1>0, SaveDisabledStep DEF Shown
  <1>3. i \in Ids
    BY <1>1, ManifestAssumption
  <1> HIDE DEF i
  <1>4. mem'.st = c.st /\ mem'.sto = c.sto
    BY <1>0, <1>2, AdoptedSound, PublishedState
  <1>5. Sound(op.cand)
    BY <1>1 DEF Choices
  <1>6. (out = "failed" => disk' = disk) /\ (out # "failed" => disk'.st.cur = st /\ ~disk'.st.bad)
    BY <1>0, <1>2, SavedState
  <1>7. CASE out = "failed"
    <2>1. Sound(mem') /\ Sound(c)
      BY <1>2, <1>4, <1>5, <1>7, SoundSame
    <2> QED BY <1>1, <1>2, <1>6, <1>7, <2>1, ChoicesKept
  <1>8. CASE out # "failed"
    <2>1. Consented(st)
      BY <1>2, <1>5 DEF Sound, Consented
    <2> QED BY <1>1, <1>2, <1>4, <1>6, <1>8, <2>1 DEF Choices, Sound, Consented, SwitchedOffFirst
  <1> QED BY <1>7, <1>8
-----------------------------------------------------------------------------
LEMMA StartedChoices ==
  ASSUME Choices, Books', Started, op'.pc = "idle", UNCHANGED consent,
         (disk'.st = disk.st /\ undone' = undone) \/ undone'
  PROVE  Choices'
  <1>1. PICK x \in Indexed, t \in Stated :
          /\ t.sto = "ok" => ~disk'.st.bad /\ t.st = disk'.st.cur
          /\ t.sto # "ok" => \A i \in Ids : ~t.st[i].on
          /\ mem' = Booted(x, t)
    BY DEF Started
  <1>2. mem'.st = t.st /\ mem'.sto = t.sto
    BY <1>1, BootedFields
  <1>3. ~disk'.st.bad => \A i \in Ids : disk'.st.cur[i].on => consent'[i] \/ undone'
    BY DEF Choices, Consented
  <1>4. \A i \in Ids : mem'.st[i].on => consent'[i] \/ undone'
    BY <1>1, <1>2, <1>3
  <1> QED BY <1>1, <1>2, <1>3, <1>4 DEF Choices, Sound, Consented, SwitchedOffFirst

LEMMA OutsideChoices ==
  ASSUME Choices, Books', Tamper \/ Damage \/ Restart \/ PowerLoss
  PROVE  Choices'
  <1>0. PluginsTypeOK
    BY DEF Choices, Books, Files
  <1>1. CASE Tamper
    <2>1. UNCHANGED <<disk, mem, op, consent, undone>>
      BY <1>0, <1>1, TamperStep
    <2> QED BY <2>1 DEF Choices, Sound, Consented, SwitchedOffFirst
  <1>2. CASE Damage
    <2>1. /\ UNCHANGED <<mem, op, consent, undone>>
          /\ disk'.st = disk.st \/ disk'.st.bad
      BY <1>0, <1>2, DamageStep
    <2> QED BY <2>1 DEF Choices, Sound, Consented, SwitchedOffFirst
  <1>3. CASE Restart
    <2>1. UNCHANGED <<disk, consent, undone>> /\ Started /\ op'.pc = "idle"
      BY <1>0, <1>3, RestartStep
    <2> QED BY <2>1, StartedChoices
  <1>4. CASE PowerLoss
    <2>1. UNCHANGED consent /\ undone' = (undone \/ disk'.st # disk.st) /\ Started /\ op'.pc = "idle"
      BY <1>0, <1>4, PowerLossStep
    <2>2. undone \in BOOLEAN
      BY <1>0 DEF PluginsTypeOK
    <2>3. (disk'.st = disk.st /\ undone' = undone) \/ undone'
      BY <2>1, <2>2
    <2> QED BY <2>1, <2>3, StartedChoices
  <1> QED BY <1>1, <1>2, <1>3, <1>4

LEMMA ChoicesInit == PluginsInit => Choices
  <1> SUFFICES ASSUME PluginsInit PROVE Choices
    OBVIOUS
  <1>1. Books /\ PluginsTypeOK
    BY BooksInit DEF Books, Files
  <1>2. /\ disk = [idx |-> Empty(NoEntries), st |-> Empty(NoState)] /\ op = NoOp
        /\ mem = Booted(LoadIndex(disk.idx), LoadState(disk.st))
    BY DEF PluginsInit
  <1>3. disk.st = Empty(NoState) /\ disk.st \in Docs(Decisions) /\ disk.idx \in Docs(Index)
    BY <1>1, <1>2 DEF PluginsTypeOK, Disks
  <1>4. disk.st.cur = NoState /\ ~disk.st.bad
    BY <1>3 DEF Empty
  <1>5. LoadState(disk.st).st = NoState
    BY <1>4 DEF LoadState, Loadable
  <1>6. mem.st = NoState
    BY <1>2, <1>3, <1>5, LoadIndexFields, LoadStateFields, BootedFields
  <1>7. op.pc = "idle"
    BY <1>2, NoOpFields
  <1>8. Consented(NoState)
    BY NoStateOff, StateOff
  <1> QED BY <1>1, <1>4, <1>6, <1>7, <1>8 DEF Choices, Sound, SwitchedOffFirst

LEMMA ChoicesNext == Choices /\ [PluginsNext]_pluginVars => Choices'
  <1> SUFFICES ASSUME Choices, [PluginsNext]_pluginVars PROVE Choices'
    OBVIOUS
  <1>0. Books'
    BY BooksNext DEF Choices
  <1>1. CASE \/ Reload \/ LoadOwnership \/ RewriteOwnership \/ Converge \/ Postscan
             \/ \E o \in Objs : Import(o) \/ Remove(o)
    BY <1>0, <1>1, ScanChoices
  <1>2. CASE Reloaded \/ RetryState \/ Prescanned \/ Imported
    BY <1>0, <1>2, PublicationChoices
  <1>3. ASSUME NEW i \in Ids, NEW on \in BOOLEAN, SetEnabled(i, on) PROVE Choices'
    BY <1>0, <1>3, SetEnabledChoices
  <1>4. CASE Disable \/ Promote \/ SaveDisabled
    BY <1>0, <1>4, DisableChoices, PromoteChoices, SaveDisabledChoices
  <1>5. CASE Stage \/ Register \/ MarkRemoving \/ Quarantine \/ Look \/ Delete \/ Forget \/ Rollback
    BY <1>0, <1>5, EntryChoices
  <1>6. CASE Tamper \/ Damage \/ Restart \/ PowerLoss
    BY <1>0, <1>6, OutsideChoices
  <1>7. CASE UNCHANGED pluginVars
    <2>1. UNCHANGED <<disk, mem, op, consent, undone>>
      BY <1>7 DEF pluginVars, disks, told
    <2> QED BY <1>0, <2>1 DEF Choices, Sound, Consented, SwitchedOffFirst
  <1> QED BY <1>1, <1>2, <1>3, <1>4, <1>5, <1>6, <1>7 DEF PluginsNext

LEMMA ChoicesSuffice ==
  ASSUME Choices
  PROVE  MemoryFollowsDisk /\ QuarantineAccounted /\ EntryMeansPromoted /\ EnabledByConsent
  <1>1. MemoryFollowsDisk
    <2>1. op.pc = "idle" /\ mem.own = "ok" /\ ~lost => Follows(mem.idx)
      BY DEF Choices, Books, IndexFollows, Scanning
    <2>2. mem.sto = "ok" /\ ~disk.st.bad => mem.st = disk.st.cur
      BY DEF Choices, Sound
    <2> QED BY <2>1, <2>2 DEF MemoryFollowsDisk, Follows
  <1>2. QuarantineAccounted
    BY DEF Choices, Books, Accounted, Quarantined, QuarantineAccounted, At
  <1>3. EntryMeansPromoted
    BY DEF Choices, Books, Entered, Real, DiskIndices, Promoted, EntryMeansPromoted
  <1>4. EnabledByConsent
    <2> SUFFICES ASSUME NEW o \in Listed(mem.scan), mem.scan.p[o].kind = "ours", Enabled(mem, o)
                 PROVE  consent[IdOf[o]] \/ undone
      BY DEF EnabledByConsent
    <2>1. o \in Objs
      BY DEF Listed, Candidates
    <2>2. IdOf[o] \in Ids /\ SeenId(mem.scan, o) = IdOf[o]
      BY <2>1, ManifestAssumption DEF SeenId
    <2>3. mem.st[IdOf[o]] = [fp |-> Content(mem.scan, o), on |-> TRUE]
      BY <2>2 DEF Enabled
    <2>4. mem.st[IdOf[o]].on
      BY <2>3
    <2> QED BY <2>2, <2>4 DEF Choices, Sound, Consented
  <1> QED BY <1>1, <1>2, <1>3, <1>4
-----------------------------------------------------------------------------
\* The catalog: what is classified and counted fits the index it was made of, or nothing
\* may be done upon it; an operation rests on the catalog that is shown.
Fitting(r) == r.sum = Counts(r.idx, r.scan) /\ r.cls = Classes(TRUE, r.idx, r.scan)

Numbered ==
    /\ ~mem.unrec => Structure(mem) = shown
    /\ mem.gen # 0 /\ ~mem.unrec /\ mem.own = "ok" /\ Readable(mem.scan) => Fitting(mem)
    /\ mem.unrec => Structure(mem) = shown \/ ~Fitting(mem)

Importing == op.pc \in {"stage", "disable", "promote", "register", "postscan"} \/ (op.kind = "published" /\ op.pc # "idle")
Ready ==
    /\ Fitting(op.cand) /\ op.cand.own = "ok" /\ op.cand.sto # "down"
    /\ Structure(op.cand) = Structure(mem) /\ Structure(mem) = shown
    /\ ListedAs(op.cand.scan, IdOf[op.o]) = {} /\ op.cand.scan.p[op.o].at = "none"
Based ==
    /\ Scanning => op.cand.unrec = mem.unrec
    /\ Scanning /\ op.kind = "import" => op.scan.p[op.o].at = "none"
    /\ op.pc \in {"stage", "disable", "promote", "register"} => Ready
    /\ Importing => mem.sum.up /\ mem.gen # 0 /\ ~op.cand.unrec /\ op.cand.gen = mem.gen
    /\ op.kind = "published" /\ op.pc # "idle" => op.base.gen = mem.gen

Proven ==
    /\ ~op.base.unrec /\ op.base.gen = mem.gen /\ op.cand.gen = mem.gen /\ mem.gen # 0
    /\ Structure(op.base) = shown /\ op.base.own = "ok" /\ op.base.sto # "down"
    /\ Readable(op.base.scan) /\ Fitting(op.base) /\ Proves(op.base.idx, op.base.scan, op.o)
    /\ op.base.cls[IdOf[op.o]] = "managed"
    /\ op.cand.sto # "down" /\ mem.idx = op.cand.idx /\ mem.own = "ok" /\ mem.sto # "down"
    /\ mem.scan = op.base.scan /\ mem.cls = op.base.cls /\ mem.sum = op.base.sum
Withdrawn ==
    /\ op.kind = "removal" => Proven /\ (mem.unrec \/ op.cand.idx = op.base.idx)
    /\ op.pc \in {"off", "mark"} => ~mem.unrec /\ op.cand.idx = op.base.idx
    /\ op.pc \in {"rename", "look", "delete", "forget"} => op.cand.idx[op.o] = "removing"

Catalog == Books /\ Numbered /\ Based /\ Withdrawn

LEMMA StructureFitting ==
  ASSUME NEW r, NEW q, Structure(r) = Structure(q), q.own # "down", Fitting(q)
  PROVE  Fitting(r) /\ r.idx = q.idx /\ r.own # "down"
  <1>1. /\ r.scan = q.scan /\ r.cls = q.cls /\ r.sum = q.sum /\ r.own # "down" /\ r.idx = q.idx
    BY StructureFields
  <1> QED BY <1>1 DEF Fitting

LEMMA DownUnfit == ASSUME NEW r, r.sum = Down PROVE ~Fitting(r) /\ ~r.sum.up
  <1>1. Down.up = FALSE
    BY DEF Down, NoCounts
  <1>2. Counts(r.idx, r.scan).up = TRUE
    BY CountsType
  <1> QED BY <1>1, <1>2 DEF Fitting

\* A package is shown as managed only upon its entry.
LEMMA ManagedNeedsEntry ==
  ASSUME NEW x, NEW s, NEW o \in Objs, Matches(s, o), Classes(TRUE, x, s)[IdOf[o]] = "managed"
  PROVE  x[o] = "managed"
  <1> DEFINE i == IdOf[o]
             L == ListedAs(s, i)
             p == CHOOSE p \in L : TRUE
  <1>1. i \in Ids /\ o \in Listed(s) /\ SeenId(s, o) = i
    BY ManifestAssumption DEF Matches, SeenId
  <1>2. o \in L
    BY <1>1 DEF ListedAs
  <1>3. \A q \in L : q = o
    BY <1>1 DEF ListedAs, Listed
  <1>4. p = o
    BY <1>2, <1>3
  <1>5. Classes(TRUE, x, s)[i] = ClassOf(x, s, p)
    BY <1>1, <1>2 DEF Classes
  <1>6. ClassOf(x, s, o) = "managed"
    BY <1>4, <1>5
  <1> QED BY <1>6 DEF ClassOf, Proves

\* An entry for a package that no scan has seen yet counts as a conflict.
LEMMA NewEntryCounts ==
  ASSUME NEW x \in Index, NEW s \in Photos, NEW o \in Objs, x[o] = "none", s.p[o].at = "none",
         ListedAs(s, IdOf[o]) = {}
  PROVE  Counts([x EXCEPT ![o] = "managed"], s) # Counts(x, s)
  <1> DEFINE y == [x EXCEPT ![o] = "managed"]
  <1>1. y[o] = "managed" /\ \A q \in Objs \ {o} : y[q] = x[q]
    BY DEF Index
  <1> HIDE DEF y
  <1>2. o \notin Listed(s) /\ ~Matches(s, o)
    BY DEF Matches, Listed, Candidates
  <1>3. Claimants(s, o) = {}
    BY <1>2 DEF Claimants, ListedAs
  <1>4. Cardinality(Claimants(s, o)) = 0
    BY <1>3, FS_EmptySet
  <1>5. Disputed(y, s) = Disputed(x, s) /\ o \notin Disputed(x, s)
    BY <1>1, <1>4 DEF Disputed
  <1>6. Removing(y, s) = Removing(x, s)
    BY <1>1, <1>5 DEF Removing
  <1>7. /\ Restorable(y, s) = Restorable(x, s) /\ Vanished(y, s) = Vanished(x, s)
        /\ Residue(y, s) = Residue(x, s)
    BY <1>6 DEF Restorable, Vanished, Residue
  <1>8. Orphans(y, s) = Orphans(x, s)
    BY <1>1 DEF Orphans
  <1>9. Unproven(y, s) = Unproven(x, s) \cup {o} /\ o \notin Unproven(x, s)
    BY <1>1, <1>2, <1>5 DEF Unproven, Proves
  <1> DEFINE D == Disputed(x, s)
             U == Unproven(x, s)
             R == Removing(x, s) \ (Restorable(x, s) \cup Vanished(x, s) \cup Residue(x, s))
             P == Orphans(x, s)
  <1>10. D \subseteq Objs /\ U \subseteq Objs /\ R \subseteq Objs /\ P \subseteq Objs
    BY DEF Disputed, Unproven, Removing, Orphans
  <1>11. Counts(x, s).conflicts = Cardinality(D) + Cardinality(U) + Cardinality(R) + Cardinality(P)
    BY DEF Counts
  <1>12. Counts(y, s).conflicts = Cardinality(D) + Cardinality(U \cup {o}) + Cardinality(R) + Cardinality(P)
    BY <1>5, <1>6, <1>7, <1>8, <1>9 DEF Counts
  <1>13. o \notin U
    BY <1>9
  <1> HIDE DEF D, U, R, P
  <1>14. IsFiniteSet(D) /\ IsFiniteSet(U) /\ IsFiniteSet(R) /\ IsFiniteSet(P)
    BY <1>10, FS_Subset, PackageAssumption
  <1>15. Cardinality(D) \in Nat /\ Cardinality(U) \in Nat /\ Cardinality(R) \in Nat /\ Cardinality(P) \in Nat
    BY <1>14, FS_CardinalityType
  <1>16. Cardinality(U \cup {o}) = Cardinality(U) + 1
    BY <1>13, <1>14, FS_AddElement
  <1>17. Counts(y, s).conflicts # Counts(x, s).conflicts
    BY <1>11, <1>12, <1>15, <1>16
  <1> QED BY <1>17 DEF y

\* What a scan makes of a candidate fits, or says that it could not be made.
LEMMA AppliedFitting ==
  ASSUME PluginsTypeOK, NEW t \in Stated
  PROVE  LET f == Applied(t)
         IN  /\ f \in Registries /\ f.scan = op.scan
             /\ Readable(op.scan) /\ f.own = "ok" => Fitting(f)
             /\ ~(Readable(op.scan) /\ f.own = "ok") => f.sum = Down
             /\ f.unrec = (op.cand.unrec /\ ~(Readable(op.scan) /\ f.own = "ok"))
  <1> DEFINE f == Applied(t)
             up == Readable(op.scan) /\ op.cand.own = "ok"
  <1>1. /\ f \in Registries /\ f.scan = op.scan /\ f.idx = op.cand.idx
        /\ f.own = (IF Readable(op.scan) /\ op.cand.own = "rewrite" THEN "down" ELSE op.cand.own)
        /\ f.cls = Classes(up, op.cand.idx, op.scan)
        /\ f.sum = (IF up THEN Counts(op.cand.idx, op.scan) ELSE Down)
        /\ f.unrec = (op.cand.unrec /\ ~(Readable(op.scan) /\ f.own = "ok"))
    BY AppliedFields
  <1> HIDE DEF f
  <1>2. (Readable(op.scan) /\ f.own = "ok") = up /\ up \in BOOLEAN
    BY <1>1 DEF Readable
  <1>3. up => Fitting(f)
    <2> SUFFICES ASSUME up PROVE Fitting(f)
      OBVIOUS
    <2>1. up = TRUE
      BY <1>2
    <2>2. f.cls = Classes(TRUE, op.cand.idx, op.scan)
      BY <1>1, <2>1
    <2> QED BY <1>1, <2>2 DEF Fitting
  <1> QED BY <1>1, <1>2, <1>3 DEF f
-----------------------------------------------------------------------------
LEMMA QuietCatalog ==
  ASSUME Catalog, Books', UNCHANGED <<mem, shown>>, Based', Withdrawn'
  PROVE  Catalog'
  BY DEF Catalog, Numbered

LEMMA IdleCatalog ==
  ASSUME Books', Numbered', op'.pc = "idle"
  PROVE  Catalog'
  <1>1. op'.kind # "removal"
    BY DEF Books, Files, PluginsTypeOK
  <1> QED BY <1>1 DEF Catalog, Based, Withdrawn, Scanning, Importing

LEMMA QuietIdle ==
  ASSUME Catalog, Books', UNCHANGED <<mem, shown>>, op'.pc = "idle"
  PROVE  Catalog'
  <1>1. Numbered'
    BY DEF Catalog, Numbered
  <1> QED BY <1>1, IdleCatalog

\* What is shown under the number of a catalog, and fits where it can.
LEMMA ShownNumbered ==
  ASSUME Structure(mem') = shown', ~mem'.unrec /\ Readable(mem'.scan) /\ mem'.own = "ok" => Fitting(mem')
  PROVE  Numbered'
  BY DEF Numbered

LEMMA ScannedCatalog ==
  ASSUME Catalog, Books', NEW kind \in {"reload", "import"}, NEW o \in Objs \cup {0}, kind = "import" => o \in Objs,
         kind = "import" => pkg[o].at = "new", op.pc = "idle", Scanned(kind, o), UNCHANGED <<disks, mem, told, shown>>
  PROVE  Catalog'
  <1>0. PluginsTypeOK
    BY DEF Catalog, Books, Files
  <1>1. /\ UNCHANGED <<pkg, mem, shown>>
        /\ op'.pc = "load" /\ op'.kind = kind /\ op'.o = o /\ op'.base = mem /\ op'.cand = mem
    BY <1>0, ScannedStep
  <1>2. PICK l \in BOOLEAN, q \in BOOLEAN : op'.scan = Photo(l, q)
    BY <1>0, ScannedStep
  <1>3. kind = "import" => op'.scan.p[o].at = "none"
    <2> SUFFICES ASSUME kind = "import" PROVE op'.scan.p[o].at = "none"
      OBVIOUS
    <2>1. o \in Objs /\ pkg[o].at = "new"
      OBVIOUS
    <2>2. Photo(l, q).p[o] = Nothing
      BY <1>0, <2>1, PhotoFields
    <2> QED BY <1>2, <2>2 DEF Nothing
  <1>4. Based' /\ Withdrawn'
    BY <1>1, <1>3 DEF Based, Withdrawn, Scanning, Importing
  <1> QED BY <1>1, <1>4, QuietCatalog

LEMMA LoadingCatalog ==
  ASSUME Catalog, Books', LoadOwnership \/ RewriteOwnership \/ Converge
  PROVE  Catalog'
  <1>0. PluginsTypeOK
    BY DEF Catalog, Books, Files
  <1>1. /\ UNCHANGED <<mem, shown>> /\ op.pc \in {"load", "rewrite", "converge"}
        /\ op'.pc \in {"rewrite", "converge", "apply"}
        /\ op'.kind = op.kind /\ op'.o = op.o /\ op'.base = op.base /\ op'.scan = op.scan
        /\ SameRest(op'.cand, op.cand)
    <2>1. CASE LoadOwnership
      BY <1>0, <2>1, LoadOwnershipStep
    <2>2. CASE RewriteOwnership
      BY <1>0, <2>2, RewriteOwnershipStep
    <2>3. CASE Converge
      BY <1>0, <2>3, ConvergeStep
    <2> QED BY <2>1, <2>2, <2>3
  <1>2. op.kind # "removal"
    BY <1>0, <1>1 DEF PluginsTypeOK
  <1>3. Based'
    BY <1>1 DEF Catalog, Based, Scanning, Importing, SameRest
  <1>4. Withdrawn'
    BY <1>1, <1>2 DEF Withdrawn
  <1> QED BY <1>1, <1>3, <1>4, QuietCatalog

LEMMA ReloadedCatalog ==
  ASSUME Catalog, Books', Reloaded
  PROVE  Catalog'
  <1>0. PluginsTypeOK /\ Books
    BY DEF Catalog, Books, Files
  <1>1. op.pc = "apply" /\ op.kind = "reload" /\ op'.pc = "idle"
    BY <1>0, ReloadedStep
  <1>2. PICK t \in Stated : Shown(Applied(t))
    BY <1>0, ReloadedStep
  <1> DEFINE f == Applied(t)
  <1>3. /\ f \in Registries /\ f.scan = op.scan
        /\ Readable(op.scan) /\ f.own = "ok" => Fitting(f)
        /\ ~(Readable(op.scan) /\ f.own = "ok") => f.sum = Down
        /\ f.unrec = (op.cand.unrec /\ ~(Readable(op.scan) /\ f.own = "ok"))
    BY <1>0, AppliedFitting
  <1>4. mem' = f /\ shown' = IF f.gen # mem.gen THEN Structure(f) ELSE shown
    BY <1>2 DEF Shown
  <1>5. Scanning /\ op.cand.unrec = mem.unrec
    BY <1>1 DEF Scanning, Catalog, Based
  <1>6. f.gen = mem.gen => Structure(f) = Structure(mem)
    BY <1>0, <1>5, SameNumber
  <1> HIDE DEF f
  <1>7. CASE f.gen # mem.gen
    <2>1. Numbered'
      BY <1>3, <1>4, <1>7, ShownNumbered
    <2> QED BY <1>1, <2>1, IdleCatalog
  <1>8. CASE f.gen = mem.gen
    <2>1. shown' = shown /\ Structure(f) = Structure(mem)
      BY <1>4, <1>6, <1>8
    <2>2. CASE Structure(mem) = shown
      <3>1. Numbered'
        BY <1>3, <1>4, <2>1, <2>2, ShownNumbered
      <3> QED BY <1>1, <3>1, IdleCatalog
    <2>3. CASE Structure(mem) # shown
      <3>1. mem.unrec /\ ~Fitting(mem)
        BY <2>3 DEF Catalog, Numbered
      <3>2. ~(Readable(op.scan) /\ f.own = "ok")
        <4>1. Fitting(f) => f.own = "down" \/ Fitting(mem)
          BY <2>1, StructureFitting
        <4> QED BY <1>3, <3>1, <4>1
      <3>3. f.unrec /\ ~Fitting(f)
        BY <1>3, <1>5, <3>1, <3>2, DownUnfit
      <3>4. Numbered'
        BY <1>4, <3>3 DEF Numbered
      <3> QED BY <1>1, <3>4, IdleCatalog
    <2> QED BY <2>2, <2>3
  <1> QED BY <1>7, <1>8

LEMMA RetryStateCatalog ==
  ASSUME Catalog, Books', RetryState
  PROVE  Catalog'
  <1>0. PluginsTypeOK /\ mem \in Registries /\ mem.gen \in {0, 1, 2}
    BY DEF Catalog, Books, Files, PluginsTypeOK, Registries
  <1>1. op.pc = "idle" /\ mem.gen # 0 /\ UNCHANGED op
    BY <1>0, RetryStateStep
  <1>2. PICK t \in Stated : Shown(Renumbered(mem, WithState(mem, t)))
    BY <1>0, RetryStateStep
  <1> DEFINE w == WithState(mem, t)
             r == Renumbered(mem, w)
  <1>3. w \in Registries /\ w.idx = mem.idx /\ w.own = mem.own /\ w.gen = mem.gen /\ w.scan = mem.scan /\ w.cls = mem.cls
        /\ w.sum = mem.sum /\ w.unrec = mem.unrec
    BY <1>0, StateFields DEF Stated
  <1>4. mem' = r /\ shown' = IF r.gen # mem.gen THEN Structure(r) ELSE shown
    BY <1>2 DEF Shown
  <1> HIDE DEF w
  <1>5. /\ r.idx = w.idx /\ r.own = w.own /\ r.scan = w.scan /\ r.cls = w.cls /\ r.sum = w.sum /\ r.unrec = w.unrec
        /\ r.sto = w.sto
        /\ r.gen = IF Structure(w) # Structure(mem) THEN NextNumber(mem.gen) ELSE mem.gen
    BY <1>0, <1>3, RenumberedFields
  <1>6. Structure(r) = Structure(w)
    BY <1>5, SameStructure
  <1> HIDE DEF r
  <1>7. NextNumber(mem.gen) # mem.gen
    BY <1>0 DEF NextNumber
  <1>8. Fitting(mem) <=> Fitting(r)
    BY <1>3, <1>5 DEF Fitting
  <1>9. Structure(r) # Structure(mem) => shown' = Structure(r)
    BY <1>4, <1>5, <1>6, <1>7
  <1>10. Structure(r) = Structure(mem) => shown' = shown
    BY <1>4, <1>5, <1>6
  <1>11. ~mem.unrec /\ mem.own = "ok" /\ Readable(mem.scan) => Fitting(mem)
    BY <1>1 DEF Catalog, Numbered
  <1>12. (~mem.unrec => Structure(mem) = shown) /\ (mem.unrec => Structure(mem) = shown \/ ~Fitting(mem))
    BY DEF Catalog, Numbered
  <1>13. Numbered'
    BY <1>3, <1>4, <1>5, <1>8, <1>9, <1>10, <1>11, <1>12 DEF Numbered
  <1> QED BY <1>1, <1>13, IdleCatalog

LEMMA SetEnabledCatalog ==
  ASSUME Catalog, Books', NEW i \in Ids, NEW on \in BOOLEAN, SetEnabled(i, on)
  PROVE  Catalog'
  <1>0. PluginsTypeOK /\ mem \in Registries
    BY DEF Catalog, Books, Files, PluginsTypeOK
  <1>1. op.pc = "idle" /\ UNCHANGED <<op, shown>> /\ mem.sto # "down"
    BY <1>0, SetEnabledStep
  <1>2. PICK st \in Decisions : mem' = mem \/ mem' = WithState(mem, [st |-> st, sto |-> "ok"])
    BY <1>0, SetEnabledStep
  <1>3. CASE mem' = mem
    BY <1>1, <1>3, QuietIdle
  <1>4. CASE mem' = WithState(mem, [st |-> st, sto |-> "ok"])
    <2>1. /\ mem'.idx = mem.idx /\ mem'.own = mem.own /\ mem'.gen = mem.gen /\ mem'.scan = mem.scan /\ mem'.cls = mem.cls
          /\ mem'.sum = mem.sum /\ mem'.unrec = mem.unrec /\ mem'.sto = "ok"
      BY <1>0, <1>4, StateFields DEF Trust
    <2>2. Structure(mem') = Structure(mem)
      BY <1>1, <2>1 DEF Structure
    <2>3. Fitting(mem') <=> Fitting(mem)
      BY <2>1 DEF Fitting
    <2>4. Numbered'
      BY <1>1, <2>1, <2>2, <2>3 DEF Catalog, Numbered
    <2> QED BY <1>1, <2>4, IdleCatalog
  <1> QED BY <1>2, <1>3, <1>4
-----------------------------------------------------------------------------
LEMMA PrescannedCatalog ==
  ASSUME Catalog, Books', Prescanned
  PROVE  Catalog'
  <1>0. PluginsTypeOK /\ Books /\ mem \in Registries /\ mem.gen \in {0, 1, 2}
    BY DEF Catalog, Books, Files, PluginsTypeOK, Registries
  <1>1. op.pc = "apply" /\ op.kind = "import"
    BY <1>0, PrescannedStep
  <1>2. PICK t \in Stated :
          \/ Applied(t).gen # mem.gen /\ Shown(Renumbered(mem, Applied(t))) /\ op'.pc = "idle"
          \/ /\ Applied(t).gen = mem.gen /\ Importable(Applied(t), op.o)
             /\ op'.pc = "stage" /\ op'.kind = op.kind /\ op'.o = op.o /\ op'.cand = Applied(t) /\ UNCHANGED <<mem, shown>>
          \/ UNCHANGED <<mem, shown>> /\ op'.pc = "idle"
    BY <1>0, PrescannedStep
  <1> DEFINE f == Applied(t)
             r == Renumbered(mem, f)
  <1>3. /\ f \in Registries /\ f.scan = op.scan
        /\ Readable(op.scan) /\ f.own = "ok" => Fitting(f)
        /\ ~(Readable(op.scan) /\ f.own = "ok") => f.sum = Down
    BY <1>0, AppliedFitting
  <1>4. f.gen = mem.gen => Structure(f) = Structure(mem) /\ mem.gen # 0
    BY <1>0, <1>1, SameNumber DEF Scanning
  <1>5. \/ f.gen # mem.gen /\ Shown(r) /\ op'.pc = "idle"
        \/ /\ f.gen = mem.gen /\ Importable(f, op.o)
           /\ op'.pc = "stage" /\ op'.kind = op.kind /\ op'.o = op.o /\ op'.cand = f /\ UNCHANGED <<mem, shown>>
        \/ UNCHANGED <<mem, shown>> /\ op'.pc = "idle"
    BY <1>2
  <1> HIDE DEF f
  <1>6. CASE f.gen # mem.gen /\ Shown(r) /\ op'.pc = "idle"
    <2>1. /\ r.idx = f.idx /\ r.own = f.own /\ r.scan = f.scan /\ r.cls = f.cls /\ r.sum = f.sum
          /\ r.gen = IF Structure(f) # Structure(mem) THEN NextNumber(mem.gen) ELSE f.gen
      BY <1>0, <1>3, RenumberedFields
    <2>2. mem' = r /\ shown' = IF r.gen # mem.gen THEN Structure(r) ELSE shown
      BY <1>6 DEF Shown
    <2> HIDE DEF r
    <2>3. r.gen # mem.gen
      BY <1>0, <1>6, <2>1 DEF NextNumber
    <2>4. Readable(r.scan) /\ r.own = "ok" => Fitting(r)
      BY <1>3, <2>1 DEF Fitting
    <2>5. Numbered'
      BY <2>2, <2>3, <2>4, ShownNumbered
    <2> QED BY <1>6, <2>5, IdleCatalog
  <1>7. CASE UNCHANGED <<mem, shown>> /\ op'.pc = "idle"
    BY <1>7, QuietIdle
  <1>8. CASE /\ f.gen = mem.gen /\ Importable(f, op.o)
             /\ op'.pc = "stage" /\ op'.kind = op.kind /\ op'.o = op.o /\ op'.cand = f /\ UNCHANGED <<mem, shown>>
    <2>1. Structure(f) = Structure(mem) /\ mem.gen # 0
      BY <1>4, <1>8
    <2>2. /\ ~f.unrec /\ f.sto # "down" /\ f.own = "ok" /\ f.sum.up /\ ListedAs(f.scan, IdOf[op.o]) = {}
      BY <1>8 DEF Importable
    <2>3. Fitting(f)
      BY <1>3, <2>2, DownUnfit
    <2>4. Fitting(mem)
      BY <2>1, <2>2, <2>3, StructureFitting
    <2>5. Structure(mem) = shown
      BY <2>4 DEF Catalog, Numbered
    <2>6. mem.sum = f.sum
      BY <2>1, StructureFields
    <2>7. f.scan.p[op.o].at = "none"
      BY <1>1, <1>3 DEF Catalog, Based, Scanning
    <2>8. Ready'
      BY <1>8, <2>1, <2>2, <2>3, <2>5, <2>7 DEF Ready
    <2>9. Based' /\ Withdrawn'
      BY <1>1, <1>8, <2>1, <2>2, <2>6, <2>8 DEF Based, Withdrawn, Scanning, Importing
    <2> QED BY <1>8, <2>9, QuietCatalog
  <1> QED BY <1>5, <1>6, <1>7, <1>8

LEMMA StageCatalog ==
  ASSUME Catalog, Books', Stage
  PROVE  Catalog'
  <1>0. PluginsTypeOK
    BY DEF Catalog, Books, Files
  <1>1. /\ UNCHANGED <<mem, shown>> /\ op.pc = "stage" /\ op.kind = "import"
        /\ op'.pc = "idle" \/ (op'.pc = "disable" /\ SameOp(op', op))
    BY <1>0, StageStep
  <1>2. CASE op'.pc = "idle"
    BY <1>1, <1>2, QuietIdle
  <1>3. CASE op'.pc = "disable" /\ SameOp(op', op)
    <2>1. op'.kind = op.kind /\ op'.o = op.o /\ op'.cand = op.cand
      BY <1>3 DEF SameOp
    <2>2. Based' /\ Withdrawn'
      BY <1>1, <1>3, <2>1 DEF Catalog, Based, Ready, Withdrawn, Scanning, Importing
    <2> QED BY <1>1, <2>2, QuietCatalog
  <1> QED BY <1>1, <1>2, <1>3

\* The documents of a ready candidate change nothing that is shown.
LEMMA ReadyAdopted ==
  ASSUME Ready, mem \in Registries, NEW c \in Registries, c.idx = op.cand.idx, c.own = op.cand.own, c.sto # "down",
         mem' = AdoptImport(mem, c), UNCHANGED shown
  PROVE  /\ Numbered' /\ Structure(mem') = Structure(mem) /\ mem'.gen = mem.gen /\ mem'.sum = mem.sum
  <1>1. /\ mem'.idx = c.idx /\ mem'.own = c.own /\ mem'.sto = c.sto
        /\ mem'.gen = mem.gen /\ mem'.scan = mem.scan /\ mem'.cls = mem.cls /\ mem'.sum = mem.sum
    BY AdoptImportFields
  <1>2. /\ Fitting(op.cand) /\ op.cand.own = "ok" /\ op.cand.sto # "down"
        /\ Structure(op.cand) = Structure(mem) /\ Structure(mem) = shown
    BY DEF Ready
  <1>3. Fitting(mem) /\ mem.idx = op.cand.idx /\ mem.own # "down"
    BY <1>2, StructureFitting
  <1>4. mem.sto # "down"
    BY <1>2, StructureFields
  <1>5. Structure(mem') = Structure(mem)
    BY <1>1, <1>2, <1>3, <1>4 DEF Structure
  <1>6. Fitting(mem')
    BY <1>1, <1>3 DEF Fitting
  <1>7. Numbered'
    BY <1>2, <1>5, <1>6, ShownNumbered
  <1> QED BY <1>1, <1>5, <1>7

LEMMA DisableCatalog ==
  ASSUME Catalog, Books', Disable
  PROVE  Catalog'
  <1>0. PluginsTypeOK /\ mem \in Registries
    BY DEF Catalog, Books, Files, PluginsTypeOK
  <1>1. UNCHANGED shown /\ op.pc = "disable" /\ op.kind = "import"
    BY <1>0, DisableStep
  <1>2. PICK c \in Registries :
          /\ mem' = AdoptImport(mem, c)
          /\ c.idx = op.cand.idx /\ c.own = op.cand.own /\ c.gen = op.cand.gen
          /\ c.scan = op.cand.scan /\ c.cls = op.cand.cls /\ c.sum = op.cand.sum /\ c.unrec = op.cand.unrec
          /\ op'.pc = "idle" \/ (op'.pc = "promote" /\ op'.kind = op.kind /\ op'.o = op.o /\ op'.cand = c)
          /\ c.sto = op.cand.sto \/ c.sto = "ok"
    <2>1. PICK c \in Registries :
              /\ mem' = AdoptImport(mem, c)
              /\ c.idx = op.cand.idx /\ c.own = op.cand.own /\ c.gen = op.cand.gen
              /\ c.scan = op.cand.scan /\ c.cls = op.cand.cls /\ c.sum = op.cand.sum /\ c.unrec = op.cand.unrec
              /\ op'.pc = "idle" \/ (op'.pc = "promote" /\ op'.kind = op.kind /\ op'.o = op.o /\ op'.cand = c)
              /\ \/ c = op.cand
                 \/ \E out \in Outcomes, st \in Decisions :
                      /\ out = "failed" => c = op.cand
                      /\ out # "failed" => c.st = st /\ c.sto = "ok"
      BY <1>0, DisableStep
    <2> QED BY <2>1
  <1>3. Ready /\ mem.sum.up /\ mem.gen # 0 /\ ~op.cand.unrec /\ op.cand.gen = mem.gen
    BY <1>1 DEF Catalog, Based, Importing
  <1>4. c.sto # "down"
    BY <1>2, <1>3 DEF Ready
  <1>5. Numbered' /\ Structure(mem') = Structure(mem) /\ mem'.gen = mem.gen /\ mem'.sum = mem.sum
    BY <1>0, <1>1, <1>2, <1>3, <1>4, ReadyAdopted
  <1>6. CASE op'.pc = "idle"
    BY <1>5, <1>6, IdleCatalog
  <1>7. CASE op'.pc = "promote" /\ op'.kind = op.kind /\ op'.o = op.o /\ op'.cand = c
    <2>1. Structure(c) = Structure(op.cand)
      BY <1>2, <1>3, <1>4 DEF Structure, Ready
    <2>2. Fitting(c) /\ c.own = "ok"
      BY <1>2, <1>3 DEF Ready, Fitting
    <2>3. Ready'
      BY <1>1, <1>2, <1>3, <1>4, <1>5, <1>7, <2>1, <2>2 DEF Ready
    <2>4. Based' /\ Withdrawn'
      BY <1>1, <1>2, <1>3, <1>5, <1>7, <2>3 DEF Based, Withdrawn, Scanning, Importing
    <2> QED BY <1>5, <2>4 DEF Catalog
  <1> QED BY <1>2, <1>6, <1>7

LEMMA PromoteCatalog ==
  ASSUME Catalog, Books', Promote
  PROVE  Catalog'
  <1>0. PluginsTypeOK /\ mem \in Registries /\ op.cand \in Registries
    BY DEF Catalog, Books, Files, PluginsTypeOK, Ops
  <1>1. /\ op.pc = "promote" /\ op.kind = "import"
        /\ \/ op'.pc \in {"register", "postscan"} /\ SameOp(op', op) /\ UNCHANGED <<mem, shown>>
           \/ op'.pc = "idle" /\ Shown(Renumbered(mem, op.cand))
    BY <1>0, PromoteStep
  <1>2. Ready /\ mem.sum.up /\ mem.gen # 0 /\ ~op.cand.unrec /\ op.cand.gen = mem.gen
    BY <1>1 DEF Catalog, Based, Importing
  <1>3. CASE op'.pc \in {"register", "postscan"} /\ SameOp(op', op) /\ UNCHANGED <<mem, shown>>
    <2>1. op'.kind = op.kind /\ op'.o = op.o /\ op'.cand = op.cand
      BY <1>3 DEF SameOp
    <2>2. Ready'
      BY <1>2, <1>3, <2>1 DEF Ready
    <2>3. Based' /\ Withdrawn'
      BY <1>1, <1>2, <1>3, <2>1, <2>2 DEF Based, Withdrawn, Scanning, Importing
    <2> QED BY <1>3, <2>3, QuietCatalog
  <1>4. CASE op'.pc = "idle" /\ Shown(Renumbered(mem, op.cand))
    <2>1. Renumbered(mem, op.cand) = op.cand
      BY <1>2 DEF Ready, Renumbered
    <2>2. mem' = op.cand /\ shown' = shown
      BY <1>2, <1>4, <2>1 DEF Shown
    <2>3. Numbered'
      BY <1>2, <2>2, ShownNumbered DEF Ready
    <2> QED BY <1>4, <2>3, IdleCatalog
  <1> QED BY <1>1, <1>3, <1>4

LEMMA RegisterCatalog ==
  ASSUME Catalog, Books', Register
  PROVE  Catalog'
  <1>0. PluginsTypeOK /\ mem \in Registries /\ op.cand \in Registries /\ op.cand.idx \in Index /\ op.cand.scan \in Photos
    BY DEF Catalog, Books, Files, PluginsTypeOK, Ops, Registries
  <1>1. /\ UNCHANGED shown /\ op.pc = "register" /\ op.kind = "import" /\ op.o \in Objs
        /\ op'.pc = "postscan" /\ op'.kind = op.kind
    BY <1>0, RegisterStep
  <1>2. PICK c \in Registries :
              /\ mem' = AdoptImport(mem, c) /\ op'.cand = c
              /\ \/ /\ Registrable(op.cand, op.o)
                    /\ \E out \in Outcomes : Kept(c, out, "managed")
                 \/ c = op.cand
    BY <1>0, RegisterStep
  <1>3. Ready /\ mem.sum.up /\ mem.gen # 0 /\ ~op.cand.unrec /\ op.cand.gen = mem.gen
    BY <1>1 DEF Catalog, Based, Importing
  <1>4. /\ mem'.idx = c.idx /\ mem'.own = c.own
        /\ mem'.gen = mem.gen /\ mem'.scan = mem.scan /\ mem'.cls = mem.cls /\ mem'.sum = mem.sum
        /\ Entries(mem) # Entries(c) => mem'.unrec
    BY <1>0, <1>2, AdoptImportFields
  <1>5. c.own = op.cand.own /\ c.unrec = op.cand.unrec /\ c.gen = op.cand.gen
    BY <1>2 DEF Kept, SameRest
  <1>6. Based' /\ Withdrawn'
    BY <1>1, <1>2, <1>3, <1>4, <1>5 DEF Based, Withdrawn, Scanning, Importing
  <1>7. CASE c = op.cand
    <2>1. c.sto # "down"
      BY <1>3, <1>7 DEF Ready
    <2>2. Numbered'
      BY <1>0, <1>1, <1>2, <1>3, <1>7, <2>1, ReadyAdopted
    <2> QED BY <1>6, <2>2 DEF Catalog
  <1>8. CASE c # op.cand
    <2>1. Registrable(op.cand, op.o) /\ c.idx = Entry("managed")
      BY <1>2, <1>8 DEF Kept
    <2>2. op.cand.idx[op.o] = "none"
      BY <1>1, <2>1 DEF Registrable
    <2>3. Entry("managed")[op.o] = "managed"
      BY <1>0, <1>1 DEF Entry, Index
    <2>4. /\ op.cand.own = "ok" /\ Fitting(op.cand) /\ Structure(mem) = Structure(op.cand)
          /\ ListedAs(op.cand.scan, IdOf[op.o]) = {} /\ op.cand.scan.p[op.o].at = "none"
      BY <1>3 DEF Ready
    <2>5. mem.idx = op.cand.idx /\ mem.own # "down" /\ mem.scan = op.cand.scan /\ mem.sum = op.cand.sum
      BY <2>4, StructureFitting, StructureFields
    <2>6. Entries(mem)[op.o] = "none" /\ Entries(c)[op.o] = "managed"
      BY <1>5, <2>1, <2>2, <2>3, <2>4, <2>5 DEF Entries
    <2>7. mem'.unrec
      BY <1>4, <2>6
    <2>8. Counts(Entry("managed"), op.cand.scan) # Counts(op.cand.idx, op.cand.scan)
      BY <1>0, <1>1, <2>2, <2>4, NewEntryCounts DEF Entry
    <2>9. ~Fitting(mem')
      BY <1>4, <2>1, <2>4, <2>5, <2>8 DEF Fitting
    <2>10. Numbered'
      BY <2>7, <2>9 DEF Numbered
    <2> QED BY <1>6, <2>10 DEF Catalog
  <1> QED BY <1>7, <1>8

LEMMA PostscanCatalog ==
  ASSUME Catalog, Books', Postscan
  PROVE  Catalog'
  <1>0. PluginsTypeOK
    BY DEF Catalog, Books, Files
  <1>1. /\ UNCHANGED <<mem, shown>> /\ op.pc = "postscan"
        /\ \/ op'.pc = "idle"
           \/ op'.pc = "load" /\ op'.kind = "published" /\ op'.base = op.cand /\ op'.cand = op.cand
    BY <1>0, PostscanStep
  <1>2. CASE op'.pc = "idle"
    BY <1>1, <1>2, QuietIdle
  <1>3. CASE op'.pc = "load" /\ op'.kind = "published" /\ op'.base = op.cand /\ op'.cand = op.cand
    <2>1. mem.sum.up /\ mem.gen # 0 /\ ~op.cand.unrec /\ op.cand.gen = mem.gen
      BY <1>1 DEF Catalog, Based, Importing
    <2>2. Based' /\ Withdrawn'
      BY <1>1, <1>3, <2>1 DEF Based, Withdrawn, Scanning, Importing
    <2> QED BY <1>1, <2>2, QuietCatalog
  <1> QED BY <1>1, <1>2, <1>3

LEMMA ImportedCatalog ==
  ASSUME Catalog, Books', Imported
  PROVE  Catalog'
  <1>0. PluginsTypeOK /\ mem \in Registries /\ mem.gen \in {0, 1, 2}
    BY DEF Catalog, Books, Files, PluginsTypeOK, Registries
  <1>1. op.pc = "apply" /\ op.kind = "published" /\ op'.pc = "idle"
    BY <1>0, ImportedStep
  <1>2. UNCHANGED <<mem, shown>> \/ \E t \in Stated : Shown(Renumbered(mem, Applied(t)))
    BY <1>0, ImportedStep
  <1>3. CASE UNCHANGED <<mem, shown>>
    BY <1>1, <1>3, QuietIdle
  <1>4. ASSUME NEW t \in Stated, Shown(Renumbered(mem, Applied(t))) PROVE Catalog'
    <2> DEFINE f == Applied(t)
               r == Renumbered(mem, f)
    <2>1. /\ f \in Registries /\ f.scan = op.scan
          /\ Readable(op.scan) /\ f.own = "ok" => Fitting(f)
          /\ ~(Readable(op.scan) /\ f.own = "ok") => f.sum = Down
      BY <1>0, AppliedFitting
    <2>2. mem' = r /\ shown' = IF r.gen # mem.gen THEN Structure(r) ELSE shown
      BY <1>4 DEF Shown
    <2> HIDE DEF f
    <2>3. /\ r.idx = f.idx /\ r.own = f.own /\ r.scan = f.scan /\ r.cls = f.cls /\ r.sum = f.sum /\ r.sto = f.sto
          /\ r.gen = IF Structure(f) # Structure(mem) THEN NextNumber(mem.gen) ELSE f.gen
      BY <1>0, <2>1, RenumberedFields
    <2> HIDE DEF r
    <2>4. Structure(r) = Structure(f)
      BY <2>3, SameStructure
    <2>5. Readable(r.scan) /\ r.own = "ok" => Fitting(r)
      BY <2>1, <2>3 DEF Fitting
    <2>6. CASE r.gen # mem.gen
      <3>1. Numbered'
        BY <2>2, <2>5, <2>6, ShownNumbered
      <3> QED BY <1>1, <3>1, IdleCatalog
    <2>7. CASE r.gen = mem.gen
      <3>1. Structure(f) = Structure(mem) /\ shown' = shown
        BY <1>0, <2>2, <2>3, <2>7 DEF NextNumber
      <3>2. mem.sum.up
        BY <1>1 DEF Catalog, Based, Importing
      <3>3. f.sum = mem.sum
        BY <3>1, StructureFields
      <3>4. Readable(op.scan) /\ f.own = "ok"
        BY <2>1, <3>2, <3>3, DownUnfit
      <3>5. Fitting(mem)
        BY <2>1, <3>1, <3>4, StructureFitting
      <3>6. Structure(mem) = shown
        BY <3>5 DEF Catalog, Numbered
      <3>7. Numbered'
        BY <2>2, <2>4, <2>5, <3>1, <3>6, ShownNumbered
      <3> QED BY <1>1, <3>7, IdleCatalog
    <2> QED BY <2>6, <2>7
  <1> QED BY <1>2, <1>3, <1>4
-----------------------------------------------------------------------------
LEMMA RemoveCatalog ==
  ASSUME Catalog, Books', NEW o \in Objs, Remove(o)
  PROVE  Catalog'
  <1>0. PluginsTypeOK
    BY DEF Catalog, Books, Files
  <1>1. /\ UNCHANGED <<mem, shown>> /\ Removable(o)
        /\ op'.pc = "off" /\ op'.kind = "removal" /\ op'.o = o /\ op'.base = mem /\ op'.cand = mem
    BY <1>0, RemoveStep
  <1>2. /\ ~mem.unrec /\ mem.gen # 0 /\ mem.sto # "down" /\ mem.own = "ok" /\ Readable(mem.scan)
        /\ mem.cls[SeenId(mem.scan, o)] = "managed" /\ Proves(mem.idx, mem.scan, o)
    BY <1>1 DEF Removable
  <1>3. SeenId(mem.scan, o) = IdOf[o]
    BY <1>2 DEF Proves, Matches, SeenId
  <1>4. Structure(mem) = shown /\ Fitting(mem)
    BY <1>2 DEF Catalog, Numbered
  <1>5. Proven'
    BY <1>1, <1>2, <1>3, <1>4 DEF Proven
  <1>6. Based' /\ Withdrawn'
    BY <1>1, <1>2, <1>5 DEF Based, Withdrawn, Scanning, Importing
  <1> QED BY <1>1, <1>6, QuietCatalog

\* A publication against the frozen baseline.
LEMMA PublishedOnce ==
  ASSUME Catalog, op.kind = "removal", NEW c \in Registries, c.own = "ok", c.gen = op.cand.gen, NEW s \in Photos,
         Readable(s), Shown(PublishOnce(op.base, Reconciled(c, s)))
  PROVE  Numbered'
  <1>0. PluginsTypeOK /\ mem.gen \in {0, 1, 2} /\ op.base \in Registries
    BY DEF Catalog, Books, Files, PluginsTypeOK, Ops, Registries
  <1>1. Proven
    BY DEF Catalog, Withdrawn
  <1>2. /\ op.base.gen = mem.gen /\ c.gen = mem.gen /\ Structure(op.base) = shown
    BY <1>1 DEF Proven
  <1> DEFINE n == Reconciled(c, s)
             r == PublishOnce(op.base, n)
  <1>3. /\ n \in Registries /\ n.idx = c.idx /\ n.gen = c.gen /\ n.scan = s
        /\ n.cls = Classes(Readable(s) /\ c.own = "ok", c.idx, s) /\ n.sum = Counts(c.idx, s)
    BY ReconciledFields
  <1>4. mem' = r /\ shown' = IF r.gen # mem.gen THEN Structure(r) ELSE shown
    BY DEF Shown
  <1> HIDE DEF n
  <1>5. (Readable(s) /\ c.own = "ok") = TRUE
    OBVIOUS
  <1>6. Fitting(n)
    BY <1>3, <1>5 DEF Fitting
  <1>7. /\ r.idx = n.idx /\ r.own = n.own /\ r.scan = n.scan /\ r.cls = n.cls /\ r.sum = n.sum /\ r.sto = n.sto
        /\ r.gen = IF Structure(n) # Structure(op.base) THEN NextNumber(op.base.gen) ELSE n.gen
    BY <1>0, <1>3, PublishOnceFields
  <1> HIDE DEF r
  <1>8. Structure(r) = Structure(n)
    BY <1>7, SameStructure
  <1>9. Fitting(r)
    BY <1>6, <1>7 DEF Fitting
  <1>10. NextNumber(mem.gen) # mem.gen
    BY <1>0 DEF NextNumber
  <1>11. Structure(r) = shown'
    BY <1>2, <1>3, <1>4, <1>7, <1>8, <1>10
  <1> QED BY <1>4, <1>9, <1>11, ShownNumbered

\* Memory takes the documents of a removal's candidate: the catalog is still the one
\* that is shown, or it does not fit any more and says so.
LEMMA RemovalAdopted ==
  ASSUME Catalog, op.kind = "removal", op.o \in Objs, NEW c \in Registries, c.own = "ok", c.sto # "down",
         mem' = AdoptRemoval(mem, c), UNCHANGED shown,
         (c.idx = op.base.idx /\ op.cand.idx = op.base.idx) \/ c.idx[op.o] # "managed"
  PROVE  /\ Numbered' /\ mem'.gen = mem.gen /\ mem'.scan = mem.scan /\ mem'.cls = mem.cls /\ mem'.sum = mem.sum
         /\ mem'.idx = c.idx /\ mem'.own = c.own /\ mem'.sto = c.sto
         /\ mem'.unrec \/ c.idx = op.base.idx
         /\ ~mem.unrec /\ c.idx = op.base.idx => ~mem'.unrec
  <1>0. PluginsTypeOK /\ mem \in Registries
    BY DEF Catalog, Books, Files, PluginsTypeOK
  <1>1. Proven /\ (mem.unrec \/ op.cand.idx = op.base.idx)
    BY DEF Catalog, Withdrawn
  <1>2. /\ Structure(op.base) = shown /\ op.base.own = "ok" /\ op.base.sto # "down"
        /\ Fitting(op.base) /\ Proves(op.base.idx, op.base.scan, op.o)
        /\ op.base.cls[IdOf[op.o]] = "managed" /\ mem.idx = op.cand.idx /\ mem.own = "ok"
        /\ mem.scan = op.base.scan /\ mem.cls = op.base.cls /\ mem.sum = op.base.sum
    BY <1>1 DEF Proven
  <1>3. /\ mem'.idx = c.idx /\ mem'.own = c.own /\ mem'.sto = c.sto
        /\ mem'.gen = mem.gen /\ mem'.scan = mem.scan /\ mem'.cls = mem.cls /\ mem'.sum = mem.sum
        /\ mem'.unrec = (mem.unrec \/ Entries(mem) # Entries(c))
    BY <1>0, AdoptRemovalFields
  <1>4. Entries(mem) = op.cand.idx /\ Entries(c) = c.idx
    BY <1>2 DEF Entries
  <1>5. mem.unrec \in BOOLEAN /\ mem'.unrec = (mem.unrec \/ op.cand.idx # c.idx)
    BY <1>0, <1>3, <1>4 DEF Registries
  <1>6. mem'.unrec \/ c.idx = op.base.idx
    BY <1>1, <1>5
  <1>7. c.idx = op.base.idx => Structure(mem') = shown /\ Fitting(mem')
    <2> SUFFICES ASSUME c.idx = op.base.idx PROVE Structure(mem') = shown /\ Fitting(mem')
      OBVIOUS
    <2>1. Structure(mem') = Structure(op.base)
      BY <1>2, <1>3 DEF Structure
    <2> QED BY <1>2, <1>3, <2>1 DEF Fitting
  <1>8. c.idx[op.o] # "managed" => ~Fitting(mem')
    <2> SUFFICES ASSUME c.idx[op.o] # "managed", Fitting(mem') PROVE FALSE
      OBVIOUS
    <2>1. Matches(op.base.scan, op.o)
      BY <1>2 DEF Proves
    <2>2. Classes(TRUE, c.idx, op.base.scan)[IdOf[op.o]] = "managed"
      BY <1>2, <1>3 DEF Fitting
    <2>3. c.idx[op.o] = "managed"
      BY <2>1, <2>2, ManagedNeedsEntry
    <2> QED BY <2>3
  <1>9. c.idx[op.o] # "managed" => mem'.unrec
    BY <1>2, <1>6 DEF Proves
  <1>10. Numbered'
    BY <1>7, <1>8, <1>9, ShownNumbered DEF Numbered
  <1>11. ~mem.unrec /\ c.idx = op.base.idx => ~mem'.unrec
    BY <1>1, <1>5
  <1> QED BY <1>3, <1>6, <1>10, <1>11

\* The removal goes on.
LEMMA ProvenStays ==
  ASSUME Proven, op'.kind = "removal", op'.o = op.o, op'.base = op.base, UNCHANGED shown,
         op'.cand.gen = op.cand.gen, op'.cand.sto # "down", mem'.idx = op'.cand.idx, mem'.own = "ok", mem'.sto # "down",
         mem'.gen = mem.gen, mem'.scan = mem.scan, mem'.cls = mem.cls, mem'.sum = mem.sum
  PROVE  Proven'
  BY DEF Proven

LEMMA SaveDisabledCatalog ==
  ASSUME Catalog, Books', SaveDisabled
  PROVE  Catalog'
  <1>0. PluginsTypeOK /\ op.base \in Registries /\ op.base.scan \in Photos /\ op.cand \in Registries
    BY DEF Catalog, Books, Files, PluginsTypeOK, Ops, Registries
  <1>1. op.pc = "off" /\ op.o \in Objs /\ op.kind = "removal"
    BY <1>0, SaveDisabledStep
  <1>2. PICK c \in Registries :
              /\ c.idx = op.cand.idx /\ c.own = op.cand.own /\ c.gen = op.cand.gen
              /\ c.sto \in {op.cand.sto, "ok"}
              /\ \/ op'.pc = "idle" /\ mem' = AdoptRemoval(mem, c) /\ UNCHANGED shown
                 \/ op'.pc = "idle" /\ Shown(PublishOnce(op.base, Reconciled(c, op.base.scan)))
                 \/ /\ op'.pc = "mark" /\ op'.kind = op.kind /\ op'.o = op.o /\ op'.base = op.base
                    /\ op'.cand = c /\ mem' = AdoptRemoval(mem, c) /\ UNCHANGED shown
    <2>1. PICK out \in Outcomes, c \in Registries :
              /\ c.idx = op.cand.idx /\ c.own = op.cand.own /\ c.gen = op.cand.gen
              /\ out = "failed" => c = op.cand
              /\ out # "failed" => c.sto = "ok"
              /\ \/ op'.pc = "idle" /\ mem' = AdoptRemoval(mem, c) /\ UNCHANGED shown
                 \/ op'.pc = "idle" /\ Shown(PublishOnce(op.base, Reconciled(c, op.base.scan)))
                 \/ /\ op'.pc = "mark" /\ op'.kind = op.kind /\ op'.o = op.o /\ op'.base = op.base
                    /\ op'.cand = c /\ mem' = AdoptRemoval(mem, c) /\ UNCHANGED shown
      BY <1>0, SaveDisabledStep
    <2> QED BY <2>1
  <1>3. Proven /\ ~mem.unrec /\ op.cand.idx = op.base.idx
    BY <1>1 DEF Catalog, Withdrawn
  <1>4. op.cand.own = "ok"
    BY <1>1 DEF Catalog, Books, Frozen
  <1>5. c.own = "ok" /\ c.sto # "down" /\ Readable(op.base.scan) /\ c.idx = op.base.idx
    BY <1>2, <1>3, <1>4 DEF Proven
  <1>6. CASE op'.pc = "idle" /\ mem' = AdoptRemoval(mem, c) /\ UNCHANGED shown
    <2>1. Numbered'
      BY <1>1, <1>3, <1>5, <1>6, RemovalAdopted
    <2> QED BY <1>6, <2>1, IdleCatalog
  <1>7. CASE op'.pc = "idle" /\ Shown(PublishOnce(op.base, Reconciled(c, op.base.scan)))
    <2>1. Numbered'
      BY <1>0, <1>1, <1>2, <1>5, <1>7, PublishedOnce
    <2> QED BY <1>7, <2>1, IdleCatalog
  <1>8. CASE /\ op'.pc = "mark" /\ op'.kind = op.kind /\ op'.o = op.o /\ op'.base = op.base
             /\ op'.cand = c /\ mem' = AdoptRemoval(mem, c) /\ UNCHANGED shown
    <2>1. /\ Numbered' /\ mem'.gen = mem.gen /\ mem'.scan = mem.scan /\ mem'.cls = mem.cls /\ mem'.sum = mem.sum
          /\ mem'.idx = c.idx /\ mem'.own = c.own /\ mem'.sto = c.sto /\ ~mem'.unrec
      BY <1>1, <1>3, <1>5, <1>8, RemovalAdopted
    <2>2. Proven'
      BY <1>1, <1>2, <1>3, <1>5, <1>8, <2>1, ProvenStays
    <2>3. Based' /\ Withdrawn'
      BY <1>1, <1>5, <1>8, <2>1, <2>2 DEF Based, Withdrawn, Scanning, Importing
    <2> QED BY <2>1, <2>3 DEF Catalog
  <1> QED BY <1>2, <1>6, <1>7, <1>8

LEMMA MarkRemovingCatalog ==
  ASSUME Catalog, Books', MarkRemoving
  PROVE  Catalog'
  <1>0. PluginsTypeOK /\ op.cand \in Registries /\ op.cand.idx \in Index
    BY DEF Catalog, Books, Files, PluginsTypeOK, Ops, Registries
  <1>1. /\ UNCHANGED shown /\ op.pc = "mark" /\ op.o \in Objs /\ op.kind = "removal"
        /\ op'.kind = op.kind /\ op'.o = op.o /\ op'.base = op.base
    BY <1>0, MarkRemovingStep
  <1>2. PICK out \in Outcomes, c \in Registries :
              /\ Kept(c, out, "removing") /\ mem' = AdoptRemoval(mem, c) /\ op'.cand = c
              /\ op'.pc = IF out = "durable" THEN "rename" ELSE "rollback"
    BY <1>0, MarkRemovingStep
  <1>3. Proven /\ ~mem.unrec /\ op.cand.idx = op.base.idx
    BY <1>1 DEF Catalog, Withdrawn
  <1>4. op.cand.own = "ok"
    BY <1>1 DEF Catalog, Books, Frozen
  <1>5. /\ c.own = "ok" /\ c.sto = op.cand.sto /\ c.gen = op.cand.gen
        /\ (out = "failed" => c = op.cand) /\ (out # "failed" => c.idx = Entry("removing"))
    BY <1>2, <1>4 DEF Kept, SameRest
  <1>6. Entry("removing")[op.o] = "removing"
    BY <1>0, <1>1 DEF Entry, Index
  <1>7. c.sto # "down"
    BY <1>3, <1>5 DEF Proven
  <1>8. (c.idx = op.base.idx /\ op.cand.idx = op.base.idx) \/ c.idx[op.o] # "managed"
    BY <1>3, <1>5, <1>6
  <1>9. /\ Numbered' /\ mem'.gen = mem.gen /\ mem'.scan = mem.scan /\ mem'.cls = mem.cls /\ mem'.sum = mem.sum
        /\ mem'.idx = c.idx /\ mem'.own = c.own /\ mem'.sto = c.sto /\ (mem'.unrec \/ c.idx = op.base.idx)
    BY <1>1, <1>2, <1>5, <1>7, <1>8, RemovalAdopted
  <1>10. Proven'
    BY <1>1, <1>2, <1>3, <1>5, <1>7, <1>9, ProvenStays
  <1>11. op'.pc \in {"rename", "rollback"} /\ (op'.pc = "rename" => c.idx[op.o] = "removing")
    BY <1>2, <1>5, <1>6
  <1>12. Based' /\ Withdrawn'
    BY <1>1, <1>2, <1>9, <1>10, <1>11 DEF Based, Withdrawn, Scanning, Importing
  <1> QED BY <1>9, <1>12 DEF Catalog

LEMMA FilesCatalog ==
  ASSUME Catalog, Books', Quarantine \/ Look \/ Delete
  PROVE  Catalog'
  <1>0. PluginsTypeOK
    BY DEF Catalog, Books, Files
  <1>1. /\ UNCHANGED <<mem, shown>> /\ op.pc \in {"rename", "look", "delete"} /\ op.kind = "removal"
        /\ op'.kind = op.kind /\ op'.o = op.o /\ op'.base = op.base /\ op'.cand = op.cand
        /\ op'.pc \in {"rollback", "look", "delete", "forget"}
    <2>1. CASE Quarantine
      BY <1>0, <2>1, QuarantineStep DEF SameOp
    <2>2. CASE Look
      BY <1>0, <2>2, LookStep
    <2>3. CASE Delete
      BY <1>0, <2>3, DeleteStep
    <2> QED BY <2>1, <2>2, <2>3
  <1>2. Proven'
    BY <1>1 DEF Catalog, Withdrawn, Proven
  <1>3. Based' /\ Withdrawn'
    BY <1>1, <1>2 DEF Catalog, Based, Withdrawn, Scanning, Importing
  <1> QED BY <1>1, <1>3, QuietCatalog

LEMMA ForgetCatalog ==
  ASSUME Catalog, Books', Forget
  PROVE  Catalog'
  <1>0. PluginsTypeOK /\ op.cand \in Registries /\ op.cand.idx \in Index
    BY DEF Catalog, Books, Files, PluginsTypeOK, Ops, Registries
  <1>1. /\ op.pc = "forget" /\ op.o \in Objs /\ op.kind = "removal" /\ op'.pc = "idle"
        /\ Observed \in Photos /\ Readable(Observed) = Readable(op.scan)
    BY <1>0, ForgetStep
  <1>2. PICK c \in Registries : Concluded(c) /\ (c = op.cand \/ \E out \in Outcomes : Kept(c, out, "none"))
    BY <1>0, ForgetStep
  <1>3. Proven /\ op.cand.idx[op.o] = "removing"
    BY <1>1 DEF Catalog, Withdrawn
  <1>4. op.cand.own = "ok"
    BY <1>1 DEF Catalog, Books, Frozen
  <1>5. Entry("none")[op.o] = "none"
    BY <1>0, <1>1 DEF Entry, Index
  <1>6. /\ c.own = "ok" /\ c.sto # "down" /\ c.gen = op.cand.gen /\ c.idx[op.o] # "managed"
    BY <1>2, <1>3, <1>4, <1>5 DEF Kept, SameRest, Proven
  <1>7. CASE Publishable /\ Shown(PublishOnce(op.base, Reconciled(c, Observed)))
    <2>1. Readable(Observed)
      BY <1>1, <1>7 DEF Publishable
    <2>2. Numbered'
      BY <1>1, <1>6, <1>7, <2>1, PublishedOnce
    <2> QED BY <1>1, <2>2, IdleCatalog
  <1>8. CASE mem' = AdoptRemoval(mem, c) /\ UNCHANGED shown
    <2>1. Numbered'
      BY <1>1, <1>6, <1>8, RemovalAdopted
    <2> QED BY <1>1, <2>1, IdleCatalog
  <1> QED BY <1>2, <1>7, <1>8 DEF Concluded

LEMMA RollbackCatalog ==
  ASSUME Catalog, Books', Rollback
  PROVE  Catalog'
  <1>0. PluginsTypeOK /\ op.base \in Registries /\ op.base.scan \in Photos
    BY DEF Catalog, Books, Files, PluginsTypeOK, Ops, Registries
  <1>1. op.pc = "rollback" /\ op.kind = "removal" /\ op'.pc = "idle"
    BY <1>0, RollbackStep
  <1>2. PICK out \in Outcomes, c \in Registries :
          Kept(c, out, "managed") /\ Shown(PublishOnce(op.base, Reconciled(c, op.base.scan)))
    BY <1>0, RollbackStep
  <1>3. Readable(op.base.scan)
    BY <1>1 DEF Catalog, Withdrawn, Proven
  <1>4. c.own = "ok" /\ c.gen = op.cand.gen
    BY <1>1, <1>2 DEF Kept, SameRest, Catalog, Books, Frozen
  <1>5. Numbered'
    BY <1>0, <1>1, <1>2, <1>3, <1>4, PublishedOnce
  <1> QED BY <1>1, <1>5, IdleCatalog

LEMMA StartedCatalog ==
  ASSUME Books', Started, op'.pc = "idle"
  PROVE  Catalog'
  <1>1. PICK x \in Indexed, t \in Stated : mem' = Booted(x, t) /\ shown' = Structure(mem')
    BY DEF Started
  <1>2. mem'.gen = 0 /\ ~mem'.unrec
    BY <1>1, BootedFields
  <1>3. Numbered'
    BY <1>1, <1>2 DEF Numbered
  <1> QED BY <1>3, IdleCatalog

LEMMA CatalogInit == PluginsInit => Catalog
  <1> SUFFICES ASSUME PluginsInit PROVE Catalog
    OBVIOUS
  <1>1. Books /\ PluginsTypeOK
    BY BooksInit DEF Books, Files
  <1>2. op = NoOp /\ mem = Booted(LoadIndex(disk.idx), LoadState(disk.st)) /\ shown = Structure(mem)
    BY DEF PluginsInit
  <1>3. LoadIndex(disk.idx) \in Indexed /\ LoadState(disk.st) \in Stated
    BY <1>1, LoadIndexFields, LoadStateFields DEF PluginsTypeOK, Disks
  <1>4. mem.gen = 0 /\ ~mem.unrec
    BY <1>2, <1>3, BootedFields
  <1>5. op.pc = "idle" /\ op.kind = "none"
    BY <1>2, NoOpFields
  <1> QED BY <1>1, <1>2, <1>4, <1>5 DEF Catalog, Numbered, Based, Withdrawn, Scanning, Importing

LEMMA CatalogNext == Catalog /\ [PluginsNext]_pluginVars => Catalog'
  <1> SUFFICES ASSUME Catalog, [PluginsNext]_pluginVars PROVE Catalog'
    OBVIOUS
  <1>0. Books' /\ PluginsTypeOK
    BY BooksNext DEF Catalog, Books, Files
  <1>1. CASE Reload
    <2>1. op.pc = "idle" /\ Scanned("reload", 0) /\ UNCHANGED <<disks, mem, told, shown>>
      BY <1>1 DEF Reload
    <2> QED BY <1>0, <2>1, ScannedCatalog
  <1>2. ASSUME NEW o \in Objs, Import(o) PROVE Catalog'
    <2>1. op.pc = "idle" /\ Scanned("import", o) /\ UNCHANGED <<disks, mem, told, shown>> /\ pkg[o].at = "new"
      BY <1>2 DEF Import, FirstUnused, Unused
    <2> QED BY <1>0, <2>1, ScannedCatalog
  <1>3. CASE LoadOwnership \/ RewriteOwnership \/ Converge
    BY <1>0, <1>3, LoadingCatalog
  <1>4. CASE Reloaded \/ RetryState \/ Prescanned \/ Imported
    BY <1>0, <1>4, ReloadedCatalog, RetryStateCatalog, PrescannedCatalog, ImportedCatalog
  <1>5. ASSUME NEW i \in Ids, NEW on \in BOOLEAN, SetEnabled(i, on) PROVE Catalog'
    BY <1>0, <1>5, SetEnabledCatalog
  <1>6. CASE Stage \/ Disable \/ Promote \/ Register \/ Postscan
    BY <1>0, <1>6, StageCatalog, DisableCatalog, PromoteCatalog, RegisterCatalog, PostscanCatalog
  <1>7. ASSUME NEW o \in Objs, Remove(o) PROVE Catalog'
    BY <1>0, <1>7, RemoveCatalog
  <1>8. CASE SaveDisabled \/ MarkRemoving \/ Quarantine \/ Look \/ Delete \/ Forget \/ Rollback
    BY <1>0, <1>8, SaveDisabledCatalog, MarkRemovingCatalog, FilesCatalog, ForgetCatalog, RollbackCatalog
  <1>9. CASE Tamper \/ Damage \/ UNCHANGED pluginVars
    <2>1. UNCHANGED <<mem, op, shown>>
      BY <1>0, <1>9, TamperStep, DamageStep DEF pluginVars
    <2>2. Based' /\ Withdrawn'
      BY <2>1 DEF Catalog, Based, Ready, Withdrawn, Proven, Scanning, Importing
    <2> QED BY <1>0, <2>1, <2>2, QuietCatalog
  <1>10. CASE Restart
    BY <1>0, <1>10, RestartStep, StartedCatalog
  <1>11. CASE PowerLoss
    BY <1>0, <1>11, PowerLossStep, StartedCatalog
  <1> QED BY <1>1, <1>2, <1>3, <1>4, <1>5, <1>6, <1>7, <1>8, <1>9, <1>10, <1>11 DEF PluginsNext
-----------------------------------------------------------------------------
\* Managed plugins, whatever fails, stops or loses power between two steps and whatever
\* the user does in the directories: memory never takes back what was saved, a package in
\* quarantine has its entry, an entry stands for a package promoted for good, an imported
\* package is enabled by a decision made since, and one catalog number stands for one
\* catalog (plugin/registry.rs, plugin/ownership.rs, plugin/runtime/import.rs, removal.rs).
THEOREM PluginsAreSafe == PluginsSpec => []PluginsSafe
  <1> DEFINE J == Choices /\ Catalog
  <1>1. PluginsInit => J
    BY ChoicesInit, CatalogInit
  <1>2. J /\ [PluginsNext]_pluginVars => J'
    BY ChoicesNext, CatalogNext
  <1>3. J => PluginsSafe
    BY ChoicesSuffice DEF Catalog, Numbered, PluginsSafe, OneNumberOneCatalog
  <1> HIDE DEF J
  <1> QED BY <1>1, <1>2, <1>3, PTL DEF PluginsSpec
=============================================================================
