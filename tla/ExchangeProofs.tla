--------------------------- MODULE ExchangeProofs ----------------------------
(***************************************************************************)
(* Proofs about what the exchange tells and how it is shown: ApiSession,    *)
(* for any set of credentials and of requests and any number of             *)
(* installations and recoveries, OrderStream, for any set of orders and any *)
(* number of sessions, restarts and failed saves, and ChartScreen, for any  *)
(* charts, candles, jobs and saves.                                         *)
(***************************************************************************)
EXTENDS ApiSession, OrderStream, ChartScreen, FiniteSetTheorems, SequenceTheorems,
        WellFoundedInduction, TLAPS

\* The signer and the session change together, and an owner is drawn once: a
\* request of an earlier installation has a smaller one.
Installation ==
    /\ signer = installed.fp
    /\ installed # None => installed.fp # "none"
    /\ installed.owner <= owners
    /\ \A r \in Requests : request[r].step \in {"captured", "sent"} =>
                               request[r].session.owner <= owners

\* A request that is answered in the installation it was sent in was signed
\* there too: another signer is another installation.
SignedInSession ==
    \A r \in Requests :
        request[r].step = "sent" /\ installed # None /\ request[r].session.owner = installed.owner
            => request[r].signed = installed.fp

\* The token of a notice was given up, or is the one that is remembered.
Known(f, t) ==
    /\ f # "none"
    /\ \/ remembered.fp = f /\ remembered.token = t
       \/ [fp |-> f, token |-> t] \in recovered \cup forgotten

Observed ==
    \A r \in Requests : request[r].step = "observe" =>
        /\ request[r].session.owner = request[r].session.token
        /\ request[r].signed = request[r].session.fp
        /\ Known(request[r].session.fp, request[r].session.token)

Announced ==
    /\ \A a \in alarms : Known(a.fp, a.token)
    /\ \A a, b \in alarms : a.token = b.token => a = b
    /\ IsFiniteSet(recovered) /\ IsFiniteSet(forgotten)

IInv ==
    /\ TypeOK /\ Remembered /\ Installation /\ SignedInSession
    /\ Observed /\ Announced /\ NoStaleAlarm
-----------------------------------------------------------------------------

\* The notices of a credential go into the tokens it gave up and the one it has.
LEMMA Counting == TypeOK /\ Announced => OneAlarmPerOutage
  <1> SUFFICES ASSUME TypeOK, Announced, NEW c \in Credentials
               PROVE  Cardinality({a \in alarms : a.fp = c})
                        <= 1 + Cardinality({x \in recovered : x.fp = c})
                             + Cardinality({x \in forgotten : x.fp = c})
    BY DEF OneAlarmPerOutage
  <1> DEFINE Noticed == {a \in alarms : a.fp = c}
             R == {x \in recovered : x.fp = c}
             F == {x \in forgotten : x.fp = c}
             last == [fp |-> remembered.fp, token |-> remembered.token]
             f == [a \in Noticed |-> [fp |-> a.fp, token |-> a.token]]
  <1>1. IsFiniteSet(R) /\ IsFiniteSet(F)
    BY FS_Subset DEF Announced
  <1>2. /\ IsFiniteSet(R \cup F)
        /\ Cardinality(R \cup F) <= Cardinality(R) + Cardinality(F)
    <2>1. IsFiniteSet(R \cap F)
      BY <1>1, FS_Subset
    <2> HIDE DEF R, F
    <2>2. /\ Cardinality(R) \in Nat /\ Cardinality(F) \in Nat /\ Cardinality(R \cap F) \in Nat
      BY <1>1, <2>1, FS_CardinalityType
    <2>3. /\ IsFiniteSet(R \cup F)
          /\ Cardinality(R \cup F) = Cardinality(R) + Cardinality(F) - Cardinality(R \cap F)
      BY <1>1, FS_Union, Zenon
    <2> QED BY <2>2, <2>3
  <1>3. /\ IsFiniteSet((R \cup F) \cup {last})
        /\ Cardinality((R \cup F) \cup {last}) <= 1 + Cardinality(R) + Cardinality(F)
    <2> HIDE DEF R, F, last
    <2>1. /\ Cardinality(R) \in Nat /\ Cardinality(F) \in Nat /\ Cardinality(R \cup F) \in Nat
      BY <1>1, <1>2, FS_CardinalityType
    <2>2. /\ IsFiniteSet((R \cup F) \cup {last})
          /\ Cardinality((R \cup F) \cup {last}) =
               IF last \in R \cup F THEN Cardinality(R \cup F) ELSE Cardinality(R \cup F) + 1
      BY <1>2, FS_AddElement, Zenon
    <2> QED BY <1>2, <2>1, <2>2
  <1>4. f \in Injection(Noticed, (R \cup F) \cup {last})
    <2>1. ASSUME NEW a \in Noticed
          PROVE  f[a] \in (R \cup F) \cup {last}
      <3>1. Known(a.fp, a.token) /\ a.fp = c
        BY DEF Announced
      <3>2. CASE remembered.fp = a.fp /\ remembered.token = a.token
        BY <3>2
      <3>3. CASE [fp |-> a.fp, token |-> a.token] \in recovered \cup forgotten
        BY <3>1, <3>3
      <3> QED BY <3>1, <3>2, <3>3 DEF Known
    <2>2. ASSUME NEW a \in Noticed, NEW b \in Noticed, f[a] = f[b]
          PROVE  a = b
      <3>1. a.token = b.token
        BY <2>2
      <3> QED BY <3>1 DEF Announced
    <2>3. f \in [Noticed -> (R \cup F) \cup {last}]
      BY <2>1
    <2> HIDE DEF f, Noticed, R, F, last
    <2> QED BY <2>2, <2>3 DEF Injection, IsInjective
  <1>5. IsFiniteSet(Noticed) /\ Cardinality(Noticed) <= Cardinality((R \cup F) \cup {last})
    <2> HIDE DEF f, Noticed, R, F, last
    <2> QED BY <1>3, <1>4, FS_Injection
  <1>6. /\ Cardinality(Noticed) \in Nat /\ Cardinality((R \cup F) \cup {last}) \in Nat
        /\ Cardinality(R) \in Nat /\ Cardinality(F) \in Nat
    <2> HIDE DEF f, Noticed, R, F, last
    <2> QED BY <1>1, <1>3, <1>5, FS_CardinalityType
  <1>7. Cardinality(Noticed) <= 1 + Cardinality(R) + Cardinality(F)
    <2> HIDE DEF f, Noticed, R, F, last
    <2> QED BY <1>3, <1>5, <1>6
  <1> QED BY <1>7
-----------------------------------------------------------------------------
LEMMA Types ==
    /\ None \in Session /\ None.fp = "none"
    /\ NoRequest \in [step : {"idle", "captured", "sent", "observe"},
                      session : Session, signed : Fingerprint, retried : BOOLEAN]
    /\ NoRequest.step = "idle" /\ NoRequest.session = None
    /\ NoRequest.signed = "none" /\ NoRequest.retried = FALSE
  BY DEF None, NoRequest, Session, Fingerprint

LEMMA InitInv == Init => IInv
  <1> SUFFICES ASSUME Init PROVE IInv
    OBVIOUS
  <1>1. /\ installed = None /\ signer = "none" /\ remembered = Forgotten
        /\ request = [r \in Requests |-> NoRequest]
        /\ epoch = 1 /\ owners = 0 /\ alarms = {} /\ recovered = {} /\ forgotten = {}
    BY DEF Init
  <1>2. TypeOK
    BY <1>1, Types, OwnerAssumption DEF TypeOK, Forgotten, Fingerprint
  <1>3. \A r \in Requests : request[r].step = "idle"
    BY <1>1, Types
  <1>4. Remembered /\ SignedInSession /\ Observed /\ NoStaleAlarm
    BY <1>1, <1>3 DEF Remembered, SignedInSession, Observed, NoStaleAlarm
  <1>5. Installation
    BY <1>1, <1>3 DEF Installation, None
  <1>6. Announced
    BY <1>1, FS_EmptySet DEF Announced
  <1> QED BY <1>2, <1>4, <1>5, <1>6 DEF IInv
-----------------------------------------------------------------------------
\* The steps that change only one request, and let it end or send it.
LEMMA RequestOnly ==
  ASSUME IInv, UNCHANGED <<installed, signer, remembered, epoch, owners, alarms, recovered, forgotten>>,
         NEW r \in Requests, NEW q,
         request' = [request EXCEPT ![r] = q],
         q \in [step : {"idle", "captured", "sent", "observe"},
                session : Session, signed : Fingerprint, retried : BOOLEAN],
         q.step # "observe",
         q.step \in {"captured", "sent"} => q.session.owner <= owners,
         q.step = "sent" /\ installed # None /\ q.session.owner = installed.owner
             => q.signed = installed.fp
  PROVE  IInv'
  <1>1. TypeOK /\ Remembered /\ Installation /\ SignedInSession /\ Observed /\ Announced /\ NoStaleAlarm
    BY DEF IInv
  <1>2. request'[r] = q /\ \A s \in Requests \ {r} : request'[s] = request[s]
    BY <1>1 DEF TypeOK
  <1>3. TypeOK'
    BY <1>1 DEF TypeOK
  <1>4. Remembered' /\ Announced' /\ NoStaleAlarm'
    BY <1>1 DEF Remembered, Announced, NoStaleAlarm, Known
  <1>5. Installation'
    BY <1>1, <1>2 DEF Installation
  <1>6. SignedInSession'
    BY <1>1, <1>2 DEF SignedInSession
  <1>7. Observed'
    BY <1>1, <1>2 DEF Observed, Known
  <1> QED BY <1>3, <1>4, <1>5, <1>6, <1>7 DEF IInv

LEMMA InstallInv ==
  ASSUME IInv, NEW c \in Credentials, NEW e \in Nat, Install(c, e)
  PROVE  IInv'
  <1>0. TypeOK /\ Remembered /\ Installation /\ SignedInSession /\ Observed /\ Announced /\ NoStaleAlarm
    BY DEF IInv
  <1> DEFINE same == remembered.fp = c
             token == IF same THEN remembered.token ELSE Draw + 1
             rearm == same /\ remembered.rearm
             installation == [fp |-> c, owner |-> Draw, token |-> token, rearm |-> rearm, epoch |-> e]
             dropped == [fp |-> remembered.fp, token |-> remembered.token]
  <1>1. /\ owners + 2 <= MaxOwners /\ owners' = owners + 2 /\ epoch' = e /\ signer' = c
        /\ request' = request /\ alarms' = alarms /\ recovered' = recovered
        /\ installed' = installation
        /\ remembered' = [fp |-> c, token |-> token, rearm |-> rearm]
        /\ forgotten' = IF same \/ remembered.fp = "none" THEN forgotten
                        ELSE forgotten \cup {dropped}
    BY DEF Install
  <1>2. /\ owners \in Nat /\ Draw = owners + 1 /\ token \in Nat /\ rearm \in BOOLEAN
        /\ c \in Fingerprint /\ c # "none" /\ dropped \in Given
    BY <1>0, OwnerAssumption, CredentialAssumption DEF TypeOK, Draw, Fingerprint, Given
  <1> HIDE DEF rearm, token
  <1>3. installation \in Session /\ installation.fp = c /\ installation.owner = owners + 1 /\ installation # None
        /\ installation.token = token /\ installation.rearm = rearm
    BY <1>2 DEF Session, None
  <1>4. remembered'.fp = c /\ remembered'.token = token /\ remembered'.rearm = rearm
    BY <1>1
  <1> HIDE DEF installation
  <1>5. TypeOK'
    <2>1. forgotten' \subseteq Given
      BY <1>0, <1>1, <1>2 DEF TypeOK
    <2>2. remembered' \in [fp : Fingerprint, token : Nat, rearm : BOOLEAN]
      BY <1>1, <1>2
    <2>3. owners' \in 0 .. MaxOwners
      BY <1>1, <1>2, OwnerAssumption
    <2> QED BY <1>0, <1>1, <1>2, <1>3, <2>1, <2>2, <2>3 DEF TypeOK
  <1>6. Remembered'
    BY <1>1, <1>3, <1>4 DEF Remembered
  <1>7. Installation'
    <2>1. \A r \in Requests : request[r].session.owner \in Nat
      BY <1>0 DEF TypeOK, Session
    <2> QED BY <1>0, <1>1, <1>2, <1>3, <2>1 DEF Installation
  <1>8. SignedInSession'
    <2>1. \A r \in Requests : request[r].session.owner \in Nat
      BY <1>0 DEF TypeOK, Session
    <2> QED BY <1>0, <1>1, <1>2, <1>3, <2>1 DEF SignedInSession, Installation
  <1>9. ASSUME NEW f, NEW t, Known(f, t)
        PROVE  Known(f, t)'
    <2>1. forgotten \subseteq forgotten'
      BY <1>1
    <2>2. CASE same
      <3>1. token = remembered.token
        BY <2>2 DEF token
      <3> QED BY <1>1, <1>4, <1>9, <2>1, <2>2, <3>1 DEF Known
    <2>3. CASE ~same /\ remembered.fp # "none"
      <3>1. dropped \in forgotten'
        BY <1>1, <2>3
      <3> QED BY <1>1, <1>9, <2>1, <3>1 DEF Known
    <2>4. CASE remembered.fp = "none"
      <3>1. f # "none" /\ remembered.fp # f
        BY <1>9, <2>4 DEF Known
      <3> QED BY <1>1, <1>9, <2>1, <3>1 DEF Known
    <2> QED BY <2>2, <2>3, <2>4
  <1>10. Observed'
    BY <1>0, <1>1, <1>9 DEF Observed
  <1>11. Announced'
    <2>1. IsFiniteSet(forgotten')
      BY <1>0, <1>1, FS_AddElement DEF Announced
    <2> QED BY <1>0, <1>1, <1>9, <2>1 DEF Announced
  <1>12. NoStaleAlarm'
    BY <1>0, <1>1 DEF NoStaleAlarm
  <1> QED BY <1>5, <1>6, <1>7, <1>8, <1>10, <1>11, <1>12 DEF IInv

LEMMA ClearInv == ASSUME IInv, Clear PROVE IInv'
  <1>0. TypeOK /\ Remembered /\ Installation /\ SignedInSession /\ Observed /\ Announced /\ NoStaleAlarm
    BY DEF IInv
  <1>1. /\ installed' = None /\ signer' = "none"
        /\ UNCHANGED <<remembered, request, epoch, owners, alarms, recovered, forgotten>>
    BY DEF Clear
  <1>2. TypeOK'
    BY <1>0, <1>1, Types DEF TypeOK, Fingerprint
  <1>3. Remembered' /\ SignedInSession' /\ NoStaleAlarm'
    BY <1>0, <1>1 DEF Remembered, SignedInSession, NoStaleAlarm
  <1>4. Installation'
    BY <1>0, <1>1, OwnerAssumption DEF Installation, None, TypeOK
  <1>5. Observed' /\ Announced'
    BY <1>0, <1>1 DEF Observed, Announced, Known
  <1> QED BY <1>2, <1>3, <1>4, <1>5 DEF IInv

LEMMA SendInv ==
  ASSUME IInv, NEW r \in Requests,
         Capture(r) \/ Sign(r) \/ AnswerStale(r) \/ AnswerLost(r)
  PROVE  IInv'
  <1>0. TypeOK /\ Installation
    BY DEF IInv
  <1> DEFINE Request == [step : {"idle", "captured", "sent", "observe"},
                         session : Session, signed : Fingerprint, retried : BOOLEAN]
  <1>1. /\ request[r] \in Request /\ installed \in Session /\ installed.owner <= owners
        /\ signer \in Fingerprint /\ signer = installed.fp
    BY <1>0 DEF TypeOK, Installation
  <1>2. UNCHANGED <<installed, signer, remembered, epoch, owners, alarms, recovered, forgotten>>
    BY DEF Capture, Sign, AnswerStale, AnswerLost
  <1>3. CASE request' = [request EXCEPT ![r] = NoRequest]
    BY <1>2, <1>3, Types, RequestOnly
  <1>4. CASE Capture(r)
    <2> DEFINE q == [NoRequest EXCEPT !.step = "captured", !.session = installed]
    <2>1. request' = [request EXCEPT ![r] = q]
      BY <1>4 DEF Capture
    <2>2. q \in Request /\ q.step = "captured" /\ q.session = installed
      BY <1>1, Types
    <2> HIDE DEF q
    <2> QED BY <1>1, <1>2, <2>1, <2>2, RequestOnly
  <1>5. CASE Sign(r) /\ signer # "none"
    <2> DEFINE q == [request[r] EXCEPT !.step = "sent", !.signed = signer]
    <2>1. request' = [request EXCEPT ![r] = q] /\ request[r].step = "captured"
      BY <1>5 DEF Sign
    <2>2. q \in Request /\ q.step = "sent" /\ q.session = request[r].session /\ q.signed = installed.fp
      BY <1>1
    <2>3. q.session.owner <= owners
      BY <1>0, <2>1, <2>2 DEF Installation
    <2> HIDE DEF q
    <2> QED BY <1>2, <2>1, <2>2, <2>3, RequestOnly
  <1>6. CASE AnswerStale(r) /\ ~(request[r].retried \/ signer = "none")
    <2> DEFINE q == [request[r] EXCEPT !.step = "captured", !.retried = TRUE, !.session = installed]
    <2>1. request' = [request EXCEPT ![r] = q]
      BY <1>6 DEF AnswerStale
    <2>2. q \in Request /\ q.step = "captured" /\ q.session = installed
      BY <1>1
    <2> HIDE DEF q
    <2> QED BY <1>1, <1>2, <2>1, <2>2, RequestOnly
  <1>7. CASE Sign(r) /\ signer = "none"
    BY <1>3, <1>7 DEF Sign
  <1>8. CASE AnswerStale(r) /\ (request[r].retried \/ signer = "none")
    BY <1>3, <1>8 DEF AnswerStale
  <1>9. CASE AnswerLost(r)
    BY <1>3, <1>9 DEF AnswerLost
  <1> QED BY <1>4, <1>5, <1>6, <1>7, <1>8, <1>9

LEMMA ExpiredInv ==
  ASSUME IInv, NEW r \in Requests, AnswerExpired(r)
  PROVE  IInv'
  <1>0. TypeOK /\ Remembered /\ Installation /\ SignedInSession /\ Observed /\ Announced /\ NoStaleAlarm
    BY DEF IInv
  <1>1. CASE ~Owns(installed, request[r].session)
    <2>1. request' = [request EXCEPT ![r] = NoRequest]
      BY <1>1 DEF AnswerExpired
    <2>2. UNCHANGED <<installed, signer, remembered, epoch, owners, alarms, recovered, forgotten>>
      BY <1>1 DEF AnswerExpired
    <2> QED BY <2>1, <2>2, Types, RequestOnly
  <1>2. CASE Owns(installed, request[r].session)
    <2> DEFINE s == request[r].session
               told == [installed EXCEPT !.owner = s.token]
               marked == [installed EXCEPT !.rearm = TRUE]
               q == [request[r] EXCEPT !.step = "observe", !.session = told]
    <2>1. /\ request[r].step = "sent" /\ installed' = marked
          /\ remembered' = [fp |-> installed.fp, token |-> installed.token, rearm |-> TRUE]
          /\ request' = [request EXCEPT ![r].step = "observe", ![r].session = told]
          /\ UNCHANGED <<signer, epoch, owners, alarms, recovered, forgotten>>
      BY <1>2 DEF AnswerExpired
    <2>2. /\ installed \in Session /\ s \in Session /\ installed # None
          /\ installed.owner = s.owner /\ installed.token = s.token
          /\ installed.fp # "none"
      BY <1>0, <1>2 DEF TypeOK, Owns, Installation
    <2>3. /\ told \in Session /\ told.owner = installed.token /\ told.token = installed.token
          /\ told.fp = installed.fp
      BY <2>2 DEF Session
    <2>4. /\ marked \in Session /\ marked.owner = installed.owner /\ marked.token = installed.token
          /\ marked.fp = installed.fp /\ marked.rearm = TRUE /\ marked # None
      BY <2>2 DEF Session, None
    <2>5. request' = [request EXCEPT ![r] = q]
      BY <1>0, <2>1 DEF TypeOK
    <2> HIDE DEF told, marked
    <2>6. /\ q \in [step : {"idle", "captured", "sent", "observe"},
                    session : Session, signed : Fingerprint, retried : BOOLEAN]
          /\ q.step = "observe" /\ q.session = told /\ q.signed = request[r].signed
      BY <1>0, <2>3 DEF TypeOK
    <2> HIDE DEF q
    <2>7. request'[r] = q /\ \A x \in Requests \ {r} : request'[x] = request[x]
      BY <1>0, <2>5 DEF TypeOK
    <2>8. remembered.fp = installed.fp /\ remembered.token = installed.token
      BY <1>0, <2>2 DEF Remembered
    <2>9. /\ remembered'.fp = installed.fp /\ remembered'.token = installed.token
          /\ remembered'.rearm = TRUE
          /\ remembered' \in [fp : Fingerprint, token : Nat, rearm : BOOLEAN]
      BY <2>1, <2>2 DEF Session
    <2>10. TypeOK'
      BY <1>0, <2>1, <2>4, <2>5, <2>6, <2>9, ZenonT(60) DEF TypeOK
    <2>11. Remembered'
      BY <2>1, <2>4, <2>9 DEF Remembered
    <2>12. Installation'
      BY <1>0, <2>1, <2>2, <2>4, <2>6, <2>7, ZenonT(60) DEF Installation
    <2>13. SignedInSession'
      <3> SUFFICES ASSUME NEW x \in Requests, request'[x].step = "sent",
                          request'[x].session.owner = installed'.owner
                   PROVE  request'[x].signed = installed'.fp
        BY DEF SignedInSession
      <3>1. request'[x] = request[x]
        BY <2>6, <2>7
      <3> QED BY <1>0, <2>1, <2>2, <2>4, <3>1 DEF SignedInSession
    <2>14. \A f, t : Known(f, t) => Known(f, t)'
      BY <2>1, <2>8, <2>9 DEF Known
    <2>15. /\ told.fp # "none" /\ remembered'.fp = told.fp /\ remembered'.token = told.token
           /\ request[r].signed = told.fp
      BY <1>0, <2>1, <2>2, <2>3, <2>9 DEF SignedInSession
    <2>16. Observed'
      <3> SUFFICES ASSUME NEW x \in Requests, request'[x].step = "observe"
                   PROVE  /\ request'[x].session.owner = request'[x].session.token
                          /\ request'[x].signed = request'[x].session.fp
                          /\ Known(request[x].session.fp, request[x].session.token)'
        BY DEF Observed
      <3>1. CASE x = r
        BY <2>3, <2>6, <2>7, <2>15, <3>1 DEF Known
      <3>2. CASE x # r
        <4>1. request'[x] = request[x]
          BY <2>7, <3>2
        <4> QED BY <1>0, <2>1, <2>8, <2>9, <4>1, ZenonT(60) DEF Observed, Known
      <3> QED BY <3>1, <3>2
    <2>17. Announced' /\ NoStaleAlarm'
      BY <1>0, <2>1, <2>14 DEF Announced, NoStaleAlarm
    <2> QED BY <2>10, <2>11, <2>12, <2>13, <2>16, <2>17 DEF IInv
  <1> QED BY <1>1, <1>2

LEMMA ObserveInv ==
  ASSUME IInv, NEW r \in Requests, Observe(r)
  PROVE  IInv'
  <1>0. TypeOK /\ Remembered /\ Installation /\ SignedInSession /\ Observed /\ Announced /\ NoStaleAlarm
    BY DEF IInv
  <1> DEFINE s == request[r].session
             notice == [fp |-> s.fp, token |-> s.token, signed |-> request[r].signed,
                        sent |-> s.owner, epoch |-> s.epoch]
  <1>1. /\ request[r].step = "observe" /\ request' = [request EXCEPT ![r] = NoRequest]
        /\ UNCHANGED <<installed, signer, remembered, epoch, owners, recovered, forgotten>>
        /\ \/ alarms' = alarms
           \/ alarms' = alarms \cup {notice} /\ ~\E a \in alarms : a.token = s.token
    BY DEF Observe
  <1>2. request'[r] = NoRequest /\ \A x \in Requests \ {r} : request'[x] = request[x]
    BY <1>0, <1>1 DEF TypeOK
  <1>3. /\ notice \in [fp : Fingerprint, token : Nat, signed : Fingerprint, sent : Nat, epoch : Nat]
        /\ notice.fp = s.fp /\ notice.token = s.token /\ notice.signed = s.fp /\ notice.sent = s.token
    BY <1>0, <1>1 DEF TypeOK, Session, Observed
  <1>4. Known(s.fp, s.token)
    BY <1>0, <1>1 DEF Observed
  <1> HIDE DEF notice
  <1>5. TypeOK'
    <2>1. request' \in [Requests -> [step : {"idle", "captured", "sent", "observe"},
                                     session : Session, signed : Fingerprint, retried : BOOLEAN]]
      BY <1>0, <1>1, Types DEF TypeOK
    <2> QED BY <1>0, <1>1, <1>3, <2>1 DEF TypeOK
  <1>6. Remembered'
    BY <1>0, <1>1 DEF Remembered
  <1>7. Installation' /\ SignedInSession'
    BY <1>0, <1>1, <1>2, Types DEF Installation, SignedInSession
  <1>8. Observed'
    BY <1>0, <1>1, <1>2, Types DEF Observed, Known
  <1>9. Announced'
    <2>1. \A a \in alarms' : a \in alarms \/ a = notice
      BY <1>1
    <2>2. ASSUME NEW a \in alarms' PROVE Known(a.fp, a.token)'
      BY <1>0, <1>1, <1>3, <1>4, <2>1 DEF Announced, Known
    <2>3. ASSUME NEW a \in alarms', NEW b \in alarms', a.token = b.token
          PROVE  a = b
      BY <1>0, <1>1, <1>3, <2>3 DEF Announced
    <2> QED BY <1>0, <1>1, <2>2, <2>3 DEF Announced
  <1>10. NoStaleAlarm'
    BY <1>0, <1>1, <1>3 DEF NoStaleAlarm
  <1> QED BY <1>5, <1>6, <1>7, <1>8, <1>9, <1>10 DEF IInv

LEMMA OkInv ==
  ASSUME IInv, NEW r \in Requests, AnswerOk(r)
  PROVE  IInv'
  <1>0. TypeOK /\ Remembered /\ Installation /\ SignedInSession /\ Observed /\ Announced /\ NoStaleAlarm
    BY DEF IInv
  <1>1. CASE ~(Owns(installed, request[r].session) /\ installed.rearm)
    <2>1. request' = [request EXCEPT ![r] = NoRequest]
      BY <1>1 DEF AnswerOk
    <2>2. UNCHANGED <<installed, signer, remembered, epoch, owners, alarms, recovered, forgotten>>
      BY <1>1 DEF AnswerOk
    <2> QED BY <2>1, <2>2, Types, RequestOnly
  <1>2. CASE Owns(installed, request[r].session) /\ installed.rearm
    <2> DEFINE working == [installed EXCEPT !.token = Draw, !.rearm = FALSE]
               spent == [fp |-> installed.fp, token |-> installed.token]
    <2>1. /\ owners < MaxOwners /\ owners' = owners + 1 /\ installed' = working
          /\ remembered' = [fp |-> installed.fp, token |-> owners + 1, rearm |-> FALSE]
          /\ recovered' = recovered \cup {spent}
          /\ request' = [request EXCEPT ![r] = NoRequest]
          /\ UNCHANGED <<signer, epoch, alarms, forgotten>>
      BY <1>2 DEF AnswerOk, Draw
    <2>2. /\ installed \in Session /\ installed # None /\ installed.fp # "none" /\ owners \in Nat
      BY <1>0, <1>2, OwnerAssumption DEF TypeOK, Owns, Installation
    <2>3. /\ working \in Session /\ working.owner = installed.owner /\ working.token = owners + 1
          /\ working.fp = installed.fp /\ working.rearm = FALSE /\ spent \in Given
      <3>1. spent \in Given
        BY <2>2 DEF Session, Given
      <3>2. Draw = owners + 1 /\ Draw \in Nat
        BY <2>2 DEF Draw
      <3>3. working \in Session
        BY <2>2, <3>2 DEF Session
      <3>4. /\ working.owner = installed.owner /\ working.token = Draw
            /\ working.fp = installed.fp /\ working.rearm = FALSE
        BY <2>2 DEF Session
      <3> QED BY <3>1, <3>2, <3>3, <3>4
    <2> HIDE DEF working, spent
    <2>4. request'[r] = NoRequest /\ \A x \in Requests \ {r} : request'[x] = request[x]
      BY <1>0, <2>1 DEF TypeOK
    <2>5. /\ remembered'.fp = installed.fp /\ remembered'.token = owners + 1
          /\ remembered'.rearm = FALSE
          /\ remembered' \in [fp : Fingerprint, token : Nat, rearm : BOOLEAN]
      BY <2>1, <2>2 DEF Session
    <2>6. spent = [fp |-> remembered.fp, token |-> remembered.token]
      BY <1>0, <2>2 DEF Remembered, spent
    <2>7. TypeOK'
      <3>1. request' \in [Requests -> [step : {"idle", "captured", "sent", "observe"},
                                       session : Session, signed : Fingerprint, retried : BOOLEAN]]
        BY <1>0, <2>1, Types DEF TypeOK
      <3>2. owners' \in 0 .. MaxOwners
        BY <2>1, <2>2, OwnerAssumption
      <3> QED BY <1>0, <2>1, <2>3, <2>5, <3>1, <3>2 DEF TypeOK
    <2>8. Remembered'
      BY <2>1, <2>3, <2>5 DEF Remembered
    <2>9. Installation'
      <3>1. installed.owner \in Nat /\ \A x \in Requests : request[x].session.owner \in Nat
        BY <1>0 DEF TypeOK, Session
      <3> QED BY <1>0, <2>1, <2>2, <2>3, <2>4, <3>1, Types DEF Installation
    <2>10. SignedInSession'
      BY <1>0, <2>1, <2>2, <2>3, <2>4, Types DEF SignedInSession
    <2>11. ASSUME NEW f, NEW t, Known(f, t)
           PROVE  Known(f, t)'
      BY <2>1, <2>6, <2>11 DEF Known
    <2>12. Observed'
      <3> SUFFICES ASSUME NEW x \in Requests, request'[x].step = "observe"
                   PROVE  /\ request'[x].session.owner = request'[x].session.token
                          /\ request'[x].signed = request'[x].session.fp
                          /\ Known(request[x].session.fp, request[x].session.token)'
        BY DEF Observed
      <3>1. request'[x] = request[x]
        BY <2>4, Types
      <3> QED BY <1>0, <2>1, <2>6, <3>1 DEF Observed, Known
    <2>13. Announced'
      <3>1. IsFiniteSet(recovered')
        BY <1>0, <2>1, FS_AddElement DEF Announced
      <3> QED BY <1>0, <2>1, <2>11, <3>1 DEF Announced
    <2>14. NoStaleAlarm'
      BY <1>0, <2>1 DEF NoStaleAlarm
    <2> QED BY <2>7, <2>8, <2>9, <2>10, <2>12, <2>13, <2>14 DEF IInv
  <1> QED BY <1>1, <1>2
-----------------------------------------------------------------------------
LEMMA NextInv == IInv /\ [Next]_vars => IInv'
  <1> SUFFICES ASSUME IInv, [Next]_vars PROVE IInv'
    OBVIOUS
  <1>1. ASSUME NEW c \in Credentials, NEW e \in {epoch, epoch + 1}, Install(c, e)
        PROVE  IInv'
    <2>1. e \in Nat
      BY DEF IInv, TypeOK
    <2> QED BY <1>1, <2>1, InstallInv
  <1>2. CASE Clear
    BY <1>2, ClearInv
  <1>3. ASSUME NEW r \in Requests,
               \/ Capture(r) \/ Sign(r) \/ AnswerStale(r) \/ AnswerLost(r)
               \/ AnswerExpired(r) \/ Observe(r) \/ AnswerOk(r)
        PROVE  IInv'
    BY <1>3, SendInv, ExpiredInv, ObserveInv, OkInv
  <1>4. CASE UNCHANGED vars
    BY <1>4 DEF vars, IInv, TypeOK, Remembered, Installation, SignedInSession, Observed, Announced,
                NoStaleAlarm, Known
  <1> QED BY <1>1, <1>2, <1>3, <1>4 DEF Next

(***************************************************************************)
(* The inductive invariant: requests of an installation are signed with its *)
(* credential, and a notice's token is the remembered one or was given up.  *)
(***************************************************************************)
THEOREM Invariance == Spec => []IInv
  BY InitInv, NextInv, PTL DEF Spec

(***************************************************************************)
(* An expired session is announced once until it works again or another     *)
(* credential takes its place, never on the word of a request sent before   *)
(* it recovered or signed with another credential (owns_response,           *)
(* mark_current_session_expired, confirm_authenticated_private_response).   *)
(***************************************************************************)
THEOREM AlarmsCorrect == Spec => []AlarmsOnce
  <1>1. IInv => AlarmsOnce
    BY Counting DEF IInv, AlarmsOnce
  <1> QED BY <1>1, Invariance, PTL
-----------------------------------------------------------------------------
\* An order shows up in a queue of messages with a state.
Has(q, o, st) == \E i \in 1..Len(q) : q[i].o = o /\ q[i].st = st

\* An order shows up in a queue open and then final, each at most once.
InOrder(q) ==
    \A i, j \in 1..Len(q) : i < j /\ q[i].o = q[j].o => q[i].st = "open" /\ q[j].st = "final"

\* What the exchange told of an order, the messages held back first, is in order.
Told ==
    /\ InOrder(wire) /\ InOrder(gate.pending)
    /\ \A o \in Orders :
         /\ Has(wire, o, "open") \/ Has(gate.pending, o, "open") => exchange[o] # "none"
         /\ Has(wire, o, "final") \/ Has(gate.pending, o, "final") => exchange[o] = "final"
         /\ Has(gate.pending, o, "open") => ~Has(wire, o, "open")
         /\ Has(gate.pending, o, "final") => ~Has(wire, o, "open") /\ ~Has(wire, o, "final")

\* The gate is that of the session while the stream runs, and the flag follows it.
GateOfSession ==
    /\ link # "off" => start = "running"
    /\ seed.step # "idle" => start = "running"
    /\ start # "stopped" => gate.ctx = streamEpoch
    /\ start = "running" /\ seeded => gate.seeded
    /\ gate.seeded => gate.pending = <<>>

\* What came live is held back, or was applied.
LiveKept ==
    \A o \in Orders :
        /\ ~gate.seeded /\ live[o] \in {"open", "pair"} => Has(gate.pending, o, "open")
        /\ ~gate.seeded /\ live[o] = "pair" => Has(gate.pending, o, "final")
        /\ gate.seeded /\ live[o] = "open" => track[o].st # "none"
        /\ gate.seeded /\ live[o] = "pair" => track[o].notified \/ o \in excused

\* An order that is known to be final and was not announced came final first:
\* the stream will not show it open any more.
FinalFirst ==
    \A o \in Orders :
        track[o].st = "final" /\ ~track[o].notified /\ o \notin excused =>
            /\ exchange[o] = "final"
            /\ ~Has(wire, o, "open") /\ ~Has(gate.pending, o, "open")
            /\ live[o] # "open"

\* A replay has applied what it no longer has before it.
Replaying ==
    seed.step = "replay" =>
        /\ ~gate.seeded
        /\ InOrder(replay.queue)
        /\ \A s \in replay.base : ~LivePair(gate.pending, s.o)
        /\ \A s \in replay.late : LivePair(gate.pending, s.o)
        /\ \A o \in Orders :
             /\ Has(replay.queue, o, "open") => Has(gate.pending, o, "open")
             /\ Has(replay.queue, o, "final") => Has(gate.pending, o, "final")
             /\ Has(gate.pending, o, "open") =>
                    Has(replay.queue, o, "open") \/ track[o].st # "none"
             /\ Has(gate.pending, o, "open") /\ Has(gate.pending, o, "final") =>
                    \/ track[o].notified \/ o \in excused
                    \/ /\ Has(replay.queue, o, "final")
                       /\ Has(replay.queue, o, "open") \/ track[o].st = "open"

StreamInv ==
    /\ StreamTypeOK /\ AnnouncedOnce
    /\ Told /\ GateOfSession /\ LiveKept /\ FinalFirst /\ Replaying
-----------------------------------------------------------------------------
\* An empty queue shows no order, and one that is longer by a message shows what
\* the message shows beside.
LEMMA HasNone == \A o, st : ~Has(<<>>, o, st)
  BY DEF Has

LEMMA HasAppend ==
  ASSUME NEW S, NEW q \in Seq(S), NEW s \in S
  PROVE  \A o, st : Has(Append(q, s), o, st) <=> Has(q, o, st) \/ (s.o = o /\ s.st = st)
  <1> DEFINE r == Append(q, s)
  <1>1. /\ Len(r) = Len(q) + 1 /\ Len(q) \in Nat
        /\ r[Len(q) + 1] = s
        /\ \A i \in 1..Len(q) : r[i] = q[i]
    BY DEF r
  <1> HIDE DEF r
  <1>2. TAKE o, st
  <1>3. ASSUME Has(r, o, st) PROVE Has(q, o, st) \/ (s.o = o /\ s.st = st)
    <2>1. PICK i \in 1..Len(r) : r[i].o = o /\ r[i].st = st
      BY <1>3 DEF Has
    <2>2. CASE i = Len(q) + 1
      BY <1>1, <2>1, <2>2
    <2>3. CASE i # Len(q) + 1
      <3>1. i \in 1..Len(q)
        BY <1>1, <2>3
      <3> QED
        BY <1>1, <2>1, <3>1 DEF Has
    <2> QED
      BY <2>2, <2>3
  <1>4. ASSUME Has(q, o, st) PROVE Has(r, o, st)
    <2>1. PICK i \in 1..Len(q) : q[i].o = o /\ q[i].st = st
      BY <1>4 DEF Has
    <2>2. i \in 1..Len(r) /\ r[i] = q[i]
      BY <1>1
    <2> QED
      BY <2>1, <2>2 DEF Has
  <1>5. ASSUME s.o = o, s.st = st PROVE Has(r, o, st)
    <2>1. Len(q) + 1 \in 1..Len(r)
      BY <1>1
    <2> QED
      BY <1>1, <1>5, <2>1 DEF Has
  <1> QED
    BY <1>3, <1>4, <1>5 DEF r

\* A queue shows what its head and its tail show.
LEMMA HasTail ==
  ASSUME NEW S, NEW q \in Seq(S), q # <<>>
  PROVE  \A o, st : Has(q, o, st) <=> Has(Tail(q), o, st) \/ (Head(q).o = o /\ Head(q).st = st)
  <1> DEFINE r == Tail(q)
  <1>1. /\ Len(q) = Len(r) + 1 /\ Len(r) \in Nat
        /\ q[1] = Head(q)
        /\ \A i \in 1..Len(r) : r[i] = q[i + 1]
    BY DEF r
  <1> HIDE DEF r
  <1>2. TAKE o, st
  <1>3. ASSUME Has(q, o, st) PROVE Has(r, o, st) \/ (Head(q).o = o /\ Head(q).st = st)
    <2>1. PICK i \in 1..Len(q) : q[i].o = o /\ q[i].st = st
      BY <1>3 DEF Has
    <2>2. CASE i = 1
      BY <1>1, <2>1, <2>2
    <2>3. CASE i # 1
      <3>1. i - 1 \in 1..Len(r) /\ q[i] = r[i - 1]
        BY <1>1, <2>3
      <3> QED
        BY <2>1, <3>1 DEF Has
    <2> QED
      BY <2>2, <2>3
  <1>4. ASSUME Has(r, o, st) PROVE Has(q, o, st)
    <2>1. PICK i \in 1..Len(r) : r[i].o = o /\ r[i].st = st
      BY <1>4 DEF Has
    <2>2. i + 1 \in 1..Len(q) /\ q[i + 1] = r[i]
      BY <1>1
    <2> QED
      BY <2>1, <2>2 DEF Has
  <1>5. ASSUME Head(q).o = o, Head(q).st = st PROVE Has(q, o, st)
    <2>1. 1 \in 1..Len(q)
      BY <1>1
    <2> QED
      BY <1>1, <1>5, <2>1 DEF Has
  <1> QED
    BY <1>3, <1>4, <1>5 DEF r

\* The messages stay in order when one that may come next is added, or the first
\* is taken; then the rest shows its order final at most, and not after a final one.
LEMMA InOrderNone == InOrder(<<>>)
  BY DEF InOrder

LEMMA InOrderAppend ==
  ASSUME NEW q \in Seq(Items({"live"})), NEW s \in Items({"live"}), InOrder(q),
         ~Has(q, s.o, s.st), s.st = "open" => ~Has(q, s.o, "final")
  PROVE  InOrder(Append(q, s))
  <1> DEFINE r == Append(q, s)
  <1>1. /\ Len(r) = Len(q) + 1 /\ Len(q) \in Nat
        /\ r[Len(q) + 1] = s
        /\ \A i \in 1..Len(q) : r[i] = q[i] /\ q[i] \in Items({"live"})
    BY DEF r
  <1> HIDE DEF r
  <1>2. ASSUME NEW i \in 1..Len(r), NEW j \in 1..Len(r), i < j, r[i].o = r[j].o
        PROVE  r[i].st = "open" /\ r[j].st = "final"
    <2>1. i \in 1..Len(q) /\ r[i] = q[i]
      BY <1>1, <1>2
    <2>2. CASE j \in 1..Len(q)
      <3>1. r[j] = q[j]
        BY <1>1, <2>2
      <3> QED
        BY <1>2, <2>1, <2>2, <3>1 DEF InOrder
    <2>3. CASE j = Len(q) + 1
      <3>1. r[j] = s /\ q[i].o = s.o
        BY <1>1, <1>2, <2>1, <2>3
      <3>2. q[i].st \in {"open", "final"} /\ s.st \in {"open", "final"}
        BY <1>1, <2>1 DEF Items
      <3>3. Has(q, s.o, q[i].st)
        BY <2>1, <3>1 DEF Has
      <3> QED
        BY <2>1, <3>1, <3>2, <3>3
    <2> QED
      BY <1>1, <2>2, <2>3
  <1> QED
    BY <1>2 DEF InOrder, r

LEMMA InOrderTail ==
  ASSUME NEW q \in Seq(Items({"live"})), q # <<>>, InOrder(q)
  PROVE  /\ Head(q) \in Items({"live"}) /\ Tail(q) \in Seq(Items({"live"}))
         /\ InOrder(Tail(q))
         /\ ~Has(Tail(q), Head(q).o, "open")
         /\ Head(q).st = "final" => ~Has(Tail(q), Head(q).o, "final")
  <1> DEFINE r == Tail(q)
  <1>1. /\ Len(q) = Len(r) + 1 /\ Len(r) \in Nat
        /\ q[1] = Head(q)
        /\ \A i \in 1..Len(r) : r[i] = q[i + 1] /\ i + 1 \in 1..Len(q)
        /\ 1 \in 1..Len(q)
    BY DEF r
  <1>2. Head(q) \in Items({"live"}) /\ r \in Seq(Items({"live"}))
    BY DEF r
  <1> HIDE DEF r
  <1>3. InOrder(r)
    <2>1. ASSUME NEW i \in 1..Len(r), NEW j \in 1..Len(r), i < j, r[i].o = r[j].o
          PROVE  r[i].st = "open" /\ r[j].st = "final"
      <3>1. i + 1 < j + 1 /\ i + 1 \in 1..Len(q) /\ j + 1 \in 1..Len(q)
        BY <1>1, <2>1
      <3> QED
        BY <1>1, <2>1, <3>1 DEF InOrder
    <2> QED
      BY <2>1 DEF InOrder
  <1>4. ASSUME NEW st, Has(r, Head(q).o, st) PROVE Head(q).st = "open" /\ st = "final"
    <2>1. PICK i \in 1..Len(r) : r[i].o = Head(q).o /\ r[i].st = st
      BY <1>4 DEF Has
    <2>2. 1 < i + 1
      BY <1>1
    <2> QED
      BY <1>1, <2>1, <2>2 DEF InOrder
  <1> QED
    BY <1>2, <1>3, <1>4 DEF r

\* In an ordered queue an order that shows up open and final is a live pair, what
\* seed_snapshot_then_replay looks for.
LEMMA PairHas ==
  ASSUME NEW q \in Seq(Items({"live"})), InOrder(q), NEW o
  PROVE  LivePair(q, o) <=> Has(q, o, "open") /\ Has(q, o, "final")
  <1>1. ASSUME LivePair(q, o) PROVE Has(q, o, "open") /\ Has(q, o, "final")
    BY <1>1 DEF LivePair, Has
  <1>2. ASSUME Has(q, o, "open"), Has(q, o, "final") PROVE LivePair(q, o)
    <2>1. PICK i \in 1..Len(q) : q[i].o = o /\ q[i].st = "open"
      BY <1>2 DEF Has
    <2>2. PICK j \in 1..Len(q) : q[j].o = o /\ q[j].st = "final"
      BY <1>2 DEF Has
    <2>3. i # j /\ ~(j < i)
      BY <2>1, <2>2 DEF InOrder
    <2>4. i < j
      BY <2>3
    <2> QED
      BY <2>1, <2>2, <2>4 DEF LivePair
  <1> QED
    BY <1>1, <1>2
-----------------------------------------------------------------------------
\* The stream before its first start: nothing is told, nothing is known.
LEMMA StreamInitial == StreamInit => StreamInv
  <1> SUFFICES ASSUME StreamInit PROVE StreamInv
    OBVIOUS
  <1> USE StreamAssumption
  <1>0. \A o \in Orders : track[o].notified = FALSE /\ notices[o] = 0
    BY DEF StreamInit
  <1>1. StreamTypeOK
    <2>1. /\ wire \in Seq(Items({"live"}))
          /\ gate \in [ctx : Nat, seeded : BOOLEAN, pending : Seq(Items({"live"}))]
          /\ replay \in [base : SUBSET Items({"list"}), queue : Seq(Items({"live"})),
                         late : SUBSET Items({"list"})]
      BY EmptySeq DEF StreamInit, OpenGate, NoReplay
    <2>2. seed \in Lists /\ manual \in Lists
      BY DEF StreamInit, NoList, Lists
    <2>3. track \in [Orders -> [st : {"none", "open", "final"}, notified : BOOLEAN]]
      BY DEF StreamInit
    <2> QED
      <3>1. /\ exchange \in [Orders -> {"none", "open", "final"}]
            /\ notices \in [Orders -> Nat]
            /\ live \in [Orders -> {"none", "open", "pair"}]
        BY DEF StreamInit
      <3>2. /\ streamEpoch \in 1..MaxEpoch /\ starts \in 0..MaxStarts /\ fails \in 0..MaxFails
            /\ start = "stopped" /\ link = "off" /\ seeded = FALSE /\ fresh = FALSE /\ excused = {}
        BY DEF StreamInit
      <3> QED
        BY <2>1, <2>2, <2>3, <3>1, <3>2 DEF StreamTypeOK
  <1>2. AnnouncedOnce
    <2> SUFFICES ASSUME NEW o \in Orders
                 PROVE  notices[o] <= 1 /\ (track[o].notified <=> notices[o] = 1)
      BY DEF AnnouncedOnce
    <2>1. notices[o] <= 1 /\ notices[o] # 1 /\ ~track[o].notified
      BY <1>0
    <2> QED
      BY <2>1
  <1>3. Told
    BY HasNone, InOrderNone DEF StreamInit, Told, OpenGate
  <1>4. GateOfSession
    BY DEF StreamInit, GateOfSession, OpenGate, NoList
  <1>5. LiveKept /\ FinalFirst /\ Replaying
    BY DEF StreamInit, LiveKept, FinalFirst, Replaying, OpenGate, NoList
  <1> QED
    BY <1>1, <1>2, <1>3, <1>4, <1>5 DEF StreamInv

\* Steps that leave alone what the invariant is about, but for the link.
LEMMA StreamStutter == StreamInv /\ UNCHANGED streamVars => StreamInv'
  BY DEF StreamInv, streamVars, gates, known, StreamTypeOK, AnnouncedOnce, Told, GateOfSession,
         LiveKept, FinalFirst, Replaying

LEMMA LinkStep == StreamInv /\ (Dial \/ DialFails \/ Authenticate \/ RunStream) => StreamInv'
  <1> SUFFICES ASSUME StreamInv, Dial \/ DialFails \/ Authenticate \/ RunStream PROVE StreamInv'
    OBVIOUS
  <1>1. /\ UNCHANGED <<streamEpoch, wire, gate, fresh, exchange, seed, replay,
                       manual, track, notices, excused, fails, live, starts>>
        /\ link' \in {"off", "dial", "up"} /\ start' \in {"running", "stopped", "reset"}
        /\ seeded' \in BOOLEAN
    BY DEF StreamInv, StreamTypeOK, Dial, DialFails, Authenticate, RunStream, gates, known
  <1>2. StreamTypeOK'
    BY <1>1 DEF StreamInv, StreamTypeOK
  <1>3. GateOfSession'
    <2>1. CASE Dial \/ DialFails
      BY <2>1 DEF StreamInv, GateOfSession, Dial, DialFails, gates
    <2>2. CASE Authenticate
      BY <2>2 DEF StreamInv, GateOfSession, Authenticate, gates
    <2>3. CASE RunStream
      BY <2>3 DEF StreamInv, GateOfSession, RunStream, gates
    <2> QED
      BY <2>1, <2>2, <2>3
  <1> QED
    BY <1>1, <1>2, <1>3 DEF StreamInv, AnnouncedOnce, Told, LiveKept, FinalFirst, Replaying

\* A session that ends loses the messages on the wire and nothing else.
LEMMA BreakStep == StreamInv /\ Break => StreamInv'
  <1> SUFFICES ASSUME StreamInv, Break PROVE StreamInv'
    OBVIOUS
  <1>1. Told'
    BY HasNone, InOrderNone DEF StreamInv, Break, gates, Told
  <1>2. FinalFirst'
    BY HasNone DEF StreamInv, Break, gates, known, FinalFirst
  <1>3. StreamTypeOK'
    BY EmptySeq DEF StreamInv, Break, gates, known, StreamTypeOK
  <1> QED
    BY <1>1, <1>2, <1>3 DEF StreamInv, Break, gates, known, AnnouncedOnce,
         GateOfSession, LiveKept, Replaying

\* The exchange tells of an order in the order of its life.
LEMMA TradeStep == ASSUME StreamInv, NEW x \in Orders, Trade(x) PROVE StreamInv'
  <1> DEFINE s == Seen(x, exchange'[x], "live")
  <1>1. /\ exchange[x] # "final"
        /\ exchange' \in [Orders -> {"none", "open", "final"}]
        /\ exchange'[x] = IF exchange[x] = "none" THEN "open" ELSE "final"
        /\ \A o \in Orders : o # x => exchange'[o] = exchange[o]
    BY DEF Trade, StreamInv, StreamTypeOK
  <1>2. s \in Items({"live"}) /\ s.o = x /\ s.st = exchange'[x]
    BY <1>1 DEF Seen, Items
  <1>3. wire' = Append(wire, s) \/ wire' = wire
    BY DEF Trade
  <1>4. /\ ~Has(wire, x, s.st) /\ (s.st = "open" => ~Has(wire, x, "final"))
        /\ ~Has(gate.pending, x, "final")
        /\ s.st = "open" => ~Has(gate.pending, x, "open")
    BY <1>1, <1>2 DEF StreamInv, StreamTypeOK, Told
  <1> HIDE DEF s
  <1>5. wire \in Seq(Items({"live"}))
    BY DEF StreamInv, StreamTypeOK
  <1>6. \A o, st : Has(wire', o, st) => Has(wire, o, st) \/ (o = x /\ st = s.st)
    <2>1. CASE wire' = wire
      BY <2>1
    <2>2. CASE wire' = Append(wire, s)
      BY <1>2, <1>5, <2>2, HasAppend
    <2> QED
      BY <1>3, <2>1, <2>2
  <1>7. wire' \in Seq(Items({"live"})) /\ InOrder(wire')
    <2>1. InOrder(wire)
      BY DEF StreamInv, Told
    <2>2. CASE wire' = wire
      BY <1>5, <2>1, <2>2
    <2>3. CASE wire' = Append(wire, s)
      BY <1>2, <1>4, <1>5, <2>1, <2>3, InOrderAppend
    <2> QED
      BY <1>3, <2>2, <2>3
  <1>8. StreamTypeOK'
    BY <1>1, <1>7 DEF Trade, gates, known, StreamInv, StreamTypeOK
  <1>9. Told'
    <2>1. gate' = gate
      BY DEF Trade, gates
    <2> QED
      BY <1>1, <1>2, <1>4, <1>6, <1>7, <2>1 DEF StreamInv, Told, StreamTypeOK
  <1>10. FinalFirst'
    BY <1>1, <1>2, <1>6 DEF Trade, gates, known, StreamInv, FinalFirst
  <1> QED
    BY <1>8, <1>9, <1>10 DEF StreamInv, Trade, gates, known, AnnouncedOnce,
         GateOfSession, LiveKept, Replaying

\* Fetching a list changes nothing that is known.
LEMMA ListedTyped == StreamTypeOK => Listed \in SUBSET Items({"list"})
  BY DEF StreamTypeOK, Listed, Seen, Items

LEMMA FetchStep == StreamInv /\ (FetchSeed \/ FetchManual) => StreamInv'
  <1> SUFFICES ASSUME StreamInv, FetchSeed \/ FetchManual PROVE StreamInv'
    OBVIOUS
  <1>1. StreamTypeOK'
    BY ListedTyped, StreamAssumption DEF StreamInv, FetchSeed, FetchManual, gates, known, StreamTypeOK, Lists
  <1> QED
    BY <1>1 DEF StreamInv, FetchSeed, FetchManual, gates, known, AnnouncedOnce, Told,
         GateOfSession, LiveKept, FinalFirst, Replaying

\* A restart empties the wire first,
LEMMA StopStep == ASSUME StreamInv, NEW next \in streamEpoch..MaxEpoch, StopStream(next) PROVE StreamInv'
  <1>0. /\ streamEpoch' \in 1..MaxEpoch /\ starts' \in 0..MaxStarts
        /\ wire' = <<>> /\ start' = "stopped" /\ link' = "off" /\ fresh' = FALSE
        /\ UNCHANGED <<gate, seeded, exchange, seed, replay, manual, track, notices, excused,
                       fails, live>>
    BY StreamAssumption DEF StreamInv, StopStream, gates, known, StreamTypeOK
  <1>1. StreamTypeOK'
    BY <1>0, EmptySeq DEF StreamInv, StreamTypeOK
  <1>2. Told'
    BY HasNone, InOrderNone DEF StreamInv, StopStream, gates, Told
  <1>3. FinalFirst'
    BY HasNone DEF StreamInv, StopStream, gates, known, FinalFirst
  <1>4. GateOfSession'
    BY DEF StreamInv, StopStream, NoReader, gates, GateOfSession
  <1> QED
    BY <1>1, <1>2, <1>3, <1>4 DEF StreamInv, StopStream, gates, known, AnnouncedOnce, LiveKept,
         Replaying

\* then the gate, and what came live is counted from here.
LEMMA ResetStep == StreamInv /\ ResetGate => StreamInv'
  <1> SUFFICES ASSUME StreamInv, ResetGate PROVE StreamInv'
    OBVIOUS
  <1>0. seed.step = "idle" /\ gate' = [ctx |-> streamEpoch, seeded |-> FALSE, pending |-> <<>>]
    BY DEF StreamInv, GateOfSession, ResetGate, OpenGate
  <1>1. StreamTypeOK'
    BY <1>0 DEF StreamInv, ResetGate, known, StreamTypeOK
  <1>2. Told'
    BY <1>0, HasNone, InOrderNone DEF StreamInv, ResetGate, Told
  <1>3. FinalFirst'
    BY <1>0, HasNone DEF StreamInv, ResetGate, known, FinalFirst
  <1>4. GateOfSession' /\ LiveKept' /\ Replaying'
    BY <1>0 DEF StreamInv, ResetGate, known, GateOfSession, LiveKept, Replaying
  <1> QED
    BY <1>1, <1>2, <1>3, <1>4 DEF StreamInv, ResetGate, known, AnnouncedOnce

\* A replay begins with all that is held back before it.
LEMMA BeginStep == StreamInv /\ BeginSeed => StreamInv'
  <1> SUFFICES ASSUME StreamInv, BeginSeed PROVE StreamInv'
    OBVIOUS
  <1>1. CASE gate.ctx # seed.ctx \/ gate.seeded
    <2>1. seed' = NoList /\ UNCHANGED <<streamEpoch, start, link, wire, gate, seeded, fresh, exchange,
                                        replay, manual, track, notices, excused, fails, live, starts>>
      BY <1>1 DEF BeginSeed, gates, known
    <2>2. StreamTypeOK'
      BY <2>1 DEF StreamInv, StreamTypeOK, NoList, Lists
    <2> QED
      BY <2>1, <2>2 DEF StreamInv, NoList, AnnouncedOnce, Told, GateOfSession,
           LiveKept, FinalFirst, Replaying
  <1>2. CASE gate.ctx = seed.ctx /\ ~gate.seeded
    <2>1. /\ seed' = [seed EXCEPT !.step = "replay"] /\ seed.step = "fetched"
          /\ replay' = Plan(seed.list, gate.pending)
          /\ UNCHANGED <<streamEpoch, start, link, wire, gate, seeded, fresh, exchange,
                         manual, track, notices, excused, fails, live, starts>>
      BY <1>2 DEF BeginSeed, gates, known
    <2>2. StreamTypeOK'
      BY <2>1 DEF StreamInv, StreamTypeOK, Plan, Lists
    <2>3. seed'.step = "replay"
      BY <2>1 DEF StreamInv, StreamTypeOK, Lists
    <2>4. Replaying'
      <3>1. /\ replay'.queue = gate.pending
            /\ \A s \in replay'.base : ~LivePair(gate.pending, s.o)
            /\ \A s \in replay'.late : LivePair(gate.pending, s.o)
        BY <2>1 DEF Plan
      <3>2. InOrder(gate.pending)
        BY DEF StreamInv, Told
      <3> QED
        BY <1>2, <2>1, <3>1, <3>2 DEF Replaying
    <2>5. GateOfSession'
      BY <2>1, <2>3 DEF StreamInv, GateOfSession
    <2> QED
      BY <2>1, <2>2, <2>4, <2>5 DEF StreamInv, AnnouncedOnce, Told, LiveKept, FinalFirst
  <1> QED
    BY <1>1, <1>2

\* When a replay is through, what came live before it is applied.
LEMMA FinishStep == StreamInv /\ FinishSeed => StreamInv'
  <1> SUFFICES ASSUME StreamInv, FinishSeed PROVE StreamInv'
    OBVIOUS
  <1>1. /\ seed.step = "replay" /\ seed' = NoList /\ replay.queue = <<>> /\ seeded' = TRUE
        /\ gate' = [gate EXCEPT !.seeded = TRUE, !.pending = <<>>]
        /\ UNCHANGED <<streamEpoch, start, link, wire, fresh, exchange, replay,
                       manual, track, notices, excused, fails, live, starts>>
    BY DEF FinishSeed, known, NoReplay
  <1>2. gate'.seeded = TRUE /\ gate'.pending = <<>> /\ gate'.ctx = gate.ctx
    BY <1>1 DEF StreamInv, StreamTypeOK
  <1>3. StreamTypeOK'
    BY <1>1, EmptySeq DEF StreamInv, StreamTypeOK, NoList, Lists
  <1>4. Told'
    BY <1>1, <1>2, HasNone, InOrderNone DEF StreamInv, Told
  <1>5. FinalFirst'
    BY <1>1, <1>2, HasNone DEF StreamInv, FinalFirst
  <1>6. GateOfSession'
    BY <1>1, <1>2 DEF StreamInv, GateOfSession, NoList
  <1>7. LiveKept'
    <2>1. ASSUME NEW o \in Orders
          PROVE  /\ live[o] = "open" => track[o].st # "none"
                 /\ live[o] = "pair" => track[o].notified \/ o \in excused
      BY <1>1, HasNone DEF StreamInv, LiveKept, Replaying
    <2> QED
      BY <1>1, <1>2, <2>1 DEF LiveKept
  <1>8. Replaying'
    BY <1>1 DEF Replaying, NoList
  <1> QED
    BY <1>1, <1>3, <1>4, <1>5, <1>6, <1>7, <1>8 DEF StreamInv, AnnouncedOnce

\* What applying an item does to what is known of its order.
LEMMA ApplyFacts ==
  ASSUME StreamTypeOK, AnnouncedOnce, NEW s \in Items({"live", "list"}), NEW ok \in BOOLEAN,
         ok \/ Announces(track[s.o], s), Apply(s, ok)
  PROVE  /\ track' \in [Orders -> [st : {"none", "open", "final"}, notified : BOOLEAN]]
         /\ notices' \in [Orders -> Nat] /\ fails' \in 0..MaxFails
         /\ AnnouncedOnce'
         /\ \A o \in Orders : o # s.o => track'[o] = track[o]
         /\ \A o \in Orders : /\ track[o].notified => track'[o].notified
                              /\ track[o].st # "none" => track'[o].st # "none"
         /\ ~ok => track' = track /\ track[s.o].st = "open" /\ s.st = "final" /\ s.origin = "live"
         /\ ok => track'[s.o].st # "none"
         /\ track[s.o].st = "final" => track'[s.o] = track[s.o]
         /\ track[s.o].st # "final" /\ s.st = "open" => track'[s.o].st = "open"
         /\ ok /\ s.st = "final" /\ s.origin = "live" /\ track[s.o].st = "open" => track'[s.o].notified
  <1> DEFINE t == track[s.o]
  <1>1. s.o \in Orders /\ s.st \in {"open", "final"} /\ s.origin \in {"live", "list"}
    BY DEF Items
  <1>2. t \in [st : {"none", "open", "final"}, notified : BOOLEAN] /\ notices[s.o] \in Nat
    BY <1>1 DEF StreamTypeOK
  <1>3. CASE Announces(t, s) /\ ~ok
    <2>1. /\ fails' = fails + 1 /\ fails < MaxFails /\ track' = track /\ notices' = notices
      BY <1>3 DEF Apply
    <2>2. t.st = "open" /\ s.st = "final" /\ s.origin = "live"
      BY <1>3 DEF Announces
    <2>3. fails' \in 0..MaxFails
      BY <2>1, StreamAssumption DEF StreamTypeOK
    <2>4. AnnouncedOnce'
      BY <2>1 DEF AnnouncedOnce
    <2>5. /\ track' \in [Orders -> [st : {"none", "open", "final"}, notified : BOOLEAN]]
          /\ notices' \in [Orders -> Nat]
      BY <2>1 DEF StreamTypeOK
    <2> QED
      BY <1>3, <2>1, <2>2, <2>3, <2>4, <2>5
  <1>4. CASE ok
    <2> DEFINE n == Noted(t, s)
    <2>1. /\ track' = [track EXCEPT ![s.o] = n]
          /\ notices' = [notices EXCEPT ![s.o] = @ + IF Announces(t, s) THEN 1 ELSE 0]
          /\ fails' = fails
      BY <1>4 DEF Apply
    <2>2. /\ n \in [st : {"none", "open", "final"}, notified : BOOLEAN]
          /\ n.notified <=> t.notified \/ Announces(t, s)
          /\ n.st # "none"
          /\ t.st = "final" => n = t
          /\ t.st # "final" /\ s.st = "open" => n.st = "open"
      <3>1. CASE t.st = "final" /\ s.st # "final"
        <4>1. n = t
          BY <3>1 DEF Noted
        <4>2. ~Announces(t, s)
          BY <3>1 DEF Announces
        <4> QED
          BY <1>2, <3>1, <4>1, <4>2
      <3>2. CASE ~(t.st = "final" /\ s.st # "final")
        <4> DEFINE a == t.notified \/ Announces(t, s)
        <4>1. n = [st |-> s.st, notified |-> a]
          BY <3>2 DEF Noted
        <4>2. a \in BOOLEAN /\ (t.st = "final" => a = t.notified)
          BY <1>2 DEF Announces
        <4> HIDE DEF a
        <4>3. n.st = s.st /\ n.notified = a
          BY <4>1
        <4>4. n \in [st : {"none", "open", "final"}, notified : BOOLEAN]
          BY <1>1, <4>1, <4>2
        <4>5. ASSUME t.st = "final" PROVE n = t
          BY <1>2, <3>2, <4>2, <4>3, <4>4, <4>5
        <4> QED
          BY <1>1, <3>2, <4>2, <4>3, <4>4, <4>5 DEF a
      <3> QED
        BY <3>1, <3>2
    <2> HIDE DEF n
    <2>3. /\ track' \in [Orders -> [st : {"none", "open", "final"}, notified : BOOLEAN]]
          /\ track'[s.o] = n
          /\ \A o \in Orders : o # s.o => track'[o] = track[o]
      BY <1>1, <2>1, <2>2 DEF StreamTypeOK
    <2>4. /\ notices' \in [Orders -> Nat]
          /\ notices'[s.o] = notices[s.o] + (IF Announces(t, s) THEN 1 ELSE 0)
          /\ \A o \in Orders : o # s.o => notices'[o] = notices[o]
      BY <1>1, <2>1 DEF StreamTypeOK
    <2>5. Announces(t, s) => ~t.notified
      BY DEF Announces
    <2>6. AnnouncedOnce'
      <3> SUFFICES ASSUME NEW o \in Orders
                   PROVE  notices'[o] <= 1 /\ (track'[o].notified <=> notices'[o] = 1)
        BY DEF AnnouncedOnce
      <3>1. notices[o] <= 1 /\ (track[o].notified <=> notices[o] = 1) /\ notices[o] \in Nat
        BY DEF AnnouncedOnce, StreamTypeOK
      <3>2. CASE o # s.o
        BY <2>3, <2>4, <3>1, <3>2
      <3>3. CASE o = s.o /\ Announces(t, s)
        <4>1. notices[o] = 0
          BY <2>5, <3>1, <3>3
        <4>2. notices'[o] = 1 /\ track'[o].notified
          BY <2>2, <2>3, <2>4, <3>3, <4>1
        <4> QED
          BY <4>2
      <3>4. CASE o = s.o /\ ~Announces(t, s)
        <4>1. notices'[o] = notices[o] /\ (track'[o].notified <=> track[o].notified)
          BY <2>2, <2>3, <2>4, <3>1, <3>4
        <4> QED
          BY <3>1, <4>1
      <3> QED
        BY <3>2, <3>3, <3>4
    <2>7. \A o \in Orders : /\ track[o].notified => track'[o].notified
                            /\ track[o].st # "none" => track'[o].st # "none"
      BY <2>2, <2>3
    <2>8. s.st = "final" /\ s.origin = "live" /\ t.st = "open" => n.notified
      BY <2>2 DEF Announces
    <2>9. fails' \in 0..MaxFails
      BY <2>1 DEF StreamTypeOK
    <2> QED
      BY <1>4, <2>2, <2>3, <2>4, <2>6, <2>7, <2>8, <2>9
  <1> QED
    BY <1>3, <1>4

\* An item of the replay, of the list, of the messages or of the rest of the list.
LEMMA ReplayStep == StreamInv /\ ReplayItem => StreamInv'
  <1> SUFFICES ASSUME StreamInv, ReplayItem PROVE StreamInv'
    OBVIOUS
  <1> DEFINE pending == gate.pending
  <1>1. PICK s \in Upcoming(replay), ok \in BOOLEAN :
           /\ ok \/ Announces(track[s.o], s)
           /\ Apply(s, ok)
           /\ excused' = IF Forestalls(s) /\ ~LivePair(gate.pending, s.o)
                         THEN excused \cup {s.o} ELSE excused
           /\ seed' = IF ok THEN seed ELSE NoList
           /\ replay' = IF ok THEN Without(replay, s) ELSE NoReplay
    BY DEF ReplayItem
  <1>2. /\ seed.step = "replay"
        /\ UNCHANGED <<streamEpoch, start, link, wire, gate, seeded, fresh, exchange, manual, live, starts>>
    BY DEF ReplayItem, gates
  <1>3. /\ replay \in [base : SUBSET Items({"list"}), queue : Seq(Items({"live"})),
                      late : SUBSET Items({"list"})]
        /\ pending \in Seq(Items({"live"}))
    BY DEF StreamInv, StreamTypeOK
  <1>4. InOrder(replay.queue) /\ InOrder(pending)
    BY <1>2 DEF StreamInv, Replaying, Told
  <1> DEFINE OfBase == /\ s \in replay.base
                       /\ Without(replay, s) = [replay EXCEPT !.base = @ \ {s}]
             OfQueue == /\ replay.queue # <<>> /\ s = Head(replay.queue)
                        /\ Without(replay, s) = [replay EXCEPT !.queue = Tail(@)]
             OfLate == /\ s \in replay.late /\ replay.queue = <<>>
                       /\ Without(replay, s) = [replay EXCEPT !.late = @ \ {s}]
  <1>5. OfBase \/ OfQueue \/ OfLate
    BY <1>1 DEF Upcoming, Without
  <1>6. /\ s \in Items({"live", "list"})
        /\ OfBase \/ OfLate => s.origin = "list"
        /\ OfQueue => s.origin = "live"
    <2>1. CASE OfBase \/ OfLate
      <3>1. s \in Items({"list"})
        BY <1>3, <2>1
      <3> QED
        BY <2>1, <3>1, <1>3 DEF Items
    <2>2. CASE OfQueue
      <3>1. s \in Items({"live"})
        BY <1>3, <1>4, <2>2, InOrderTail
      <3> QED
        BY <1>3, <3>1 DEF Items
    <2> QED
      BY <1>5, <2>1, <2>2
  <1>7. s.o \in Orders /\ s.st \in {"open", "final"}
    BY <1>6 DEF Items
  <1> DEFINE Effect ==
         /\ track' \in [Orders -> [st : {"none", "open", "final"}, notified : BOOLEAN]]
         /\ notices' \in [Orders -> Nat] /\ fails' \in 0..MaxFails
         /\ AnnouncedOnce'
         /\ \A o \in Orders : o # s.o => track'[o] = track[o]
         /\ \A o \in Orders : /\ track[o].notified => track'[o].notified
                              /\ track[o].st # "none" => track'[o].st # "none"
         /\ ~ok => track' = track /\ track[s.o].st = "open" /\ s.st = "final" /\ s.origin = "live"
         /\ ok => track'[s.o].st # "none"
         /\ track[s.o].st = "final" => track'[s.o] = track[s.o]
         /\ track[s.o].st # "final" /\ s.st = "open" => track'[s.o].st = "open"
         /\ ok /\ s.st = "final" /\ s.origin = "live" /\ track[s.o].st = "open" => track'[s.o].notified
  <1>8. Effect
    BY <1>1, <1>6, ApplyFacts DEF StreamInv
  <1>9. excused \subseteq excused' /\ excused' \subseteq excused \cup {s.o}
    BY <1>1
  <1>10. replay' \in [base : SUBSET Items({"list"}), queue : Seq(Items({"live"})),
                      late : SUBSET Items({"list"})]
    <2>1. CASE ok
      <3>1. replay' = Without(replay, s)
        BY <1>1, <2>1
      <3>2. replay.queue # <<>> => Tail(replay.queue) \in Seq(Items({"live"}))
        BY <1>3, <1>4, InOrderTail
      <3> QED
        BY <1>3, <1>5, <3>1, <3>2
    <2>2. CASE ~ok
      BY <1>1, <2>2, EmptySeq DEF NoReplay
    <2> QED
      BY <2>1, <2>2
  <1>11. StreamTypeOK'
    <2>1. seed' \in Lists
      BY <1>1 DEF StreamInv, StreamTypeOK, NoList, Lists
    <2>2. excused' \subseteq Orders
      BY <1>7, <1>9 DEF StreamInv, StreamTypeOK
    <2> QED
      BY <1>2, <1>8, <1>10, <2>1, <2>2 DEF StreamInv, StreamTypeOK
  <1>12. Told'
    BY <1>2 DEF StreamInv, Told
  <1>13. GateOfSession'
    BY <1>1, <1>2 DEF StreamInv, GateOfSession, NoList
  <1>14. ~gate.seeded
    BY <1>2 DEF StreamInv, Replaying
  <1>15. LiveKept'
    BY <1>2, <1>14 DEF StreamInv, LiveKept
  <1>16. \A o : LivePair(pending, o) <=> Has(pending, o, "open") /\ Has(pending, o, "final")
    BY <1>3, <1>4, PairHas
  \* The final state of an order that was open is announced, or was long known.
  <1>17. FinalFirst'
    <2> SUFFICES ASSUME NEW o \in Orders, track'[o].st = "final", ~track'[o].notified, o \notin excused'
                 PROVE  /\ exchange[o] = "final"
                        /\ ~Has(wire, o, "open") /\ ~Has(pending, o, "open")
                        /\ live[o] # "open"
      BY <1>2 DEF FinalFirst
    <2>1. CASE track[o].st = "final"
      BY <1>8, <1>9, <2>1 DEF StreamInv, FinalFirst
    <2>2. CASE track[o].st # "final"
      <3>1. o = s.o /\ ok /\ s.st = "final"
        BY <1>7, <1>8, <2>2
      <3>2. CASE OfBase
        <4>1. ~LivePair(pending, s.o)
          BY <1>2, <3>2 DEF StreamInv, Replaying
        <4>2. Forestalls(s)
          BY <1>6, <2>2, <3>1, <3>2 DEF Forestalls
        <4> QED
          BY <1>1, <3>1, <4>1, <4>2
      <3>3. CASE OfLate
        <4>1. Has(pending, o, "open") /\ Has(pending, o, "final")
          BY <1>2, <1>16, <3>1, <3>3 DEF StreamInv, Replaying
        <4>2. track[o].notified \/ o \in excused
          BY <1>2, <3>3, <4>1, HasNone DEF StreamInv, Replaying
        <4> QED
          BY <1>8, <1>9, <4>2
      <3>4. CASE OfQueue
        <4>1. track[o].st = "none"
          BY <1>6, <1>8, <2>2, <3>1, <3>4 DEF StreamInv, StreamTypeOK
        <4>2. Has(replay.queue, o, "final") /\ ~Has(replay.queue, o, "open")
          BY <1>3, <1>4, <3>1, <3>4, InOrderTail, HasTail
        <4>3. Has(pending, o, "final") /\ ~Has(pending, o, "open")
          BY <1>2, <4>1, <4>2 DEF StreamInv, Replaying
        <4>4. exchange[o] = "final" /\ ~Has(wire, o, "open")
          BY <4>3 DEF StreamInv, Told
        <4>5. live[o] # "open"
          BY <1>14, <4>3 DEF StreamInv, LiveKept
        <4> QED
          BY <4>3, <4>4, <4>5
      <3> QED
        BY <1>5, <3>2, <3>3, <3>4
    <2> QED
      BY <2>1, <2>2
  <1>18. Replaying'
    <2>1. CASE ~ok
      BY <1>1, <2>1 DEF Replaying, NoList
    <2>2. CASE ok
      <3>1. replay' = Without(replay, s)
        BY <1>1, <2>2
      <3>2. replay'.base \subseteq replay.base /\ replay'.late \subseteq replay.late
        BY <1>3, <1>5, <3>1
      <3>3. OfBase \/ OfLate => replay'.queue = replay.queue
        BY <1>3, <3>1
      <3>4. OfQueue => replay'.queue = Tail(replay.queue)
        BY <1>3, <3>1
      <3> DEFINE Still(o) ==
              /\ Has(replay'.queue, o, "open") => Has(pending, o, "open")
              /\ Has(replay'.queue, o, "final") => Has(pending, o, "final")
              /\ Has(pending, o, "open") =>
                    Has(replay'.queue, o, "open") \/ track'[o].st # "none"
              /\ Has(pending, o, "open") /\ Has(pending, o, "final") =>
                    \/ track'[o].notified \/ o \in excused'
                    \/ /\ Has(replay'.queue, o, "final")
                       /\ Has(replay'.queue, o, "open") \/ track'[o].st = "open"
      <3>5. ASSUME NEW o \in Orders PROVE Still(o)
        <4>0. /\ Has(replay.queue, o, "open") => Has(pending, o, "open")
              /\ Has(replay.queue, o, "final") => Has(pending, o, "final")
              /\ Has(pending, o, "open") =>
                    Has(replay.queue, o, "open") \/ track[o].st # "none"
              /\ Has(pending, o, "open") /\ Has(pending, o, "final") =>
                    \/ track[o].notified \/ o \in excused
                    \/ /\ Has(replay.queue, o, "final")
                       /\ Has(replay.queue, o, "open") \/ track[o].st = "open"
          BY <1>2 DEF StreamInv, Replaying
        <4>1. CASE OfBase
          <5>1. ~(Has(pending, s.o, "open") /\ Has(pending, s.o, "final"))
            BY <1>2, <1>16, <4>1 DEF StreamInv, Replaying
          <5>2. o # s.o => track'[o] = track[o]
            BY <1>8
          <5> QED
            BY <1>8, <1>9, <3>3, <4>0, <4>1, <5>1, <5>2
        <4>2. CASE OfLate
          <5>1. ~Has(replay.queue, o, "final")
            BY <4>2, HasNone
          <5> QED
            BY <1>8, <1>9, <3>3, <4>0, <4>2, <5>1
        <4>3. CASE OfQueue
          <5>1. /\ Has(replay.queue, o, "open") <=>
                     Has(replay'.queue, o, "open") \/ (s.o = o /\ s.st = "open")
                /\ Has(replay.queue, o, "final") <=>
                     Has(replay'.queue, o, "final") \/ (s.o = o /\ s.st = "final")
            <6>1. replay.queue # <<>> /\ s = Head(replay.queue) /\ replay'.queue = Tail(replay.queue)
              BY <3>4, <4>3
            <6>2. replay.queue \in Seq(Items({"live"}))
              BY <1>3
            <6>3. \A st : Has(replay.queue, o, st) <=>
                           Has(Tail(replay.queue), o, st) \/ (s.o = o /\ s.st = st)
              BY <6>1, <6>2, HasTail
            <6> QED
              BY <6>1, <6>3
          <5>2. CASE o # s.o
            <6>1. track'[o] = track[o]
              BY <1>8, <5>2
            <6> QED
              BY <1>9, <4>0, <5>1, <5>2, <6>1
          <5>3. CASE o = s.o /\ s.st = "open"
            <6>1. track'[o].st # "none"
              BY <1>8, <2>2, <5>3
            <6>2. ASSUME Has(pending, o, "open"), ~track[o].notified, o \notin excused
                  PROVE  track'[o].st = "open"
              <7>1. track[o].st # "final"
                BY <6>2 DEF StreamInv, FinalFirst
              <7> QED
                BY <1>8, <5>3, <7>1
            <6> QED
              BY <1>8, <1>9, <4>0, <5>1, <5>3, <6>1, <6>2
          <5>4. CASE o = s.o /\ s.st = "final"
            <6>1. track'[o].st # "none"
              BY <1>8, <2>2, <5>4
            <6>2. ~Has(replay'.queue, o, "open")
              BY <1>3, <1>4, <3>4, <4>3, <5>4, InOrderTail
            <6>3. track[o].st = "open" => track'[o].notified
              BY <1>6, <1>8, <2>2, <4>3, <5>4
            <6> QED
              BY <1>8, <1>9, <4>0, <5>1, <5>4, <6>1, <6>2, <6>3
          <5> QED
            BY <1>7, <5>2, <5>3, <5>4
        <4> QED
          BY <1>5, <4>1, <4>2, <4>3
      <3>6. InOrder(replay'.queue)
        <4>1. CASE OfQueue
          BY <1>3, <1>4, <3>4, <4>1, InOrderTail
        <4>2. CASE OfBase \/ OfLate
          BY <1>4, <3>3, <4>2
        <4> QED
          BY <1>5, <4>1, <4>2
      <3>7. /\ \A x \in replay'.base : ~LivePair(pending, x.o)
            /\ \A x \in replay'.late : LivePair(pending, x.o)
        BY <1>2, <3>2 DEF StreamInv, Replaying
      <3> QED
        BY <1>2, <1>14, <3>5, <3>6, <3>7 DEF Replaying
    <2> QED
      BY <2>1, <2>2
  <1> QED
    BY <1>8, <1>11, <1>12, <1>13, <1>15, <1>17, <1>18 DEF StreamInv

\* A live message is held back or applied.
LEMMA ReceiveStep == StreamInv /\ Receive => StreamInv'
  <1> SUFFICES ASSUME StreamInv, Receive PROVE StreamInv'
    OBVIOUS
  <1> DEFINE s == Head(wire)
             pending == gate.pending
  <1>1. /\ wire # <<>> /\ seed.step # "replay" /\ wire' = Tail(wire) /\ fresh' = TRUE
        /\ live' = [live EXCEPT ![s.o] = IF s.st = "open" THEN "open"
                                         ELSE IF @ = "open" THEN "pair" ELSE @]
        /\ UNCHANGED <<streamEpoch, start, link, seeded, exchange, seed, replay, manual, starts>>
    BY DEF Receive, GateFree
  <1>2. \/ ~gate.seeded /\ gate' = [gate EXCEPT !.pending = Append(@, s)] /\ UNCHANGED known
        \/ /\ gate.seeded /\ gate' = gate
           /\ \E ok \in BOOLEAN :
                /\ ok \/ Announces(track[s.o], s)
                /\ Apply(s, ok)
                /\ excused' = IF ok THEN excused ELSE excused \cup {s.o}
    BY DEF Receive
  <1>3. /\ wire \in Seq(Items({"live"})) /\ InOrder(wire)
        /\ pending \in Seq(Items({"live"})) /\ InOrder(pending)
    BY DEF StreamInv, StreamTypeOK, Told
  <1>4. /\ s \in Items({"live"}) /\ wire' \in Seq(Items({"live"})) /\ InOrder(wire')
        /\ ~Has(wire', s.o, "open")
        /\ s.st = "final" => ~Has(wire', s.o, "final")
    BY <1>1, <1>3, InOrderTail
  <1>5. \A o, st : Has(wire, o, st) <=> Has(wire', o, st) \/ (s.o = o /\ s.st = st)
    BY <1>1, <1>3, HasTail
  <1>6. /\ s.o \in Orders /\ s.st \in {"open", "final"} /\ s.origin = "live"
        /\ s \in Items({"live", "list"})
    BY <1>4 DEF Items
  <1> HIDE DEF s
  <1>7. /\ live' \in [Orders -> {"none", "open", "pair"}]
        /\ \A o \in Orders : o # s.o => live'[o] = live[o]
        /\ s.st = "open" => live'[s.o] = "open"
        /\ s.st = "final" => live'[s.o] = IF live[s.o] = "open" THEN "pair" ELSE live[s.o]
    BY <1>1, <1>6 DEF StreamInv, StreamTypeOK
  <1>8. Has(wire, s.o, s.st)
    BY <1>5
  <1>9. Replaying'
    BY <1>1 DEF Replaying
  \* The message waits for the list.
  <1>10. CASE ~gate.seeded /\ gate' = [gate EXCEPT !.pending = Append(@, s)] /\ UNCHANGED known
    <2>1. /\ gate'.pending = Append(pending, s) /\ gate'.seeded = gate.seeded /\ gate'.ctx = gate.ctx
          /\ gate' \in [ctx : Nat, seeded : BOOLEAN, pending : Seq(Items({"live"}))]
          /\ UNCHANGED <<track, notices, excused, fails>>
      <3>1. gate \in [ctx : Nat, seeded : BOOLEAN, pending : Seq(Items({"live"}))]
        BY DEF StreamInv, StreamTypeOK
      <3> DEFINE longer == Append(pending, s)
      <3>2. longer \in Seq(Items({"live"}))
        BY <1>3, <1>4
      <3>3. gate' = [gate EXCEPT !.pending = longer]
        BY <1>10
      <3> HIDE DEF longer
      <3>4. /\ gate'.pending = longer /\ gate'.seeded = gate.seeded /\ gate'.ctx = gate.ctx
            /\ gate' \in [ctx : Nat, seeded : BOOLEAN, pending : Seq(Items({"live"}))]
        BY <3>1, <3>2, <3>3
      <3> QED
        BY <1>10, <3>4 DEF longer, known
    <2>2. \A o, st : Has(gate'.pending, o, st) <=> Has(pending, o, st) \/ (s.o = o /\ s.st = st)
      BY <1>3, <1>4, <2>1, HasAppend
    <2>3. InOrder(gate'.pending)
      <3>1. ~Has(pending, s.o, s.st) /\ (s.st = "open" => ~Has(pending, s.o, "final"))
        BY <1>6, <1>8 DEF StreamInv, Told
      <3> QED
        BY <1>3, <1>4, <2>1, <3>1, InOrderAppend
    <2>4. StreamTypeOK'
      BY <1>1, <1>4, <1>7, <2>1 DEF StreamInv, StreamTypeOK
    <2>5. Told'
      <3> SUFFICES ASSUME NEW o \in Orders
                   PROVE  /\ Has(wire', o, "open") \/ Has(gate'.pending, o, "open") => exchange[o] # "none"
                          /\ Has(wire', o, "final") \/ Has(gate'.pending, o, "final") => exchange[o] = "final"
                          /\ Has(gate'.pending, o, "open") => ~Has(wire', o, "open")
                          /\ Has(gate'.pending, o, "final") => ~Has(wire', o, "open") /\ ~Has(wire', o, "final")
        BY <1>1, <1>4, <2>3 DEF Told
      <3> QED
        BY <1>4, <1>5, <1>6, <2>2 DEF StreamInv, Told
    <2>6. GateOfSession'
      BY <1>1, <1>10, <2>1 DEF StreamInv, GateOfSession
    <2>7. LiveKept'
      <3> SUFFICES ASSUME NEW o \in Orders
                   PROVE  /\ live'[o] \in {"open", "pair"} => Has(gate'.pending, o, "open")
                          /\ live'[o] = "pair" => Has(gate'.pending, o, "final")
        BY <1>10, <2>1 DEF LiveKept
      <3> QED
        BY <1>6, <1>7, <1>10, <2>2 DEF StreamInv, LiveKept
    <2>8. FinalFirst'
      <3> SUFFICES ASSUME NEW o \in Orders, track[o].st = "final", ~track[o].notified, o \notin excused
                   PROVE  /\ exchange[o] = "final"
                          /\ ~Has(wire', o, "open") /\ ~Has(gate'.pending, o, "open")
                          /\ live'[o] # "open"
        BY <1>1, <2>1 DEF FinalFirst
      <3>1. /\ exchange[o] = "final"
            /\ ~Has(wire, o, "open") /\ ~Has(pending, o, "open")
            /\ live[o] # "open"
        BY DEF StreamInv, FinalFirst
      <3> QED
        BY <1>5, <1>6, <1>7, <2>2, <3>1
    <2> QED
      BY <1>9, <2>1, <2>4, <2>5, <2>6, <2>7, <2>8 DEF StreamInv, AnnouncedOnce
  \* The message is applied.
  <1>11. CASE /\ gate.seeded /\ gate' = gate
              /\ \E ok \in BOOLEAN :
                   /\ ok \/ Announces(track[s.o], s)
                   /\ Apply(s, ok)
                   /\ excused' = IF ok THEN excused ELSE excused \cup {s.o}
    <2>1. PICK ok \in BOOLEAN :
            /\ ok \/ Announces(track[s.o], s)
            /\ Apply(s, ok)
            /\ excused' = IF ok THEN excused ELSE excused \cup {s.o}
      BY <1>11
    <2> DEFINE Effect ==
         /\ track' \in [Orders -> [st : {"none", "open", "final"}, notified : BOOLEAN]]
         /\ notices' \in [Orders -> Nat] /\ fails' \in 0..MaxFails
         /\ AnnouncedOnce'
         /\ \A o \in Orders : o # s.o => track'[o] = track[o]
         /\ \A o \in Orders : /\ track[o].notified => track'[o].notified
                              /\ track[o].st # "none" => track'[o].st # "none"
         /\ ~ok => track' = track /\ track[s.o].st = "open" /\ s.st = "final" /\ s.origin = "live"
         /\ ok => track'[s.o].st # "none"
         /\ track[s.o].st = "final" => track'[s.o] = track[s.o]
         /\ track[s.o].st # "final" /\ s.st = "open" => track'[s.o].st = "open"
         /\ ok /\ s.st = "final" /\ s.origin = "live" /\ track[s.o].st = "open" => track'[s.o].notified
    <2>2. Effect
      BY <1>6, <2>1, ApplyFacts DEF StreamInv
    <2>3. excused \subseteq excused' /\ excused' \subseteq Orders /\ (~ok => s.o \in excused')
      BY <1>6, <2>1 DEF StreamInv, StreamTypeOK
    <2>4. pending = <<>> /\ gate'.seeded /\ gate'.pending = <<>>
      BY <1>11 DEF StreamInv, GateOfSession
    <2>5. StreamTypeOK'
      BY <1>1, <1>4, <1>7, <1>11, <2>2, <2>3 DEF StreamInv, StreamTypeOK
    <2>6. Told'
      <3> SUFFICES ASSUME NEW o \in Orders
                   PROVE  /\ Has(wire', o, "open") => exchange[o] # "none"
                          /\ Has(wire', o, "final") => exchange[o] = "final"
        BY <1>1, <1>4, <2>4, HasNone, InOrderNone DEF Told
      <3> QED
        BY <1>5 DEF StreamInv, Told
    <2>7. GateOfSession'
      BY <1>1, <1>11 DEF StreamInv, GateOfSession
    <2>8. LiveKept'
      <3> SUFFICES ASSUME NEW o \in Orders
                   PROVE  /\ live'[o] = "open" => track'[o].st # "none"
                          /\ live'[o] = "pair" => track'[o].notified \/ o \in excused'
        BY <2>4 DEF LiveKept
      <3>1. /\ live[o] = "open" => track[o].st # "none"
            /\ live[o] = "pair" => track[o].notified \/ o \in excused
        BY <1>11 DEF StreamInv, LiveKept
      <3>2. CASE o # s.o
        BY <1>7, <2>2, <2>3, <3>1, <3>2
      <3>3. CASE o = s.o /\ s.st = "open"
        BY <1>7, <2>2, <3>3
      <3>4. CASE o = s.o /\ s.st = "final" /\ live[o] # "open"
        BY <1>7, <2>2, <2>3, <3>1, <3>4
      <3>5. CASE o = s.o /\ s.st = "final" /\ live[o] = "open"
        <4>1. live'[o] = "pair"
          BY <1>7, <3>5
        <4>2. CASE track[o].st = "open"
          BY <1>6, <2>2, <2>3, <3>5, <4>1, <4>2
        <4>3. CASE track[o].st = "final"
          <5>1. track[o].notified \/ o \in excused
            BY <3>5, <4>3 DEF StreamInv, FinalFirst
          <5> QED
            BY <2>2, <2>3, <4>1, <5>1
        <4> QED
          BY <3>1, <3>5, <4>2, <4>3 DEF StreamInv, StreamTypeOK
      <3> QED
        BY <1>6, <3>2, <3>3, <3>4, <3>5
    <2>9. FinalFirst'
      <3> SUFFICES ASSUME NEW o \in Orders, track'[o].st = "final", ~track'[o].notified, o \notin excused'
                   PROVE  /\ exchange[o] = "final"
                          /\ ~Has(wire', o, "open") /\ live'[o] # "open"
        BY <1>1, <2>4, HasNone DEF FinalFirst
      <3>1. CASE track[o].st = "final"
        <4>1. /\ exchange[o] = "final" /\ ~Has(wire, o, "open") /\ live[o] # "open"
          BY <2>2, <2>3, <3>1 DEF StreamInv, FinalFirst
        <4> QED
          BY <1>5, <1>6, <1>7, <4>1
      <3>2. CASE track[o].st # "final"
        <4>1. o = s.o /\ s.st = "final" /\ ok
          BY <1>6, <2>2, <3>2
        <4>2. track[o].st = "none"
          BY <1>6, <2>2, <3>2, <4>1 DEF StreamInv, StreamTypeOK
        <4>3. live[o] # "open"
          BY <1>11, <4>2 DEF StreamInv, LiveKept
        <4>4. exchange[o] = "final"
          BY <1>8, <4>1 DEF StreamInv, Told
        <4> QED
          BY <1>4, <1>7, <4>1, <4>3, <4>4
      <3> QED
        BY <3>1, <3>2
    <2> QED
      BY <1>9, <2>2, <2>5, <2>6, <2>7, <2>8, <2>9 DEF StreamInv
  <1> QED
    BY <1>2, <1>10, <1>11

\* A list the user asked for forestalls a final state, or adds nothing to it.
LEMMA ManualStep == StreamInv /\ ObserveManual => StreamInv'
  <1> SUFFICES ASSUME StreamInv, ObserveManual PROVE StreamInv'
    OBVIOUS
  <1>1. /\ manual' = NoList
        /\ UNCHANGED <<streamEpoch, start, link, wire, gate, seeded, fresh, exchange, seed, replay,
                       live, starts>>
        /\ seed.step # "replay"
    BY DEF ObserveManual, gates, GateFree
  <1>2. manual' \in Lists
    BY <1>1 DEF NoList, Lists
  <1>3. CASE ~(gate.ctx = manual.ctx /\ gate.seeded)
    <2>1. UNCHANGED <<track, notices, excused, fails>>
      BY <1>3 DEF ObserveManual, known
    <2>2. StreamTypeOK'
      BY <1>1, <1>2, <2>1 DEF StreamInv, StreamTypeOK
    <2> QED
      BY <1>1, <2>1, <2>2 DEF StreamInv, AnnouncedOnce, Told, GateOfSession, LiveKept, FinalFirst,
           Replaying
  <1>4. CASE gate.ctx = manual.ctx /\ gate.seeded
    <2> DEFINE listed(o) == {s \in manual.list : s.o = o}
               item(o) == CHOOSE s \in listed(o) : TRUE
    <2>1. /\ track' = [o \in Orders |-> IF listed(o) = {} THEN track[o] ELSE Noted(track[o], item(o))]
          /\ excused' = excused \cup {o \in Orders : \E s \in listed(o) : Forestalls(s)}
          /\ UNCHANGED <<notices, fails>>
      BY <1>4 DEF ObserveManual
    <2>2. manual.list \subseteq Items({"list"})
      BY DEF StreamInv, StreamTypeOK, Lists
    <2>3. ASSUME NEW o \in Orders
          PROVE  /\ track'[o] \in [st : {"none", "open", "final"}, notified : BOOLEAN]
                 /\ track'[o].notified = track[o].notified
                 /\ track[o].st # "none" => track'[o].st # "none"
                 /\ track'[o].st = "final" => track[o].st = "final" \/ o \in excused'
      <3> DEFINE t == track[o]
      <3>1. t \in [st : {"none", "open", "final"}, notified : BOOLEAN]
        BY DEF StreamInv, StreamTypeOK
      <3>2. CASE listed(o) = {}
        <4>1. track'[o] = t
          BY <2>1, <3>2
        <4> QED
          BY <3>1, <4>1
      <3>3. CASE listed(o) # {}
        <4> DEFINE s == item(o)
        <4>1. s \in listed(o) /\ track'[o] = Noted(t, s)
          BY <2>1, <3>3
        <4> HIDE DEF item
        <4>2. s.st \in {"open", "final"} /\ s.origin = "list" /\ s.o = o
          BY <2>2, <4>1 DEF Items
        <4>3. ~Announces(t, s)
          BY <4>2 DEF Announces
        <4>4. CASE t.st = "final" /\ s.st # "final"
          <5>1. track'[o] = t
            BY <4>1, <4>4 DEF Noted
          <5> QED
            BY <3>1, <5>1
        <4>5. CASE ~(t.st = "final" /\ s.st # "final")
          <5>1. track'[o] = [st |-> s.st, notified |-> t.notified \/ Announces(t, s)]
            BY <4>1, <4>5 DEF Noted
          <5>2. (t.notified \/ Announces(t, s)) = t.notified
            BY <3>1, <4>3
          <5>3. track'[o] = [st |-> s.st, notified |-> t.notified]
            BY <5>1, <5>2
          <5>4. ASSUME s.st = "final", t.st # "final" PROVE o \in excused'
            <6>1. Forestalls(s)
              BY <4>2, <5>4 DEF Forestalls
            <6> QED
              BY <2>1, <4>1, <6>1
          <5> QED
            BY <3>1, <4>2, <5>3, <5>4
        <4> QED
          BY <4>4, <4>5
      <3> QED
        BY <3>2, <3>3
    <2>4. track' \in [Orders -> [st : {"none", "open", "final"}, notified : BOOLEAN]]
      <3>1. track' = [o \in Orders |-> track'[o]]
        BY <2>1
      <3> QED
        BY <2>3, <3>1
    <2>5. excused \subseteq excused' /\ excused' \subseteq Orders
      BY <2>1 DEF StreamInv, StreamTypeOK
    <2>6. StreamTypeOK'
      BY <1>1, <1>2, <2>1, <2>4, <2>5 DEF StreamInv, StreamTypeOK
    <2>7. AnnouncedOnce'
      BY <2>1, <2>3 DEF StreamInv, AnnouncedOnce
    <2>8. LiveKept'
      BY <1>1, <2>3, <2>5 DEF StreamInv, LiveKept
    <2>9. FinalFirst'
      BY <1>1, <2>3, <2>5 DEF StreamInv, FinalFirst
    <2> QED
      BY <1>1, <2>6, <2>7, <2>8, <2>9 DEF StreamInv, Told, GateOfSession, Replaying
  <1> QED
    BY <1>3, <1>4

\* Every step keeps the invariant, and the invariant is enough.
LEMMA StreamInductive == StreamInv /\ [StreamNext]_streamVars => StreamInv'
  BY StreamStutter, TradeStep, LinkStep, BreakStep, ReceiveStep, FetchStep, BeginStep, ReplayStep,
     FinishStep, ManualStep, StopStep, ResetStep DEF StreamNext

LEMMA StreamEnough == StreamInv => OrdersAnnounced
  BY DEF StreamInv, OrdersAnnounced, PairsAnnounced, HealthyIsSeeded, Healthy, GateOfSession, LiveKept

(***************************************************************************)
(* In every behaviour of the stream: what is held back and what is on the   *)
(* wire is in order, what came live is held back or applied, and an order   *)
(* known to be final and not announced came final first.                    *)
(***************************************************************************)
THEOREM StreamInvariance == StreamSpec => []StreamInv
  <1>1. StreamInit => StreamInv
    BY StreamInitial
  <1>2. StreamInv /\ [StreamNext]_streamVars => StreamInv'
    BY StreamInductive
  <1> QED
    BY <1>1, <1>2, PTL DEF StreamSpec

(***************************************************************************)
(* For any set of orders and any number of sessions, restarts and failed    *)
(* saves: an order that came live open and then final is announced, and     *)
(* once, whenever the list was fetched and however often its replay was     *)
(* repeated, unless a list showed it final first; the stream counts as      *)
(* healthy only after this session's list (seed_snapshot_then_replay,       *)
(* OrderObservationBuffer).                                                 *)
(***************************************************************************)
THEOREM OrdersAreAnnounced == StreamSpec => []OrdersAnnounced
  <1>1. StreamInv => OrdersAnnounced
    BY StreamEnough
  <1> QED
    BY <1>1, StreamInvariance, PTL
-----------------------------------------------------------------------------
\* A series: its candles are under finitely many times, and never more than fit.
Series(s) ==
    /\ s = [loaded |-> s.loaded, bars |-> s.bars, pending |-> s.pending, rev |-> s.rev,
            phys |-> s.phys, compact |-> s.compact]
    /\ s.bars = [t \in DOMAIN s.bars |-> s.bars[t]]
    /\ s.rev \in Int /\ IsFiniteSet(DOMAIN s.bars) /\ DOMAIN s.bars \subseteq Int
Cropped(s) == \A t \in DOMAIN s.bars : Cardinality({u \in DOMAIN s.bars : u > t}) < MaxBars

LEMMA InsertFields ==
  ASSUME NEW s, Series(s), NEW b, b.t \in Int
  PROVE  /\ Series(Insert(s, b)) /\ Insert(s, b).rev >= s.rev
         /\ Insert(s, b).rev = s.rev => Insert(s, b) = s
  <1>1. CASE b.t <= 0 \/ (b.t \in DOMAIN s.bars /\ s.bars[b.t] = b.v)
    BY <1>1 DEF Insert, Series
  <1>2. CASE ~(b.t <= 0 \/ (b.t \in DOMAIN s.bars /\ s.bars[b.t] = b.v))
    <2> DEFINE bars == With(s.bars, b.t, b.v)
               waits == With(s.pending, b.t, [v |-> b.v, rev |-> s.rev + 1])
    <2>1. DOMAIN bars = DOMAIN s.bars \cup {b.t} /\ bars = [t \in DOMAIN bars |-> bars[t]]
      BY DEF With
    <2>2. IsFiniteSet(DOMAIN bars) /\ DOMAIN bars \subseteq Int
      BY <2>1, FS_AddElement DEF Series
    <2>3. Insert(s, b) = [s EXCEPT !.rev = @ + 1, !.bars = bars, !.pending = waits]
      BY <1>2 DEF Insert
    <2> HIDE DEF bars, waits
    <2>4. Insert(s, b) = [loaded |-> s.loaded, bars |-> bars, pending |-> waits, rev |-> s.rev + 1,
                          phys |-> s.phys, compact |-> s.compact]
      BY <2>3 DEF Series
    <2> QED BY <2>1, <2>2, <2>4 DEF Series
  <1> QED BY <1>1, <1>2

\* One after the other: the series after each candle of a batch is there.
LEMMA Smallest ==
  ASSUME NEW T \in SUBSET Nat, T # {}
  PROVE  \E n \in T : \A m \in T : n <= m
  <1> DEFINE R == OpToRel(<, Nat)
  <1>1. IsWellFoundedOn(R, Nat)
    BY NatLessThanWellFounded
  <1> HIDE DEF R
  <1>2. PICK n \in T : \A m \in T : ~(<<m, n>> \in R)
    BY <1>1, WFMin
  <1>3. \A e \in Nat, f \in Nat : f < e => <<f, e>> \in R
    BY DEF R, OpToRel
  <1>4. \A m \in T : ~(m < n)
    BY <1>2, <1>3
  <1> QED BY <1>2, <1>4

Stepped(f, s, batch, n) == f = [i \in 0..n |-> IF i = 0 THEN s ELSE Insert(f[i - 1], batch[i])]

LEMMA SteppedExists ==
  ASSUME NEW s, NEW batch, NEW n \in Nat
  PROVE  \E f : Stepped(f, s, batch, n)
  <1> DEFINE T == {m \in Nat : ~\E f : Stepped(f, s, batch, m)}
  <1>1. SUFFICES ASSUME T # {} PROVE FALSE
    OBVIOUS
  <1>2. PICK m \in T : \A k \in T : m <= k
    BY <1>1, Smallest
  <1>3. m # 0
    <2> DEFINE f == [i \in 0..0 |-> s]
    <2>1. Stepped(f, s, batch, 0)
      BY DEF Stepped
    <2> QED BY <1>2, <2>1
  <1>4. m - 1 \in Nat /\ m - 1 \notin T
    BY <1>2, <1>3
  <1>5. PICK f : Stepped(f, s, batch, m - 1)
    BY <1>4
  <1> DEFINE g == [i \in 0..m |-> IF i = m THEN Insert(f[m - 1], batch[m]) ELSE f[i]]
  <1>6. \A i \in 0..m : g[i] = IF i = 0 THEN s ELSE Insert(g[i - 1], batch[i])
    <2> TAKE i \in 0..m
    <2>1. CASE i = m
      BY <1>2, <1>3, <2>1
    <2>2. CASE i # m
      <3>1. i \in 0..(m - 1) /\ g[i] = f[i]
        BY <1>2, <2>2
      <3>2. f[i] = IF i = 0 THEN s ELSE Insert(f[i - 1], batch[i])
        BY <1>5, <3>1 DEF Stepped
      <3>3. i # 0 => g[i - 1] = f[i - 1]
        BY <1>2, <3>1
      <3> QED BY <3>1, <3>2, <3>3
    <2> QED BY <2>1, <2>2
  <1>7. Stepped(g, s, batch, m)
    BY <1>6 DEF Stepped
  <1> QED BY <1>2, <1>7

LEMMA InsertAllFields ==
  ASSUME NEW s, Series(s), NEW batch \in Seq(Bars)
  PROVE  /\ Series(InsertAll(s, batch)) /\ InsertAll(s, batch).rev >= s.rev
         /\ InsertAll(s, batch).rev = s.rev => InsertAll(s, batch) = s
  <1> DEFINE f == CHOOSE f : Stepped(f, s, batch, Len(batch))
             Fine(x) == Series(x) /\ x.rev >= s.rev /\ (x.rev = s.rev => x = s)
             T == {i \in 0..Len(batch) : ~Fine(f[i])}
  <1>1. Stepped(f, s, batch, Len(batch))
    BY SteppedExists
  <1>2. InsertAll(s, batch) = f[Len(batch)]
    BY DEF InsertAll, Stepped
  <1> HIDE DEF f
  <1>3. \A i \in 0..Len(batch) : f[i] = IF i = 0 THEN s ELSE Insert(f[i - 1], batch[i])
    BY <1>1 DEF Stepped
  <1>4. T = {}
    <2>1. SUFFICES ASSUME T # {} PROVE FALSE
      OBVIOUS
    <2>2. PICK i \in T : \A k \in T : i <= k
      <3>1. T \in SUBSET Nat
        OBVIOUS
      <3> HIDE DEF T
      <3> QED BY <2>1, <3>1, Smallest
    <2>3. i # 0
      <3>1. f[0] = s
        <4>1. 0 \in 0..Len(batch)
          OBVIOUS
        <4> HIDE DEF T, Fine
        <4> QED BY <1>3, <4>1
      <3>2. s.rev >= s.rev
        BY DEF Series
      <3> QED BY <2>2, <3>1, <3>2
    <2>4. i - 1 \in 0..Len(batch) /\ Fine(f[i - 1]) /\ i \in 1..Len(batch)
      BY <2>2, <2>3
    <2>5. f[i] = Insert(f[i - 1], batch[i]) /\ batch[i].t \in Int
      BY <1>3, <2>3, <2>4, CandlesAssumption
    <2>6. Fine(f[i])
      <3> DEFINE x == f[i - 1]
      <3>1. Series(x) /\ x.rev >= s.rev /\ (x.rev = s.rev => x = s) /\ f[i] = Insert(x, batch[i])
        BY <2>4, <2>5
      <3> HIDE DEF x
      <3>2. Series(Insert(x, batch[i])) /\ Insert(x, batch[i]).rev >= x.rev /\ (Insert(x, batch[i]).rev = x.rev => Insert(x, batch[i]) = x)
        BY <2>5, <3>1, InsertFields
      <3>3. f[i].rev \in Int /\ x.rev \in Int /\ s.rev \in Int
        BY <3>1, <3>2 DEF Series
      <3> QED BY <3>1, <3>2, <3>3
    <2> QED BY <2>2, <2>6
  <1>5. Fine(f[Len(batch)])
    BY <1>4
  <1> QED BY <1>2, <1>5

LEMMA EvictFields ==
  ASSUME NEW s, Series(s)
  PROVE  /\ Series(Evict(s)) /\ Cropped(Evict(s)) /\ Evict(s).rev = s.rev
         /\ Cropped(s) => Evict(s).bars = s.bars
  <1> DEFINE D == DOMAIN s.bars
             N == Newest(D, MaxBars)
  <1>0. IsFiniteSet(D) /\ Cardinality(D) \in Nat /\ MaxBars \in Nat \ {0} /\ D \subseteq Int
    BY FS_CardinalityType, StoredBarsAssumption DEF Series
  <1>1. CASE Cardinality(D) <= MaxBars
    <2>1. Evict(s) = s
      BY <1>1 DEF Evict
    <2>2. ASSUME NEW t \in D PROVE Cardinality({u \in D : u > t}) < MaxBars
      <3>1. IsFiniteSet(D \ {t}) /\ Cardinality(D \ {t}) = Cardinality(D) - 1
        BY <1>0, <2>2, FS_RemoveElement
      <3>2. {u \in D : u > t} \subseteq D \ {t}
        BY <1>0, <2>2
      <3>3. /\ IsFiniteSet({u \in D : u > t})
            /\ Cardinality({u \in D : u > t}) <= Cardinality(D \ {t})
        BY <3>1, <3>2, FS_Subset
      <3>4. Cardinality({u \in D : u > t}) \in Nat
        BY <3>3, FS_CardinalityType
      <3> QED BY <1>0, <1>1, <3>1, <3>3, <3>4
    <2> QED BY <2>1, <2>2 DEF Cropped
  <1>2. CASE ~(Cardinality(D) <= MaxBars)
    <2> DEFINE bars == Keep(s.bars, N)
               waits == Keep(s.pending, N)
    <2>1. Evict(s) = [s EXCEPT !.compact = s.rev, !.bars = bars, !.pending = waits]
      BY <1>2 DEF Evict, Crop
    <2>2. N \subseteq D /\ DOMAIN bars = N /\ bars = [t \in DOMAIN bars |-> bars[t]]
      BY DEF Keep, Newest
    <2> HIDE DEF bars, waits
    <2>3. Evict(s) = [loaded |-> s.loaded, bars |-> bars, pending |-> waits, rev |-> s.rev,
                      phys |-> s.phys, compact |-> s.rev]
      BY <2>1 DEF Series
    <2>4. IsFiniteSet(N)
      BY <1>0, <2>2, FS_Subset
    <2>5. Series(Evict(s)) /\ Evict(s).rev = s.rev /\ Evict(s).bars = bars
      BY <1>0, <2>2, <2>3, <2>4 DEF Series
    <2>6. ASSUME NEW t \in N PROVE Cardinality({u \in N : u > t}) < MaxBars
      <3>1. t \in D /\ Cardinality({u \in D : u > t}) < MaxBars
        BY <2>6 DEF Newest
      <3>2. {u \in N : u > t} \subseteq {u \in D : u > t} /\ {u \in D : u > t} \subseteq D
        BY <2>2
      <3>3. IsFiniteSet({u \in D : u > t})
        BY <1>0, <3>2, FS_Subset
      <3>4. Cardinality({u \in N : u > t}) <= Cardinality({u \in D : u > t}) /\ IsFiniteSet({u \in N : u > t})
        BY <3>2, <3>3, FS_Subset
      <3>5. Cardinality({u \in N : u > t}) \in Nat /\ Cardinality({u \in D : u > t}) \in Nat
        BY <3>3, <3>4, FS_CardinalityType
      <3> QED BY <1>0, <3>1, <3>4, <3>5
    <2>7. ASSUME Cropped(s) PROVE bars = s.bars
      <3>1. N = D
        BY <2>2, <2>7 DEF Cropped, Newest
      <3> HIDE DEF N
      <3> QED BY <3>1 DEF bars, Keep, Series
    <2>8. Cropped(Evict(s))
      BY <2>2, <2>5, <2>6 DEF Cropped
    <2> QED BY <2>5, <2>7, <2>8
  <1> QED BY <1>1, <1>2

LEMMA UpsertFields ==
  ASSUME NEW s, Series(s), Cropped(s), NEW batch \in Seq(Bars)
  PROVE  /\ Series(Upsert(s, batch)) /\ Cropped(Upsert(s, batch))
         /\ ~Changed(s, batch) => Upsert(s, batch).bars = s.bars
  <1> DEFINE x == InsertAll(s, batch)
  <1>1. Series(x) /\ (x.rev = s.rev => x = s)
    BY InsertAllFields
  <1> HIDE DEF x
  <1>2. Upsert(s, batch) = Evict(x) /\ (Changed(s, batch) <=> x.rev # s.rev)
    BY DEF Upsert, Changed, x
  <1> QED BY <1>1, <1>2, EvictFields
-----------------------------------------------------------------------------
\* Prices: who is about to write has read the rate in force, unless a rate was accepted
\* between its read and its write.
Tickers == [known : BOOLEAN, rate : Rates \cup {0}, error : BOOLEAN]
QuoteRecs == [kind : {"none", "price", "funding"}, step : {"idle", "read", "write"},
              rate : Rates \cup {0}, read : Tickers]
PricesInv ==
    /\ ticker \in Tickers /\ quote \in [Quotes -> QuoteRecs] /\ rate \in Rates \cup {0} /\ raced \in BOOLEAN
    /\ RateKept
    /\ \A q \in Quotes : ~raced /\ quote[q].step = "write" /\ quote[q].read.known => quote[q].read.rate = rate

LEMMA NoQuoteFields ==
  /\ NoTicker \in Tickers /\ ~NoTicker.known
  /\ NoQuote \in QuoteRecs /\ NoQuote.step = "idle"
  <1>1. NoTicker \in Tickers /\ ~NoTicker.known
    BY DEF NoTicker, Tickers
  <1> QED BY <1>1 DEF NoQuote, QuoteRecs

LEMMA PricesInit == MarketInit => PricesInv
  BY NoQuoteFields DEF MarketInit, PricesInv, RateKept

LEMMA PricesNext == PricesInv /\ [MarketNext]_marketVars => PricesInv'
  <1> SUFFICES ASSUME PricesInv, [MarketNext]_marketVars PROVE PricesInv'
    OBVIOUS
  <1>1. CASE UNCHANGED prices
    BY <1>1 DEF PricesInv, RateKept, prices
  <1>2. CASE RestartMarket
    <2>1. ticker' = NoTicker /\ rate' = 0 /\ raced' = FALSE /\ quote' = [q \in Quotes |-> NoQuote]
      BY <1>2 DEF RestartMarket
    <2> QED BY <2>1, NoQuoteFields DEF PricesInv, RateKept
  <1>3. ASSUME NEW q \in Quotes, NEW kind \in {"price", "funding"}, NEW r \in Rates, StartQuote(q, kind, r)
        PROVE  PricesInv'
    <2> DEFINE x == [kind |-> kind, step |-> "read", rate |-> r, read |-> NoTicker]
    <2>1. quote' = [quote EXCEPT ![q] = x] /\ UNCHANGED <<ticker, rate, raced>>
      BY <1>3 DEF StartQuote
    <2>2. x \in QuoteRecs /\ x.step = "read"
      BY NoQuoteFields DEF QuoteRecs
    <2> HIDE DEF x
    <2> QED BY <2>1, <2>2 DEF PricesInv, RateKept
  <1>4. ASSUME NEW q \in Quotes, ReadTicker(q) PROVE PricesInv'
    <2>1. quote' = [quote EXCEPT ![q].step = "write", ![q].read = ticker] /\ UNCHANGED <<ticker, rate, raced>>
      BY <1>4 DEF ReadTicker
    <2>2. quote[q] \in QuoteRecs /\ ticker \in Tickers /\ quote \in [Quotes -> QuoteRecs]
      BY DEF PricesInv
    <2>3. PICK x : x = quote'[q]
      OBVIOUS
    <2>4. /\ quote' = [quote EXCEPT ![q] = x] /\ x.read = ticker
          /\ x \in [kind : {"none", "price", "funding"}, step : {"idle", "read", "write"},
                    rate : Rates \cup {0}, read : Tickers]
      BY <2>1, <2>2, <2>3 DEF QuoteRecs
    <2>5. x \in QuoteRecs
      BY <2>4 DEF QuoteRecs
    <2>6. quote' \in [Quotes -> QuoteRecs] /\ \A p \in Quotes : p = q \/ quote'[p] = quote[p]
      BY <2>2, <2>4, <2>5
    <2> QED BY <2>1, <2>3, <2>4, <2>6 DEF PricesInv, RateKept
  <1>5. ASSUME NEW q \in Quotes, WriteTicker(q) PROVE PricesInv'
    <2> DEFINE w == quote[q]
               accepts == IF w.kind = "funding" THEN w.rate # 0 ELSE ~w.read.known
               others == \E p \in Quotes \ {q} : quote[p].step = "write"
    <2>1. /\ w \in QuoteRecs /\ w.step = "write"
          /\ ticker' = IF w.kind = "funding" THEN Funded(w.read, w.rate) ELSE Priced(w.read, w.rate)
          /\ rate' = IF accepts THEN w.rate ELSE rate
          /\ raced' = IF accepts THEN others ELSE raced
          /\ quote' = [quote EXCEPT ![q] = NoQuote]
      BY <1>5 DEF WriteTicker, PricesInv
    <2>2. /\ w.read \in Tickers /\ w.rate \in Rates \cup {0} /\ ticker \in Tickers
          /\ (~raced /\ w.read.known => w.read.rate = rate) /\ (~raced /\ ticker.known => ticker.rate = rate)
      BY <2>1 DEF PricesInv, QuoteRecs, RateKept
    <2>3. quote' \in [Quotes -> QuoteRecs] /\ \A p \in Quotes : quote'[p] = IF p = q THEN NoQuote ELSE quote[p]
      BY <2>1, NoQuoteFields DEF PricesInv
    <2>4. NoQuote.step = "idle"
      BY NoQuoteFields
    <2>5. CASE accepts
      <3>1. ticker' = [known |-> TRUE, rate |-> w.rate, error |-> IF w.kind = "funding" THEN FALSE ELSE w.rate = 0]
        BY <2>1, <2>5 DEF Funded, Priced
      <3>2. rate' = w.rate /\ raced' = others
        BY <2>1, <2>5
      <3> QED BY <2>2, <2>3, <2>4, <3>1, <3>2 DEF PricesInv, RateKept, Tickers
    <2>6. CASE ~accepts
      <3>1. rate' = rate /\ raced' = raced
        BY <2>1, <2>6
      <3>2. ticker' = w.read \/ ticker' = ticker \/ (w.read.known /\ ticker' = [w.read EXCEPT !.error = TRUE])
        BY <2>1, <2>6 DEF Funded, Priced
      <3>3. w.read.known \/ ticker' = ticker
        BY <2>1, <2>6 DEF Funded, Priced
      <3>4. ticker' \in Tickers /\ (~raced /\ ticker'.known => ticker'.rate = rate)
        BY <2>2, <3>2, <3>3 DEF Tickers
      <3> QED BY <2>2, <2>3, <2>4, <3>1, <3>4 DEF PricesInv, RateKept
    <2> QED BY <2>5, <2>6
  <1>6. ASSUME NEW j \in Jobs,
               \/ StreamBars(j) \/ StartOwnedFetch(j) \/ Fetched(j) \/ FetchFails(j) \/ AbortOwned(j)
               \/ Merge(j) \/ LoadDisplay(j) \/ Publish(j) \/ \E k \in due : StartFetch(j, k)
        PROVE  UNCHANGED prices
    BY <1>6 DEF StreamBars, StartOwnedFetch, Fetched, FetchFails, AbortOwned, Merge, LoadDisplay, Publish, StartFetch
  <1>7. ASSUME \/ \E k \in Switches : SetChartContext(k)
               \/ LoadLocal \/ PersistContext \/ CommitContext \/ PersistFails \/ PublishLocal
        PROVE  UNCHANGED prices
    BY <1>7 DEF SetChartContext, LoadLocal, PersistContext, CommitContext, PersistFails, PublishLocal
  <1>8. CASE UNCHANGED marketVars
    BY <1>1, <1>8 DEF marketVars
  <1> QED BY <1>1, <1>2, <1>3, <1>4, <1>5, <1>6, <1>7, <1>8 DEF MarketNext
-----------------------------------------------------------------------------
\* The screen: chart and stream name one key, and a change that is under way names another
\* until it is committed.
ScreenInv ==
    /\ context \in Keys /\ saved \in Keys /\ streamed = context
    /\ chart = [step |-> chart.step, next |-> chart.next, local |-> chart.local] /\ chart.next \in Keys
    /\ chart.step \in {"idle", "load", "persist", "commit", "publish"}
    /\ chart.step \in {"load", "persist"} => chart.next # context
    /\ chart.step = "commit" => saved = chart.next /\ saved # context
    /\ chart.step # "commit" => saved = context

LEMMA ScreenInit == MarketInit => ScreenInv
  BY ChartKeysAssumption DEF MarketInit, ScreenInv, NoChart, AnyKey

LEMMA ScreenNext == ScreenInv /\ [MarketNext]_marketVars => ScreenInv'
  <1> SUFFICES ASSUME ScreenInv, [MarketNext]_marketVars PROVE ScreenInv'
    OBVIOUS
  <1>0. AnyKey \in Keys
    BY ChartKeysAssumption DEF AnyKey
  <1>1. CASE UNCHANGED screen
    BY <1>1 DEF ScreenInv, screen
  <1>2. ASSUME NEW j \in Jobs,
               \/ StreamBars(j) \/ StartOwnedFetch(j) \/ Fetched(j) \/ FetchFails(j) \/ AbortOwned(j)
               \/ Merge(j) \/ LoadDisplay(j) \/ Publish(j) \/ \E k \in due : StartFetch(j, k)
        PROVE  UNCHANGED screen
    BY <1>2 DEF StreamBars, StartOwnedFetch, Fetched, FetchFails, AbortOwned, Merge, LoadDisplay, Publish, StartFetch
  <1>3. ASSUME NEW q \in Quotes,
               \/ \E kind \in {"price", "funding"}, r \in Rates : StartQuote(q, kind, r)
               \/ ReadTicker(q) \/ WriteTicker(q)
        PROVE  UNCHANGED screen
    BY <1>3 DEF StartQuote, ReadTicker, WriteTicker
  <1>4. ASSUME NEW k \in Switches, SetChartContext(k) PROVE ScreenInv'
    BY <1>4, ChartKeysAssumption DEF SetChartContext, ScreenInv
  <1>5. CASE LoadLocal
    BY <1>5 DEF LoadLocal, ScreenInv
  <1>6. CASE PersistContext
    BY <1>6 DEF PersistContext, ScreenInv
  <1>7. CASE CommitContext
    BY <1>7 DEF CommitContext, ScreenInv
  <1>8. CASE PersistFails
    BY <1>0, <1>8 DEF PersistFails, ScreenInv, NoChart
  <1>9. CASE PublishLocal
    BY <1>0, <1>9 DEF PublishLocal, ScreenInv, NoChart
  <1>10. CASE RestartMarket
    BY <1>0, <1>10 DEF RestartMarket, ScreenInv, NoChart
  <1>11. CASE UNCHANGED marketVars
    BY <1>1, <1>11 DEF marketVars
  <1> QED BY <1>1, <1>2, <1>3, <1>4, <1>5, <1>6, <1>7, <1>8, <1>9, <1>10, <1>11 DEF MarketNext
-----------------------------------------------------------------------------
\* Candles: unless two publications ran into each other, whoever is about to publish a
\* key has read what the store holds, and a chart that shows something else is about to
\* be told by a job that changed the store.
JobOK(x) ==
    /\ x = [kind |-> x.kind, key |-> x.key, step |-> x.step, bars |-> x.bars, display |-> x.display,
            changed |-> x.changed]
    /\ x.key \in Keys /\ x.bars \in Seq(Bars)
    /\ x.step \in {"idle", "fetch", "merge", "load", "publish"}

Holdings ==
    /\ store = [k \in Keys |-> store[k]] /\ shown = [k \in Keys |-> shown[k]]
    /\ job = [j \in Jobs |-> job[j]]
    /\ \A k \in Keys : Series(store[k]) /\ Cropped(store[k])
    /\ \A j \in Jobs : JobOK(job[j])
    /\ due \subseteq Keys /\ overlapped \subseteq Keys

At(x, k) == x.key = k /\ x.step \in {"load", "publish"}

Faithful(k) ==
    k \notin overlapped =>
      /\ ChartPublishing(k) => chart.local = DisplayOf(k)
      /\ \A i \in Jobs : job[i].key = k /\ job[i].step = "publish" => job[i].display = DisplayOf(k)
      /\ shown[k] # Hidden /\ shown[k] # DisplayOf(k) => \E i \in Jobs : At(job[i], k) /\ job[i].changed

CandlesInv == Holdings /\ \A k \in Keys : Faithful(k)

LEMMA JobFields ==
  ASSUME NEW kind, NEW k \in Keys, NEW step \in {"idle", "fetch", "merge"}, NEW bars \in Seq(Bars)
  PROVE  JobOK(Job(kind, k, step, bars)) /\ Job(kind, k, step, bars).step = step
  BY DEF Job, JobOK

LEMMA NoJobFields == JobOK(NoJob) /\ NoJob.step = "idle"
  <1>1. AnyKey \in Keys
    BY ChartKeysAssumption DEF AnyKey
  <1>2. <<>> \in Seq(Bars)
    OBVIOUS
  <1> QED BY <1>1, <1>2, JobFields DEF NoJob

LEMMA FetchedFields ==
  ASSUME NEW x, JobOK(x), NEW bars \in Seq(Bars)
  PROVE  /\ JobOK([x EXCEPT !.step = "merge", !.bars = bars])
         /\ [x EXCEPT !.step = "merge", !.bars = bars].step = "merge"
  <1> DEFINE y == [x EXCEPT !.step = "merge", !.bars = bars]
  <1>1. y = [kind |-> x.kind, key |-> x.key, step |-> "merge", bars |-> bars, display |-> x.display,
             changed |-> x.changed]
    <2>1. x = [kind |-> x.kind, key |-> x.key, step |-> x.step, bars |-> x.bars, display |-> x.display,
               changed |-> x.changed]
      BY DEF JobOK
    <2>2. PICK z : z = [x EXCEPT !.step = "merge"]
      OBVIOUS
    <2>3. z = [kind |-> x.kind, key |-> x.key, step |-> "merge", bars |-> x.bars, display |-> x.display,
               changed |-> x.changed]
      BY <2>1, <2>2
    <2>4. [z EXCEPT !.bars = bars]
            = [kind |-> x.kind, key |-> x.key, step |-> "merge", bars |-> bars, display |-> x.display,
               changed |-> x.changed]
      BY <2>3
    <2> QED BY <2>2, <2>4
  <1> HIDE DEF y
  <1>2. JobOK(y) /\ y.step = "merge"
    BY <1>1 DEF JobOK
  <1> QED BY <1>2 DEF y

LEMMA DisplaySame ==
  ASSUME NEW k, store'[k].bars = store[k].bars
  PROVE  DisplayOf(k)' = DisplayOf(k)
  BY DEF DisplayOf, LoadRange

LEMMA LoadedFields ==
  ASSUME NEW f, NEW e, NEW n, NEW a, NEW b,
         f = [loaded |-> a, bars |-> e, pending |-> e, rev |-> 0, phys |-> 0, compact |-> n]
  PROVE  [f EXCEPT !.loaded = b]
           = [loaded |-> b, bars |-> e, pending |-> e, rev |-> 0, phys |-> 0, compact |-> n]
  OBVIOUS

LEMMA CandlesInit == MarketInit => CandlesInv
  <1> SUFFICES ASSUME MarketInit PROVE CandlesInv
    OBVIOUS
  <1>1. /\ store = [k \in Keys |-> [Fresh EXCEPT !.loaded = TRUE]] /\ shown = [k \in Keys |-> Hidden]
        /\ job = [j \in Jobs |-> NoJob] /\ due = {} /\ overlapped = {} /\ chart = NoChart
    BY DEF MarketInit
  <1>0. PICK f : f = Fresh
    OBVIOUS
  <1> DEFINE s == [f EXCEPT !.loaded = TRUE]
  <1>2. s = [loaded |-> TRUE, bars |-> <<>>, pending |-> <<>>, rev |-> 0, phys |-> 0, compact |-> NoRevision]
    <2>1. PICK e : e = <<>>
      OBVIOUS
    <2>2. PICK n : n = NoRevision
      OBVIOUS
    <2>3. PICK a : a = FALSE
      OBVIOUS
    <2>4. PICK b : b = TRUE
      OBVIOUS
    <2>5. f = [loaded |-> a, bars |-> e, pending |-> e, rev |-> 0, phys |-> 0, compact |-> n]
      BY <1>0, <2>1, <2>2, <2>3, Zenon DEF Fresh
    <2>6. [f EXCEPT !.loaded = b]
            = [loaded |-> b, bars |-> e, pending |-> e, rev |-> 0, phys |-> 0, compact |-> n]
      BY <2>5, LoadedFields
    <2> QED BY <2>1, <2>2, <2>4, <2>6, Zenon
  <1>3. Series(s) /\ Cropped(s)
    <2>1. DOMAIN <<>> = {} /\ <<>> = [t \in DOMAIN <<>> |-> <<>>[t]]
      OBVIOUS
    <2>2. IsFiniteSet({})
      BY FS_EmptySet
    <2> HIDE DEF s
    <2> QED BY <1>2, <2>1, <2>2 DEF Series, Cropped
  <1>6. store = [k \in Keys |-> s]
    BY <1>0, <1>1
  <1> HIDE DEF s
  <1>4. Holdings
    BY <1>1, <1>3, <1>6, NoJobFields DEF Holdings
  <1>5. \A k \in Keys : Faithful(k)
    BY <1>1, NoJobFields DEF Faithful, ChartPublishing, NoChart, At
  <1> QED BY <1>4, <1>5 DEF CandlesInv

\* A step of one job before its merge, which nobody sees.
LEMMA QuietJob ==
  ASSUME CandlesInv, NEW j \in Jobs, NEW x, JobOK(x), ~(x.step \in {"load", "publish"}),
         ~(job[j].step \in {"load", "publish"}), job' = [job EXCEPT ![j] = x],
         UNCHANGED <<store, shown, overlapped, chart>>, due' \subseteq Keys
  PROVE  CandlesInv'
  <1>1. \A i \in Jobs : job'[i] = IF i = j THEN x ELSE job[i]
    BY DEF CandlesInv, Holdings
  <1>2. Holdings'
    BY <1>1 DEF CandlesInv, Holdings
  <1>3. ASSUME NEW k \in Keys PROVE Faithful(k)'
    <2>1. DisplayOf(k)' = DisplayOf(k)
      BY DisplaySame
    <2> QED BY <1>1, <2>1 DEF CandlesInv, Faithful, ChartPublishing, At
  <1> QED BY <1>2, <1>3 DEF CandlesInv

\* A step of the command that changes the chart, before it publishes.
LEMMA QuietChart ==
  ASSUME CandlesInv, UNCHANGED candles,
         \A k \in Keys : ChartPublishing(k)' => ChartPublishing(k) /\ chart'.local = chart.local
  PROVE  CandlesInv'
  <1>1. Holdings'
    BY DEF CandlesInv, Holdings, candles
  <1>2. ASSUME NEW k \in Keys PROVE Faithful(k)'
    <2>1. DisplayOf(k)' = DisplayOf(k) /\ UNCHANGED <<shown, job, overlapped>>
      BY DisplaySame DEF candles
    <2> QED BY <2>1 DEF CandlesInv, Faithful, At
  <1> QED BY <1>1, <1>2 DEF CandlesInv

LEMMA MergeCandles ==
  ASSUME CandlesInv, NEW j \in Jobs, Merge(j)
  PROVE  CandlesInv'
  <1>0. PICK k : k = job[j].key
    OBVIOUS
  <1> DEFINE s == Upsert(store[k], job[j].bars)
             changed == Changed(store[k], job[j].bars)
  <1>1. /\ job[j].step = "merge" /\ store' = [store EXCEPT ![k] = s]
        /\ job' = [job EXCEPT ![j].step = "load", ![j].changed = changed]
        /\ overlapped' = (IF changed /\ Publishing(k) THEN overlapped \cup {k} ELSE overlapped)
        /\ UNCHANGED <<shown, due, chart>>
    BY <1>0 DEF Merge, screen
  <1>2. k \in Keys /\ JobOK(job[j])
    BY <1>0 DEF CandlesInv, Holdings, JobOK
  <1>3. Series(s) /\ Cropped(s) /\ (~changed => s.bars = store[k].bars)
    BY <1>0, <1>2, UpsertFields DEF CandlesInv, Holdings, JobOK
  <1> HIDE DEF s, changed
  <1>4. \A i \in Jobs : i # j => job'[i] = job[i]
    BY <1>1 DEF CandlesInv, Holdings
  <1>5. JobOK(job'[j]) /\ job'[j].step = "load" /\ job'[j].key = k /\ job'[j].changed = changed
    BY <1>0, <1>1, <1>2 DEF CandlesInv, Holdings, JobOK
  <1>6. \A q \in Keys : store'[q] = IF q = k THEN s ELSE store[q]
    BY <1>1 DEF CandlesInv, Holdings
  <1>7. Holdings'
    <2>1. store' = [q \in Keys |-> store'[q]] /\ job' = [i \in Jobs |-> job'[i]]
      BY <1>1 DEF CandlesInv, Holdings
    <2>2. overlapped' \subseteq Keys
      BY <1>1, <1>2 DEF CandlesInv, Holdings
    <2> QED BY <1>1, <1>3, <1>4, <1>5, <1>6, <2>1, <2>2 DEF CandlesInv, Holdings
  <1>8. ASSUME NEW q \in Keys PROVE Faithful(q)'
    <2>1. CASE q # k \/ ~changed
      <3>1. DisplayOf(q)' = DisplayOf(q)
        BY <1>3, <1>6, <2>1, DisplaySame
      <3>2. overlapped' = overlapped \/ (changed /\ overlapped' = overlapped \cup {k})
        BY <1>1
      <3>3. ChartPublishing(q)' <=> ChartPublishing(q)
        BY <1>1 DEF ChartPublishing
      <3>4. q \notin overlapped' => q \notin overlapped
        BY <1>1
      <3>5. \A i \in Jobs : At(job[i], q) /\ job[i].changed => At(job'[i], q) /\ job'[i].changed
        BY <1>0, <1>1, <1>4 DEF At
      <3>6. \A i \in Jobs : job'[i].key = q /\ job'[i].step = "publish" => i # j /\ job[i].key = q /\ job[i].step = "publish"
        BY <1>4, <1>5
      <3>7. Faithful(q)
        BY DEF CandlesInv
      <3> QED BY <1>1, <1>4, <3>1, <3>3, <3>4, <3>5, <3>6, <3>7 DEF Faithful
    <2>2. CASE q = k /\ changed
      <3>1. SUFFICES ASSUME k \notin overlapped' PROVE Faithful(k)'
        BY <2>2 DEF Faithful
      <3>2. ~Publishing(k)
        BY <1>1, <2>2, <3>1
      <3>3. ~ChartPublishing(k)'
        BY <1>1, <3>2 DEF Publishing, ChartPublishing
      <3>4. \A i \in Jobs : ~(job'[i].key = k /\ job'[i].step = "publish")
        BY <1>4, <1>5, <3>2 DEF Publishing, JobPublishing
      <3>5. At(job'[j], k) /\ job'[j].changed
        BY <1>5, <2>2 DEF At
      <3> QED BY <3>3, <3>4, <3>5 DEF Faithful
    <2> QED BY <2>1, <2>2
  <1> QED BY <1>7, <1>8 DEF CandlesInv

LEMMA LoadDisplayCandles ==
  ASSUME CandlesInv, NEW j \in Jobs, LoadDisplay(j)
  PROVE  CandlesInv'
  <1>0. PICK k : k = job[j].key
    OBVIOUS
  <1>1. /\ job[j].step = "load" /\ UNCHANGED <<store, shown, due, overlapped, chart>>
        /\ job' = [job EXCEPT ![j].step = "publish", ![j].display = DisplayOf(k)]
    BY <1>0 DEF LoadDisplay, screen
  <1>2. JobOK(job[j])
    BY DEF CandlesInv, Holdings
  <1>3. \A i \in Jobs : i # j => job'[i] = job[i]
    BY <1>1 DEF CandlesInv, Holdings
  <1>4. /\ JobOK(job'[j]) /\ job'[j].step = "publish" /\ job'[j].key = k /\ job'[j].changed = job[j].changed
        /\ job'[j].display = DisplayOf(k)
    BY <1>0, <1>1, <1>2 DEF CandlesInv, Holdings, JobOK
  <1>5. Holdings'
    BY <1>1, <1>3, <1>4 DEF CandlesInv, Holdings
  <1>6. ASSUME NEW q \in Keys PROVE Faithful(q)'
    <2>1. DisplayOf(q)' = DisplayOf(q)
      BY <1>1, DisplaySame
    <2>2. \A i \in Jobs : At(job[i], q) /\ job[i].changed => At(job'[i], q) /\ job'[i].changed
      BY <1>0, <1>1, <1>3, <1>4 DEF At
    <2>3. Faithful(q)
      BY DEF CandlesInv
    <2>4. ChartPublishing(q)' <=> ChartPublishing(q)
      BY <1>1 DEF ChartPublishing
    <2>5. \A i \in Jobs : job'[i].key = q /\ job'[i].step = "publish" =>
            \/ job'[i].display = DisplayOf(q)
            \/ job[i].key = q /\ job[i].step = "publish" /\ job'[i].display = job[i].display
      BY <1>3, <1>4
    <2> QED BY <1>1, <2>1, <2>2, <2>3, <2>4, <2>5 DEF Faithful
  <1> QED BY <1>5, <1>6 DEF CandlesInv

LEMMA PublishCandles ==
  ASSUME CandlesInv, NEW j \in Jobs, Publish(j)
  PROVE  CandlesInv'
  <1>0. PICK k : k = job[j].key
    OBVIOUS
  <1> DEFINE Calm == shown'[k] = DisplayOf(k) /\ ~JobPublishing(k, Jobs \ {j}) /\ ~ChartPublishing(k)
  <1>1. /\ job[j].step = "publish" /\ UNCHANGED <<store, chart>>
        /\ shown' = IF job[j].changed THEN [shown EXCEPT ![k] = job[j].display] ELSE shown
        /\ due' = due \/ due' = due \cup {k}
        /\ job' = [job EXCEPT ![j] = NoJob]
        /\ overlapped' = IF Calm THEN overlapped \ {k} ELSE overlapped
    BY <1>0 DEF Publish, screen
  <1>2. k \in Keys
    BY <1>0 DEF CandlesInv, Holdings, JobOK
  <1>3. \A i \in Jobs : job'[i] = IF i = j THEN NoJob ELSE job[i]
    BY <1>1 DEF CandlesInv, Holdings
  <1>4. Holdings'
    <2>1. shown' = [q \in Keys |-> shown'[q]] /\ job' = [i \in Jobs |-> job'[i]]
      BY <1>1 DEF CandlesInv, Holdings
    <2>2. due' \subseteq Keys /\ overlapped' \subseteq Keys
      BY <1>1, <1>2 DEF CandlesInv, Holdings
    <2> QED BY <1>1, <1>3, <2>1, <2>2, NoJobFields DEF CandlesInv, Holdings
  <1>5. ASSUME NEW q \in Keys PROVE Faithful(q)'
    <2>1. DisplayOf(q)' = DisplayOf(q)
      BY <1>1, DisplaySame
    <2>2. \A i \in Jobs : At(job'[i], q) <=> i # j /\ At(job[i], q)
      BY <1>3, NoJobFields DEF At
    <2>3. ChartPublishing(q)' <=> ChartPublishing(q)
      BY <1>1 DEF ChartPublishing
    <2>4. CASE q # k
      <3>1. shown'[q] = shown[q] /\ (q \in overlapped' <=> q \in overlapped)
        BY <1>1, <2>4 DEF CandlesInv, Holdings
      <3>2. \A i \in Jobs : At(job[i], q) => i # j
        BY <1>0, <2>4 DEF At
      <3>3. Faithful(q)
        BY DEF CandlesInv
      <3> QED BY <1>1, <1>3, <2>1, <2>2, <2>3, <3>1, <3>2, <3>3, NoJobFields DEF Faithful
    <2>5. CASE q = k /\ Calm
      <3>1. ~ChartPublishing(k)' /\ shown'[k] = DisplayOf(k)'
        BY <2>1, <2>3, <2>5
      <3>2. \A i \in Jobs : ~At(job'[i], k)
        BY <2>2, <2>5 DEF JobPublishing, At
      <3> QED BY <2>5, <3>1, <3>2 DEF Faithful, At
    <2>6. CASE q = k /\ ~Calm
      <3>1. overlapped' = overlapped
        BY <1>1, <2>6
      <3>2. SUFFICES ASSUME k \notin overlapped PROVE Faithful(k)'
        BY <2>6, <3>1 DEF Faithful
      <3>3. Faithful(k) /\ job[j].display = DisplayOf(k)
        BY <1>0, <1>1, <1>2, <3>2 DEF CandlesInv, Faithful
      <3>4. job[j].changed => shown'[k] = DisplayOf(k)
        BY <1>1, <1>2, <3>3 DEF CandlesInv, Holdings
      <3>5. ~job[j].changed => shown'[k] = shown[k]
        BY <1>1
      <3>6. \A i \in Jobs : At(job[i], k) /\ job[i].changed /\ ~job[j].changed => At(job'[i], k) /\ job'[i].changed
        BY <1>3, <2>2, <2>6
      <3>7. \A i \in Jobs : job'[i].key = k /\ job'[i].step = "publish" => i # j /\ job'[i] = job[i]
        BY <1>3, NoJobFields
      <3>8. DisplayOf(k)' = DisplayOf(k) /\ (ChartPublishing(k)' <=> ChartPublishing(k)) /\ chart' = chart
        BY <1>1, <2>1, <2>3, <2>6
      <3> HIDE DEF Calm
      <3> QED BY <3>1, <3>2, <3>3, <3>4, <3>5, <3>6, <3>7, <3>8 DEF Faithful
    <2> QED BY <2>4, <2>5, <2>6
  <1> QED BY <1>4, <1>5 DEF CandlesInv

LEMMA LoadLocalCandles ==
  ASSUME CandlesInv, ScreenInv, LoadLocal
  PROVE  CandlesInv'
  <1>1. chart' = [chart EXCEPT !.step = "persist", !.local = DisplayOf(chart.next)] /\ UNCHANGED candles
    BY DEF LoadLocal
  <1>2. chart'.local = DisplayOf(chart.next) /\ chart'.next = chart.next
    BY <1>1 DEF ScreenInv
  <1>3. Holdings'
    BY <1>1 DEF CandlesInv, Holdings, candles
  <1>4. ASSUME NEW k \in Keys PROVE Faithful(k)'
    <2>1. DisplayOf(k)' = DisplayOf(k) /\ UNCHANGED <<shown, job, overlapped>>
      BY <1>1, DisplaySame DEF candles
    <2>2. ChartPublishing(k)' => chart'.local = DisplayOf(k)
      BY <1>2 DEF ChartPublishing
    <2> QED BY <2>1, <2>2 DEF CandlesInv, Faithful, At
  <1> QED BY <1>3, <1>4 DEF CandlesInv

LEMMA PublishLocalCandles ==
  ASSUME CandlesInv, ScreenInv, PublishLocal
  PROVE  CandlesInv'
  <1>0. PICK k : k = chart.next
    OBVIOUS
  <1> DEFINE Calm == chart.local = DisplayOf(k) /\ ~JobPublishing(k, Jobs)
  <1>1. /\ chart.step = "publish" /\ shown' = [shown EXCEPT ![k] = chart.local] /\ due' = due \cup {k}
        /\ chart' = NoChart /\ overlapped' = (IF Calm THEN overlapped \ {k} ELSE overlapped)
        /\ UNCHANGED <<store, job>>
    BY <1>0 DEF PublishLocal
  <1>2. k \in Keys /\ ChartPublishing(k)
    BY <1>0, <1>1 DEF ScreenInv, ChartPublishing
  <1>3. Holdings'
    BY <1>1, <1>2 DEF CandlesInv, Holdings
  <1>4. ASSUME NEW q \in Keys PROVE Faithful(q)'
    <2>1. DisplayOf(q)' = DisplayOf(q) /\ ~ChartPublishing(q)'
      BY <1>1, DisplaySame DEF ChartPublishing, NoChart
    <2>2. CASE q # k
      <3>1. shown'[q] = shown[q] /\ (q \in overlapped' <=> q \in overlapped)
        BY <1>1, <2>2 DEF CandlesInv, Holdings
      <3> QED BY <1>1, <2>1, <3>1 DEF CandlesInv, Faithful
    <2>3. CASE q = k /\ Calm
      <3>1. shown'[k] = DisplayOf(k)'
        BY <1>1, <1>2, <2>1, <2>3 DEF CandlesInv, Holdings
      <3>2. \A i \in Jobs : ~At(job'[i], k)
        BY <1>1, <2>3 DEF JobPublishing, At
      <3> QED BY <2>1, <2>3, <3>1, <3>2 DEF Faithful, At
    <2>4. CASE q = k /\ ~Calm
      <3>1. overlapped' = overlapped
        BY <1>1, <2>4
      <3>2. SUFFICES ASSUME k \notin overlapped PROVE Faithful(k)'
        BY <2>4, <3>1 DEF Faithful
      <3>3. Faithful(k) /\ chart.local = DisplayOf(k)
        BY <1>2, <3>2 DEF CandlesInv, Faithful
      <3>4. shown'[k] = DisplayOf(k)'
        BY <1>1, <1>2, <2>1, <2>4, <3>3 DEF CandlesInv, Holdings
      <3>5. DisplayOf(k)' = DisplayOf(k) /\ ~ChartPublishing(k)' /\ job' = job
        BY <1>1, <2>1, <2>4
      <3> HIDE DEF Calm
      <3> QED BY <3>2, <3>3, <3>4, <3>5 DEF Faithful
    <2> QED BY <2>2, <2>3, <2>4
  <1> QED BY <1>3, <1>4 DEF CandlesInv

LEMMA RestartCandles ==
  ASSUME CandlesInv, RestartMarket
  PROVE  CandlesInv'
  <1>1. /\ chart' = NoChart /\ job' = [j \in Jobs |-> NoJob] /\ due' = {} /\ overlapped' = {} /\ store' = store
        /\ shown' = [k \in Keys |-> IF k = saved /\ store[k].bars # <<>> THEN DisplayOf(k) ELSE Hidden]
    BY DEF RestartMarket
  <1>2. Holdings'
    BY <1>1, NoJobFields DEF CandlesInv, Holdings
  <1>3. ASSUME NEW k \in Keys PROVE Faithful(k)'
    <2>1. DisplayOf(k)' = DisplayOf(k) /\ ~ChartPublishing(k)'
      BY <1>1, DisplaySame DEF ChartPublishing, NoChart
    <2>2. shown'[k] = Hidden \/ shown'[k] = DisplayOf(k)
      BY <1>1
    <2> QED BY <1>1, <2>1, <2>2, NoJobFields DEF Faithful
  <1> QED BY <1>2, <1>3 DEF CandlesInv

LEMMA CandlesNext == CandlesInv /\ ScreenInv /\ [MarketNext]_marketVars => CandlesInv'
  <1> SUFFICES ASSUME CandlesInv, ScreenInv, [MarketNext]_marketVars PROVE CandlesInv'
    OBVIOUS
  <1>0. \A b \in Bars : <<b>> \in Seq(Bars)
    OBVIOUS
  <1>1. ASSUME NEW j \in Jobs, StreamBars(j) PROVE CandlesInv'
    <2>1. PICK b \in Bars : job' = [job EXCEPT ![j] = Job("stream", streamed, "merge", <<b>>)]
      BY <1>1 DEF StreamBars
    <2>2. JobOK(Job("stream", streamed, "merge", <<b>>)) /\ Job("stream", streamed, "merge", <<b>>).step = "merge"
      BY <1>0, JobFields DEF ScreenInv
    <2>3. job[j].step = "idle" /\ UNCHANGED <<store, shown, overlapped, chart, due>>
      BY <1>1 DEF StreamBars, screen
    <2>4. due' \subseteq Keys
      BY <2>3 DEF CandlesInv, Holdings
    <2> QED BY <2>1, <2>2, <2>3, <2>4, QuietJob
  <1>2. ASSUME NEW j \in Jobs, NEW k \in due, StartFetch(j, k) PROVE CandlesInv'
    <2>1. job' = [job EXCEPT ![j] = Job("detached", k, "fetch", <<>>)]
      BY <1>2 DEF StartFetch
    <2>2. k \in Keys /\ <<>> \in Seq(Bars)
      BY DEF CandlesInv, Holdings
    <2>3. JobOK(Job("detached", k, "fetch", <<>>)) /\ Job("detached", k, "fetch", <<>>).step = "fetch"
      BY <2>2, JobFields
    <2>4. job[j].step = "idle" /\ UNCHANGED <<store, shown, overlapped, chart>> /\ due' = due \ {k}
      BY <1>2 DEF StartFetch, screen
    <2>5. due' \subseteq Keys
      BY <2>4 DEF CandlesInv, Holdings
    <2> QED BY <2>1, <2>3, <2>4, <2>5, QuietJob
  <1>3. ASSUME NEW j \in Jobs, StartOwnedFetch(j) PROVE CandlesInv'
    <2>1. job' = [job EXCEPT ![j] = Job("owned", context, "fetch", <<>>)]
      BY <1>3 DEF StartOwnedFetch
    <2>2. JobOK(Job("owned", context, "fetch", <<>>)) /\ Job("owned", context, "fetch", <<>>).step = "fetch"
      <3>1. context \in Keys /\ <<>> \in Seq(Bars)
        BY DEF ScreenInv
      <3> QED BY <3>1, JobFields
    <2>3. job[j].step = "idle" /\ UNCHANGED <<store, shown, overlapped, chart, due>>
      BY <1>3 DEF StartOwnedFetch, screen
    <2>4. due' \subseteq Keys
      BY <2>3 DEF CandlesInv, Holdings
    <2> QED BY <2>1, <2>2, <2>3, <2>4, QuietJob
  <1>4. ASSUME NEW j \in Jobs, Fetched(j) PROVE CandlesInv'
    <2>1. PICK b \in Bars : job' = [job EXCEPT ![j].step = "merge", ![j].bars = <<b>>]
      BY <1>4 DEF Fetched
    <2> DEFINE x == [job[j] EXCEPT !.step = "merge", !.bars = <<b>>]
    <2>2. job' = [job EXCEPT ![j] = x]
      BY <2>1 DEF CandlesInv, Holdings, JobOK
    <2>3. JobOK(x) /\ x.step = "merge"
      <3>1. JobOK(job[j]) /\ <<b>> \in Seq(Bars)
        BY DEF CandlesInv, Holdings
      <3> QED BY <3>1, FetchedFields
    <2> HIDE DEF x
    <2>4. job[j].step = "fetch" /\ UNCHANGED <<store, shown, overlapped, chart, due>>
      BY <1>4 DEF Fetched, screen
    <2>5. due' \subseteq Keys
      BY <2>4 DEF CandlesInv, Holdings
    <2> QED BY <2>2, <2>3, <2>4, <2>5, QuietJob
  <1>5. ASSUME NEW j \in Jobs, FetchFails(j) \/ AbortOwned(j) PROVE CandlesInv'
    <2>1. job' = [job EXCEPT ![j] = NoJob] /\ job[j].step = "fetch" /\ UNCHANGED <<store, shown, overlapped, chart, due>>
      BY <1>5 DEF FetchFails, AbortOwned, screen
    <2>2. due' \subseteq Keys
      BY <2>1 DEF CandlesInv, Holdings
    <2> QED BY <2>1, <2>2, NoJobFields, QuietJob
  <1>6. ASSUME NEW k \in Switches, SetChartContext(k) PROVE CandlesInv'
    <2>1. UNCHANGED candles /\ chart'.step = "load"
      BY <1>6 DEF SetChartContext
    <2>2. \A q \in Keys : ~ChartPublishing(q)'
      BY <2>1 DEF ChartPublishing
    <2> QED BY <2>1, <2>2, QuietChart
  <1>7. CASE PersistContext \/ CommitContext
    <2>1. /\ UNCHANGED candles /\ chart'.local = chart.local /\ chart'.next = chart.next
          /\ chart.step \in {"persist", "commit"}
      BY <1>7 DEF PersistContext, CommitContext, ScreenInv
    <2>2. \A q \in Keys : ChartPublishing(q)' => ChartPublishing(q)
      BY <2>1 DEF ChartPublishing
    <2> QED BY <2>1, <2>2, QuietChart
  <1>8. CASE PersistFails
    <2>1. UNCHANGED candles /\ chart' = NoChart
      BY <1>8 DEF PersistFails
    <2>2. \A q \in Keys : ~ChartPublishing(q)'
      BY <2>1 DEF ChartPublishing, NoChart
    <2> QED BY <2>1, <2>2, QuietChart
  <1>9. ASSUME UNCHANGED candles, UNCHANGED chart PROVE CandlesInv'
    BY <1>9, QuietChart DEF ChartPublishing
  <1>10. ASSUME NEW q \in Quotes,
                \/ \E kind \in {"price", "funding"}, r \in Rates : StartQuote(q, kind, r)
                \/ ReadTicker(q) \/ WriteTicker(q)
         PROVE  CandlesInv'
    <2>1. UNCHANGED <<candles, screen>>
      BY <1>10 DEF StartQuote, ReadTicker, WriteTicker
    <2> QED BY <1>9, <2>1 DEF screen
  <1>11. CASE UNCHANGED marketVars
    BY <1>9, <1>11 DEF marketVars, screen
  <1> QED BY <1>1, <1>2, <1>3, <1>4, <1>5, <1>6, <1>7, <1>8, <1>10, <1>11, MergeCandles, LoadDisplayCandles,
             PublishCandles, LoadLocalCandles, PublishLocalCandles, RestartCandles DEF MarketNext
-----------------------------------------------------------------------------
\* The workspace: every save under way asks for what some window asked for.
SaveOK(x) ==
    /\ x = [step |-> x.step, want |-> x.want]
    /\ x.want \in Wanted \/ \A p \in Parts : x.want[p] = NoDoc

SavesInv ==
    /\ WorkspaceSafe
    /\ doc = [p \in Parts |-> doc[p]] /\ acked = [p \in Parts |-> acked[p]] /\ save = [s \in Saves |-> save[s]]
    /\ \A s \in Saves : SaveOK(save[s])

LEMMA WantFields ==
  ASSUME NEW x, SaveOK(x), NEW p \in Parts
  PROVE  x.want[p] \in {w[p] : w \in Wanted} \cup {NoDoc}
  BY DEF SaveOK

LEMMA DocFields ==
  ASSUME NEW p \in Parts, NEW d \in {w[p] : w \in Wanted} \cup {NoDoc}
  PROVE  d.rev \in Nat /\ d.body \in Nat /\ d \in [rev : Nat, body : Nat]
  BY RequestsAssumption DEF Parts, NoDoc

LEMMA NoSaveFields == SaveOK(NoSave)
  BY DEF SaveOK, NoSave

LEMMA SavesInit == WorkspaceInit => SavesInv
  <1> SUFFICES ASSUME WorkspaceInit PROVE SavesInv
    OBVIOUS
  <1>1. WorkspaceTypeOK /\ SavedStays
    BY DEF WorkspaceInit, WorkspaceTypeOK, SavedStays, NoDoc
  <1> QED BY <1>1, NoSaveFields DEF WorkspaceInit, SavesInv, WorkspaceSafe

\* A step of one save that touches its document alone.
LEMMA SaveMoves ==
  ASSUME SavesInv, NEW s \in Saves, NEW p \in Parts, Done(s, p)
  PROVE  save' = [i \in Saves |-> save'[i]] /\ \A i \in Saves : SaveOK(save'[i])
  <1>1. SaveOK(save[s])
    BY DEF SavesInv
  <1>2. SaveOK([save[s] EXCEPT !.step = After(p)])
    BY <1>1 DEF SaveOK
  <1> DEFINE x == IF After(p) = "idle" THEN NoSave ELSE [save[s] EXCEPT !.step = After(p)]
  <1>3. SaveOK(x) /\ save' = [save EXCEPT ![s] = x]
    BY <1>2, NoSaveFields DEF Done
  <1> HIDE DEF x
  <1> QED BY <1>3 DEF SavesInv

LEMMA DocMoves ==
  ASSUME SavesInv, NEW p \in Parts, NEW d,
         d \in {w[p] : w \in Wanted} \cup {NoDoc},
         doc' = [doc EXCEPT ![p] = d],
         \/ acked' = [acked EXCEPT ![p] = Newer(acked[p], d)]
         \/ acked' = acked,
         \/ blind' = blind /\ ~Conflicts(doc[p], d)
         \/ blind' = blind /\ doc[p] = NoDoc /\ acked' = [acked EXCEPT ![p] = Newer(acked[p], d)]
         \/ blind' = blind \cup {p},
         reported' \subseteq Parts \cup {"kline"},
         save' = [i \in Saves |-> save'[i]], \A i \in Saves : SaveOK(save'[i])
  PROVE  SavesInv'
  <1>1. \A q \in Parts : doc'[q] = IF q = p THEN d ELSE doc[q]
    BY DEF SavesInv
  <1>2. \A q \in Parts : acked'[q] = acked[q] \/ (q = p /\ acked'[q] = Newer(acked[p], d))
    BY DEF SavesInv
  <1>3. doc' = [q \in Parts |-> doc'[q]] /\ acked' = [q \in Parts |-> acked'[q]]
    BY DEF SavesInv
  <1>4. WorkspaceTypeOK'
    BY <1>1, <1>2 DEF SavesInv, WorkspaceSafe, WorkspaceTypeOK, Newer
  <1>5. ASSUME NEW q \in Parts \ blind'
        PROVE  /\ doc'[q].rev >= acked'[q].rev
               /\ doc'[q].rev = acked'[q].rev => doc'[q].body = acked'[q].body
    <2>1. /\ doc[q].rev >= acked[q].rev /\ (doc[q].rev = acked[q].rev => doc[q].body = acked[q].body)
      BY <1>5 DEF SavesInv, WorkspaceSafe, SavedStays
    <2>2. doc[q].rev \in Nat /\ acked[q].rev \in Nat /\ d.rev \in Nat
      BY DocFields DEF SavesInv, WorkspaceSafe, WorkspaceTypeOK
    <2>3. CASE q # p
      BY <1>1, <1>2, <2>1, <2>3
    <2>4. CASE q = p /\ ~Conflicts(doc[p], d)
      BY <1>1, <1>2, <2>1, <2>2, <2>4 DEF Conflicts, Newer
    <2>5. CASE q = p /\ Conflicts(doc[p], d)
      <3>1. doc[p] = NoDoc /\ acked' = [acked EXCEPT ![p] = Newer(acked[p], d)]
        BY <1>5, <2>5
      <3>2. acked'[p] = Newer(acked[p], d)
        BY <3>1 DEF SavesInv
      <3>3. doc[p].rev = 0
        BY <3>1 DEF NoDoc
      <3>4. acked[p].rev <= d.rev
        BY <2>1, <2>2, <2>5, <3>3
      <3>5. acked'[q] = d /\ doc'[q] = d
        BY <1>1, <2>5, <3>2, <3>4 DEF Newer
      <3> QED BY <2>2, <3>5
    <2> QED BY <2>3, <2>4, <2>5
  <1> QED BY <1>3, <1>4, <1>5 DEF SavesInv, WorkspaceSafe, SavedStays

\* A step that touches no document.
LEMMA DocStays ==
  ASSUME SavesInv, UNCHANGED <<doc, acked, blind>>, reported' \subseteq Parts \cup {"kline"},
         save' = [i \in Saves |-> save'[i]], \A i \in Saves : SaveOK(save'[i])
  PROVE  SavesInv'
  <1>1. WorkspaceTypeOK' /\ SavedStays'
    BY DEF SavesInv, WorkspaceSafe, WorkspaceTypeOK, SavedStays
  <1> QED BY <1>1 DEF SavesInv, WorkspaceSafe

LEMMA SavesNext == SavesInv /\ [WorkspaceNext]_workspaceVars => SavesInv'
  <1> SUFFICES ASSUME SavesInv, [WorkspaceNext]_workspaceVars PROVE SavesInv'
    OBVIOUS
  <1>0. reported \subseteq Parts \cup {"kline"}
    BY DEF SavesInv, WorkspaceSafe, WorkspaceTypeOK
  <1>1. ASSUME NEW s \in Saves, NEW want \in Wanted, BeginSave(s, want) PROVE SavesInv'
    <2>1. SaveOK([step |-> "kline", want |-> want])
      BY DEF SaveOK
    <2> DEFINE x == [step |-> "kline", want |-> want]
    <2> HIDE DEF x
    <2>2. save' = [save EXCEPT ![s] = x] /\ UNCHANGED <<doc, reported, acked, blind>> /\ SaveOK(x)
      BY <1>1, <2>1 DEF BeginSave, x
    <2>3. save' = [i \in Saves |-> save'[i]] /\ \A i \in Saves : SaveOK(save'[i])
      BY <2>2 DEF SavesInv
    <2> QED BY <1>0, <2>2, <2>3, DocStays
  <1>2. ASSUME NEW s \in Saves, NEW ok \in BOOLEAN, FlushKlines(s, ok) PROVE SavesInv'
    <2>1. SaveOK([save[s] EXCEPT !.step = "view"])
      BY DEF SavesInv, SaveOK
    <2> DEFINE x == [save[s] EXCEPT !.step = "view"]
    <2>2. save' = [save EXCEPT ![s] = x] /\ UNCHANGED <<doc, acked, blind>> /\ SaveOK(x)
      BY <1>2, <2>1 DEF FlushKlines
    <2>3. reported' \subseteq Parts \cup {"kline"}
      BY <1>0, <1>2 DEF FlushKlines
    <2> HIDE DEF x
    <2>4. save' = [i \in Saves |-> save'[i]] /\ \A i \in Saves : SaveOK(save'[i])
      BY <2>2 DEF SavesInv
    <2> QED BY <2>2, <2>3, <2>4, DocStays
  <1>3. ASSUME NEW s \in Saves, NEW p \in Parts, SavePart(s, p) PROVE SavesInv'
    <2>1. Done(s, p)
      BY <1>3 DEF SavePart
    <2>2. save' = [i \in Saves |-> save'[i]] /\ \A i \in Saves : SaveOK(save'[i])
      BY <2>1, SaveMoves
    <2>3. PICK d : d = save[s].want[p]
      OBVIOUS
    <2>4. d \in {w[p] : w \in Wanted} \cup {NoDoc}
      BY <2>3, WantFields DEF SavesInv
    <2>5. d.rev \in Nat /\ doc[p].rev \in Nat
      BY <2>4, DocFields DEF SavesInv, WorkspaceSafe, WorkspaceTypeOK
    <2>6. reported' = reported \ {p}
      BY <1>3 DEF SavePart
    <2>7. reported' \subseteq Parts \cup {"kline"}
      BY <1>0, <2>6
    <2>8. CASE UNCHANGED <<doc, acked, blind>>
      BY <2>2, <2>7, <2>8, DocStays
    <2>9. CASE ~UNCHANGED <<doc, acked, blind>>
      <3>1. /\ doc' = [doc EXCEPT ![p] = d] /\ acked' = [acked EXCEPT ![p] = Newer(acked[p], d)]
            /\ blind' = blind
            /\ ~Conflicts(doc[p], d) \/ d.rev > doc[p].rev
        BY <1>3, <2>3, <2>9 DEF SavePart
      <3>2. ~Conflicts(doc[p], d)
        BY <2>5, <3>1 DEF Conflicts
      <3> QED BY <2>2, <2>4, <2>7, <3>1, <3>2, DocMoves
    <2> QED BY <2>8, <2>9
  <1>4. ASSUME NEW s \in Saves, NEW p \in Parts, SaveFails(s, p) PROVE SavesInv'
    <2>1. Done(s, p)
      BY <1>4 DEF SaveFails
    <2>2. save' = [i \in Saves |-> save'[i]] /\ \A i \in Saves : SaveOK(save'[i])
      BY <2>1, SaveMoves
    <2>3. PICK d : d = save[s].want[p]
      OBVIOUS
    <2>4. d \in {w[p] : w \in Wanted} \cup {NoDoc}
      BY <2>3, WantFields DEF SavesInv
    <2>5. d.rev \in Nat /\ doc[p].rev \in Nat
      BY <2>4, DocFields DEF SavesInv, WorkspaceSafe, WorkspaceTypeOK
    <2>6. /\ d.rev > doc[p].rev /\ UNCHANGED <<acked, blind>> /\ reported' = reported \cup {p}
          /\ doc' = doc \/ doc' = [doc EXCEPT ![p] = d]
      BY <1>4, <2>3 DEF SaveFails
    <2>7. reported' \subseteq Parts \cup {"kline"} /\ ~Conflicts(doc[p], d)
      BY <1>0, <2>5, <2>6 DEF Conflicts
    <2> QED BY <2>2, <2>4, <2>6, <2>7, DocStays, DocMoves
  <1>5. ASSUME NEW s \in Saves, NEW p \in Parts, SaveBlind(s, p) PROVE SavesInv'
    <2>1. Done(s, p)
      BY <1>5 DEF SaveBlind
    <2>2. save' = [i \in Saves |-> save'[i]] /\ \A i \in Saves : SaveOK(save'[i])
      BY <2>1, SaveMoves
    <2>3. PICK d : d = save[s].want[p]
      OBVIOUS
    <2>4. d \in {w[p] : w \in Wanted} \cup {NoDoc}
      BY <2>3, WantFields DEF SavesInv
    <2>5. d.rev \in Nat /\ d \in [rev : Nat, body : Nat]
      BY <2>4, DocFields
    <2>6. reported' \subseteq Parts \cup {"kline"}
      BY <1>0, <1>5 DEF SaveBlind
    <2>7. CASE d = NoDoc
      <3>1. UNCHANGED <<doc, acked, blind>>
        BY <1>5, <2>3, <2>7 DEF SaveBlind
      <3> QED BY <2>2, <2>6, <3>1, DocStays
    <2>8. CASE d # NoDoc
      <3>1. /\ doc' = [doc EXCEPT ![p] = d] /\ acked' = [acked EXCEPT ![p] = Newer(acked[p], d)]
            /\ blind' = IF doc[p] = NoDoc THEN blind ELSE blind \cup {p}
        BY <1>5, <2>3, <2>8 DEF SaveBlind
      <3>2. CASE doc[p] # NoDoc
        BY <2>2, <2>4, <2>6, <3>1, <3>2, DocMoves
      <3>3. CASE doc[p] = NoDoc
        BY <2>2, <2>4, <2>6, <3>1, <3>3, DocMoves
      <3> QED BY <3>2, <3>3
    <2> QED BY <2>7, <2>8
  <1>6. ASSUME NEW readable \in SUBSET Parts, LoadWorkspace(readable) PROVE SavesInv'
    <2>1. reported' \subseteq Parts \cup {"kline"} /\ UNCHANGED <<doc, save, acked, blind>>
      BY <1>0, <1>6 DEF LoadWorkspace
    <2>2. save' = [i \in Saves |-> save'[i]] /\ \A i \in Saves : SaveOK(save'[i])
      BY <2>1 DEF SavesInv
    <2> QED BY <2>1, <2>2, DocStays
  <1>7. CASE UNCHANGED workspaceVars
    <2>1. UNCHANGED <<doc, save, reported, acked, blind>>
      BY <1>7 DEF workspaceVars
    <2>2. save' = [i \in Saves |-> save'[i]] /\ \A i \in Saves : SaveOK(save'[i])
      BY <2>1 DEF SavesInv
    <2> QED BY <1>0, <2>1, <2>2, DocStays
  <1> QED BY <1>1, <1>2, <1>3, <1>4, <1>5, <1>6, <1>7 DEF WorkspaceNext

LEMMA MarketParts == PricesInv /\ ScreenInv /\ CandlesInv => MarketSafe
  <1> SUFFICES ASSUME PricesInv, ScreenInv, CandlesInv PROVE MarketSafe
    OBVIOUS
  <1>1. MarketTypeOK
    <2>1. due \subseteq Keys /\ overlapped \subseteq Keys
      BY DEF CandlesInv, Holdings
    <2>2. {context, saved, streamed} \subseteq Keys /\ chart.step \in {"idle", "load", "persist", "commit", "publish"}
      BY DEF ScreenInv
    <2>3. ticker \in [known : BOOLEAN, rate : Rates \cup {0}, error : BOOLEAN]
      BY DEF PricesInv, Tickers
    <2> QED BY <2>1, <2>2, <2>3 DEF MarketTypeOK
  <1>2. ShownIsStored
    <2> SUFFICES ASSUME NEW k \in Keys, shown[k] # Hidden, ~Publishing(k), k \notin overlapped
                 PROVE  shown[k] = DisplayOf(k)
      BY DEF ShownIsStored
    <2>1. \A i \in Jobs : ~At(job[i], k)
      BY DEF Publishing, JobPublishing, At
    <2> QED BY <2>1 DEF CandlesInv, Faithful
  <1>3. ContextAgrees
    BY DEF ScreenInv, ContextAgrees
  <1> QED BY <1>1, <1>2, <1>3 DEF PricesInv, MarketSafe

(***************************************************************************)
(* For any charts, candles, jobs, quotes and rates, any bound on what is    *)
(* stored, and any windows and requests: the chart shows what the store     *)
(* holds once no publication of it is under way, unless two ran into each   *)
(* other; settings, chart and stream agree on the key; a price keeps the    *)
(* funding rate; and a workspace that was told saved is never taken back by *)
(* a held-up save (MarketService, update_chart_context,                     *)
(* ChartWorkspaceService::save).                                            *)
(***************************************************************************)
THEOREM ChartIsCurrent == ScreenSpec => []ChartCurrent
  <1>1. MarketInit => PricesInv /\ ScreenInv /\ CandlesInv
    BY PricesInit, ScreenInit, CandlesInit
  <1>2. PricesInv /\ ScreenInv /\ CandlesInv /\ [MarketNext]_marketVars => (PricesInv /\ ScreenInv /\ CandlesInv)'
    BY PricesNext, ScreenNext, CandlesNext
  <1>3. PricesInv /\ ScreenInv /\ CandlesInv => MarketSafe
    BY MarketParts
  <1>4. SavesInv => WorkspaceSafe
    BY DEF SavesInv
  <1> QED BY <1>1, <1>2, <1>3, <1>4, SavesInit, SavesNext, PTL DEF ScreenSpec, MarketSpec, WorkspaceSpec, ChartCurrent
=============================================================================
