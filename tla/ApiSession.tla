------------------------------ MODULE ApiSession ------------------------------
(***************************************************************************)
(* The private client (api/client.rs) and the observer of its expired       *)
(* sessions (services/connection.rs).  A request carries a copy of the      *)
(* session it was sent in; the answer may come after the session was        *)
(* replaced, cleared or found to work again.  The notification center keeps *)
(* one notice per notification token.                                        *)
(***************************************************************************)
EXTENDS Integers, FiniteSets

CONSTANTS
    Credentials, \* what api_session_fingerprint tells apart
    Requests,
    MaxOwners    \* bound: installations and tokens

\* A fingerprint is a digest; the client without a credential has none.
ASSUME CredentialAssumption == "none" \notin Credentials
ASSUME OwnerAssumption == MaxOwners \in Nat

VARIABLES
    installed,   \* ApiClient.session_context
    signer,      \* ApiClient.signer: the credential requests are signed with
    remembered,  \* ApiClient.remembered_session
    request,     \* the private requests
    epoch,       \* the account session the installation belongs to
    owners,      \* request owners and tokens drawn so far
    alarms,      \* notices of an expired session
    recovered,   \* history: tokens given up after a session was found to work
    forgotten    \* history: tokens given up when another credential was installed

vars == <<installed, signer, remembered, request, epoch, owners, alarms, recovered, forgotten>>

None == [fp |-> "none", owner |-> 0, token |-> 0, rearm |-> FALSE, epoch |-> 0]
Forgotten == [fp |-> "none", token |-> 0, rearm |-> FALSE]
NoRequest == [step |-> "idle", session |-> None, signed |-> "none", retried |-> FALSE]

Draw == owners + 1
-----------------------------------------------------------------------------
(* set_credential_for_session, for the next account session or the same.    *)
(* The token of the credential used last is kept, over a disconnection too. *)
Install(c, e) ==
    /\ owners + 2 <= MaxOwners
    /\ LET same == remembered.fp = c
           token == IF same THEN remembered.token ELSE Draw + 1
           rearm == same /\ remembered.rearm
       IN  /\ installed' = [fp |-> c, owner |-> Draw, token |-> token, rearm |-> rearm, epoch |-> e]
           /\ remembered' = [fp |-> c, token |-> token, rearm |-> rearm]
           /\ forgotten' = IF same \/ remembered.fp = "none" THEN forgotten
                           ELSE forgotten \cup {[fp |-> remembered.fp, token |-> remembered.token]}
    /\ owners' = owners + 2
    /\ epoch' = e
    /\ signer' = c
    /\ UNCHANGED <<request, alarms, recovered>>

(* clear_credential; set_credential with an invalid one does the same.      *)
Clear ==
    /\ installed # None
    /\ installed' = None
    /\ signer' = "none"
    /\ UNCHANGED <<remembered, request, epoch, owners, alarms, recovered, forgotten>>

(* private_get and private_post: the session is copied,                     *)
Capture(r) ==
    /\ request[r].step = "idle"
    /\ signer # "none"
    /\ request' = [request EXCEPT ![r] = [NoRequest EXCEPT !.step = "captured",
                                                           !.session = installed]]
    /\ UNCHANGED <<installed, signer, remembered, epoch, owners, alarms, recovered, forgotten>>

(* then sign_headers reads the signer of that moment; without one it fails. *)
Sign(r) ==
    /\ request[r].step = "captured"
    /\ request' = [request EXCEPT ![r] = IF signer = "none" THEN NoRequest
                                         ELSE [@ EXCEPT !.step = "sent", !.signed = signer]]
    /\ UNCHANGED <<installed, signer, remembered, epoch, owners, alarms, recovered, forgotten>>

\* Mutant: an answer belongs to the installation whatever happened to its token.
Owns_AnyToken(i, s) == i.owner = s.owner /\ i.fp = s.fp /\ i # None

(* owns_response.                                                           *)
Owns(i, s) == i.owner = s.owner /\ i.fp = s.fp /\ i.token = s.token /\ i # None

(* An answer that tells of a clock too far off: time is synchronised and    *)
(* the request sent once more, in the session of then.                       *)
AnswerStale(r) ==
    /\ request[r].step = "sent"
    /\ request' = [request EXCEPT ![r] = IF @.retried \/ signer = "none" THEN NoRequest
                                         ELSE [@ EXCEPT !.step = "captured", !.retried = TRUE,
                                                        !.session = installed]]
    /\ UNCHANGED <<installed, signer, remembered, epoch, owners, alarms, recovered, forgotten>>

(* Another failure, or no answer: nothing is learnt of the session.         *)
AnswerLost(r) ==
    /\ request[r].step = "sent"
    /\ request' = [request EXCEPT ![r] = NoRequest]
    /\ UNCHANGED <<installed, signer, remembered, epoch, owners, alarms, recovered, forgotten>>

(* parse_response, session expired: mark_current_session_expired, then the  *)
(* observer is called with the session as it is now.                        *)
AnswerExpired(r) ==
    /\ request[r].step = "sent"
    /\ IF Owns(installed, request[r].session)
       THEN /\ installed' = [installed EXCEPT !.rearm = TRUE]
            /\ remembered' = [fp |-> installed.fp, token |-> installed.token, rearm |-> TRUE]
            /\ request' = [request EXCEPT ![r].step = "observe",
                                          ![r].session = [installed EXCEPT !.owner = request[r].session.token]]
       ELSE /\ request' = [request EXCEPT ![r] = NoRequest]
            /\ UNCHANGED <<installed, remembered>>
    /\ UNCHANGED <<signer, epoch, owners, alarms, recovered, forgotten>>

(* observe_api_auth_failure waits for the account guard; another account    *)
(* session may be current by then.  The center drops a repeated token.      *)
Observe(r) ==
    /\ request[r].step = "observe"
    /\ LET s == request[r].session
       IN  alarms' = IF s.epoch = epoch /\ ~\E a \in alarms : a.token = s.token
                     THEN alarms \cup {[fp |-> s.fp, token |-> s.token, signed |-> request[r].signed,
                                        sent |-> s.owner, epoch |-> s.epoch]}
                     ELSE alarms
    /\ request' = [request EXCEPT ![r] = NoRequest]
    /\ UNCHANGED <<installed, signer, remembered, epoch, owners, recovered, forgotten>>

(* confirm_authenticated_private_response: a session reported as expired    *)
(* works; the next expiry gets a token of its own.                           *)
AnswerOk(r) ==
    /\ request[r].step = "sent"
    /\ IF Owns(installed, request[r].session) /\ installed.rearm
       THEN /\ owners < MaxOwners
            /\ owners' = Draw
            /\ installed' = [installed EXCEPT !.token = Draw, !.rearm = FALSE]
            /\ remembered' = [fp |-> installed.fp, token |-> Draw, rearm |-> FALSE]
            /\ recovered' = recovered \cup {[fp |-> installed.fp, token |-> installed.token]}
       ELSE UNCHANGED <<owners, installed, remembered, recovered>>
    /\ request' = [request EXCEPT ![r] = NoRequest]
    /\ UNCHANGED <<signer, epoch, alarms, forgotten>>
-----------------------------------------------------------------------------
Init ==
    /\ installed = None /\ signer = "none" /\ remembered = Forgotten
    /\ request = [r \in Requests |-> NoRequest]
    /\ epoch = 1 /\ owners = 0
    /\ alarms = {} /\ recovered = {} /\ forgotten = {}

Next ==
    \/ \E c \in Credentials, e \in {epoch, epoch + 1} : Install(c, e)
    \/ Clear
    \/ \E r \in Requests :
         \/ Capture(r) \/ Sign(r) \/ AnswerStale(r) \/ AnswerLost(r)
         \/ AnswerExpired(r) \/ Observe(r) \/ AnswerOk(r)

Spec == Init /\ [][Next]_vars
-----------------------------------------------------------------------------
Fingerprint == Credentials \cup {"none"}
Session == [fp : Fingerprint, owner : Nat, token : Nat, rearm : BOOLEAN, epoch : Nat]
Given == [fp : Fingerprint, token : Nat]

TypeOK ==
    /\ installed \in Session
    /\ signer \in Fingerprint
    /\ remembered \in [fp : Fingerprint, token : Nat, rearm : BOOLEAN]
    /\ request \in [Requests -> [step : {"idle", "captured", "sent", "observe"},
                                 session : Session, signed : Fingerprint, retried : BOOLEAN]]
    /\ epoch \in Nat
    /\ owners \in 0 .. MaxOwners
    /\ alarms \subseteq [fp : Fingerprint, token : Nat, signed : Fingerprint, sent : Nat, epoch : Nat]
    /\ recovered \subseteq Given /\ forgotten \subseteq Given

(* What is installed is what the next installation of it will remember.     *)
Remembered ==
    installed # None => /\ remembered.fp = installed.fp
                        /\ remembered.token = installed.token
                        /\ remembered.rearm = installed.rearm

(* A request that was sent before the session was found to work again, or   *)
(* signed with another credential, raises no alarm for it.                   *)
NoStaleAlarm == \A a \in alarms : a.sent = a.token /\ a.signed = a.fp

(* A session that stays expired is announced once, over reconnections and   *)
(* late answers: another alarm takes a recovery, or another credential.      *)
OneAlarmPerOutage ==
    \A c \in Credentials :
        Cardinality({a \in alarms : a.fp = c})
            <= 1 + Cardinality({x \in recovered : x.fp = c}) + Cardinality({x \in forgotten : x.fp = c})

(***************************************************************************)
(* An expired session is announced once until it works again or another     *)
(* credential takes its place, never on the word of a request sent before   *)
(* it recovered or signed with another credential (owns_response,           *)
(* mark_current_session_expired, confirm_authenticated_private_response).   *)
(***************************************************************************)
AlarmsOnce == TypeOK /\ Remembered /\ NoStaleAlarm /\ OneAlarmPerOutage
=============================================================================
