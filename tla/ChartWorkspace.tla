------------------------------ MODULE ChartWorkspace ------------------------------
(***************************************************************************)
(* services/chart_workspace.rs: a workspace is saved in three parts, the    *)
(* candles, the view of the chart and the preferences.  Each document       *)
(* carries the revision its window gave it; saves of several windows        *)
(* interleave between the parts, a part is loaded, compared and saved under *)
(* its lock.                                                                 *)
(***************************************************************************)
EXTENDS Integers, FiniteSets

CONSTANTS
    Saves,   \* saves that may run at once
    Wanted   \* requests: a view and preferences, each a revision and a body, or NoDoc

ASSUME RequestsAssumption ==
    \A w \in Wanted : \A p \in {"view", "preferences"} : w[p] \in [rev : Nat, body : Nat]

VARIABLES
    doc,       \* the durable documents, revision 0 for none
    save,      \* the saves
    reported,  \* ChartWorkspaceDiagnostics.reported
    acked,     \* history: the newest document of a part reported as saved
    blind      \* history: parts written over a document that could not be read

workspaceVars == <<doc, save, reported, acked, blind>>

Parts == {"view", "preferences"}
NoDoc == [rev |-> 0, body |-> 0]
NoSave == [step |-> "idle", want |-> [p \in Parts |-> NoDoc]]

Newer(told, d) == IF d.rev >= told.rev THEN d ELSE told

After(step) == IF step = "kline" THEN "view" ELSE IF step = "view" THEN "preferences" ELSE "idle"
-----------------------------------------------------------------------------
(* save: the request passed validate_save_request.                          *)
BeginSave(s, want) ==
    /\ save[s].step = "idle"
    /\ save' = [save EXCEPT ![s] = [step |-> "kline", want |-> want]]
    /\ UNCHANGED <<doc, reported, acked, blind>>

(* observe_kline_result of the flush that comes first.                      *)
FlushKlines(s, ok) ==
    /\ save[s].step = "kline"
    /\ reported' = IF ok THEN reported \ {"kline"} ELSE reported \cup {"kline"}
    /\ save' = [save EXCEPT ![s].step = "view"]
    /\ UNCHANGED <<doc, acked, blind>>

(* revision_conflict: an older revision, or the same with other content.    *)
Conflicts(durable, want) ==
    want.rev < durable.rev \/ (want.rev = durable.rev /\ want.body # durable.body)

Done(s, p) == save' = [save EXCEPT ![s] = IF After(p) = "idle" THEN NoSave ELSE [@ EXCEPT !.step = After(p)]]

(* save_view_part and save_preferences_part, when the document loads.       *)
SavePart(s, p) ==
    /\ save[s].step = p
    /\ Done(s, p)
    /\ \E durable \in {doc[p]}, want \in {save[s].want[p]} :
         \/ /\ want = NoDoc \/ Conflicts(durable, want)
            /\ reported' = reported \ {p}
            /\ UNCHANGED <<doc, acked, blind>>
         \/ /\ want # NoDoc /\ durable.rev = want.rev /\ ~Conflicts(durable, want)
            /\ reported' = reported \ {p}
            /\ acked' = [acked EXCEPT ![p] = Newer(@, want)]
            /\ doc' = [doc EXCEPT ![p] = want]
            /\ UNCHANGED blind
         \/ /\ want.rev > durable.rev
            /\ reported' = reported \ {p}
            /\ doc' = [doc EXCEPT ![p] = want]
            /\ acked' = [acked EXCEPT ![p] = Newer(@, want)]
            /\ UNCHANGED blind

(* The save of the document fails; the file may hold it all the same.       *)
SaveFails(s, p) ==
    /\ save[s].step = p
    /\ save[s].want[p].rev > doc[p].rev
    /\ Done(s, p)
    /\ reported' = reported \cup {p}
    /\ \E landed \in BOOLEAN :
         doc' = IF landed THEN [doc EXCEPT ![p] = save[s].want[p]] ELSE doc
    /\ UNCHANGED <<acked, blind>>

(* The document cannot be read: it counts as none, the request is written.  *)
SaveBlind(s, p) ==
    /\ save[s].step = p
    /\ Done(s, p)
    /\ IF save[s].want[p] = NoDoc
       THEN /\ reported' = reported \cup {p}
            /\ UNCHANGED <<doc, acked, blind>>
       ELSE /\ reported' = reported \ {p}
            /\ doc' = [doc EXCEPT ![p] = save[s].want[p]]
            /\ acked' = [acked EXCEPT ![p] = Newer(@, save[s].want[p])]
            /\ blind' = IF doc[p] = NoDoc THEN blind ELSE blind \cup {p}

(* load: what cannot be read is reported once and replaced by the default.  *)
LoadWorkspace(readable) ==
    /\ reported' = (reported \ readable) \cup (Parts \ readable)
    /\ UNCHANGED <<doc, save, acked, blind>>
-----------------------------------------------------------------------------
WorkspaceInit ==
    /\ doc = [p \in Parts |-> NoDoc]
    /\ save = [s \in Saves |-> NoSave]
    /\ reported = {}
    /\ acked = [p \in Parts |-> NoDoc]
    /\ blind = {}

WorkspaceNext ==
    \/ \E s \in Saves :
         \/ \E want \in Wanted : BeginSave(s, want)
         \/ \E ok \in BOOLEAN : FlushKlines(s, ok)
         \/ \E p \in Parts : SavePart(s, p) \/ SaveFails(s, p) \/ SaveBlind(s, p)
    \/ \E readable \in SUBSET Parts : LoadWorkspace(readable)

WorkspaceSpec == WorkspaceInit /\ [][WorkspaceNext]_workspaceVars
-----------------------------------------------------------------------------
WorkspaceTypeOK ==
    /\ \A p \in Parts : {doc[p], acked[p]} \subseteq {w[p] : w \in Wanted} \cup {NoDoc}
    /\ reported \subseteq Parts \cup {"kline"}

(* What a window was told is saved is on disk, or a newer revision is: a    *)
(* save that was held up never takes it back.                               *)
SavedStays ==
    \A p \in Parts \ blind :
        /\ doc[p].rev >= acked[p].rev
        /\ doc[p].rev = acked[p].rev => doc[p].body = acked[p].body

WorkspaceSafe == WorkspaceTypeOK /\ SavedStays
=============================================================================
