---------------------------- MODULE SessionRestore ----------------------------
(***************************************************************************)
(* lumen-session re-applies the remembered monitor layout when the set of  *)
(* plugged-in monitors changes.  Three parties: the compositor, whose      *)
(* events travel on a wire in order; the wlr-output-management client of   *)
(* wlhooks (heads, slots), which runs inside the daemon; and the daemon    *)
(* (restore_queued, do_restore), whose main loop is blocked in roundtrips  *)
(* of the client while other events keep arriving.  A monitor stands for a connector     *)
(* together with the EDID identity seen on it.                             *)
(***************************************************************************)
EXTENDS Naturals, Sequences, FiniteSets, SequencesExt

CONSTANTS
    Monitor,        \* the monitors that may be plugged in
    OM_MAX_HEADS,   \* head objects the client can ever track
    MaxWire         \* bound: events in flight

ASSUME SessionMonitorAssumption ==
    IsFiniteSet(Monitor) /\ OM_MAX_HEADS \in Nat /\ OM_MAX_HEADS >= Cardinality(Monitor)
ASSUME SessionWireAssumption == MaxWire \in Nat \ {0}

VARIABLES
    plugged,         \* compositor: the monitors there are
    layout,          \* compositor: "saved" while it is the remembered one
    stale,           \* compositor: its serial is past the configuration's
    outdated,        \* compositor: the configuration sent is of a profile that
                     \* has been overwritten since
    calm,            \* from here on nobody else touches layouts and profiles, and
                     \* only a stale configuration is refused
    wire,            \* events sent and not yet dispatched
    remembered,      \* display-profiles.json: the sets whose profile enables an
                     \* output; do_restore skips the others like those it lacks
    heads, slots,    \* client: s_heads not finished, s_head_count
    restore_queued,  \* daemon: an idle restore is pending
    current_keys,    \* daemon: the set the last do_restore looked up
    do_restore       \* daemon: "none", or where it is: "refreshing", "synced" and
                     \* "refreshed" in its roundtrip, "sent" and "answered" in the apply's

compositor == <<plugged, layout, stale, outdated, calm>>
client == <<heads, slots>>
daemon == <<restore_queued, current_keys, do_restore>>
vars == <<compositor, wire, remembered, client, daemon>>

Sets == SUBSET Monitor
Results == {"succeeded", "failed", "cancelled"}

Event == [kind : {"done", "sync"} \cup Results, gone : Sets, came : Seq(Monitor)]

\* events of one `done`: heads finished, heads announced in this order
Done(gone, came) == [kind |-> "done", gone |-> gone, came |-> came]
Result(r) == [kind |-> r, gone |-> {}, came |-> <<>>]
\* the answer to the sync request of a roundtrip
Synced == [kind |-> "sync", gone |-> {}, came |-> <<>>]

TypeOK ==
    /\ plugged \in Sets /\ layout \in {"saved", "other"}
    /\ {stale, outdated, calm} \subseteq BOOLEAN
    /\ wire \in Seq(Event)
    /\ remembered \subseteq Sets
    /\ heads \in Sets /\ slots \in 0 .. OM_MAX_HEADS /\ Cardinality(heads) <= slots
    /\ restore_queued \in BOOLEAN /\ current_keys \in Sets
    /\ do_restore \in {"none", "refreshing", "synced", "refreshed", "sent", "answered"}

\* the first burst has been read, the baseline taken, one restore scheduled
Init ==
    /\ plugged \in Sets /\ layout = "other" /\ calm \in BOOLEAN
    /\ stale = FALSE /\ outdated = FALSE
    /\ wire = <<>>
    /\ remembered \in SUBSET (Sets \ {{}})
    /\ heads = plugged /\ slots = Cardinality(plugged)
    /\ restore_queued = TRUE /\ current_keys = {} /\ do_restore = "none"

------------------------------------------------------------------------------
(* The compositor and the other clients                                     *)

Room == Len(wire) < MaxWire

\* no event of the kind waits to be read
Read(kind) == \A i \in DOMAIN wire : wire[i].kind # kind

Hotplug(live, came) ==
    /\ Room /\ live # plugged
    /\ plugged' = live /\ layout' = "other" /\ stale' = TRUE
    /\ wire' = Append(wire, Done(plugged \ live, came))
    /\ UNCHANGED <<outdated, calm, remembered, client, daemon>>

\* lumen-settings, wlr-randr or the compositor itself moves an output
ForeignChange ==
    /\ ~calm /\ Room
    /\ layout' = "other" /\ stale' = TRUE
    /\ wire' = Append(wire, Done({}, <<>>))
    /\ UNCHANGED <<plugged, outdated, calm, remembered, client, daemon>>

\* "Keep" in lumen-settings: save_or_update for the set that is plugged in; the
\* daemon may have read the profile before
Keep ==
    /\ ~calm /\ plugged # {}
    /\ remembered' = remembered \cup {plugged}
    /\ layout' = "saved"
    /\ outdated' = (outdated \/
           (do_restore = "sent" /\ current_keys = plugged /\ layout = "other"))
    /\ UNCHANGED <<plugged, stale, calm, wire, client, daemon>>

Settle ==
    /\ ~calm /\ calm' = TRUE
    /\ UNCHANGED <<plugged, layout, stale, outdated, wire, remembered, client, daemon>>

CompositorSyncs ==
    /\ do_restore = "refreshing" /\ do_restore' = "synced"
    /\ wire' = Append(wire, Synced)
    /\ UNCHANGED <<compositor, remembered, client, restore_queued, current_keys>>

\* a configuration made from an old serial is cancelled
CompositorAnswers(r) ==
    /\ do_restore = "sent" /\ do_restore' = "answered"
    /\ r \in CASE stale            -> {"cancelled"}
              [] ~stale /\ calm    -> {"succeeded"}
              [] ~stale /\ ~calm   -> {"succeeded", "failed"}
    /\ IF r = "succeeded"
       THEN /\ layout' = IF current_keys = plugged /\ ~outdated THEN "saved" ELSE "other"
            /\ stale' = TRUE
            /\ wire' = wire \o <<Result(r), Done({}, <<>>)>>
       ELSE /\ UNCHANGED <<layout, stale>>
            /\ wire' = Append(wire, Result(r))
    /\ outdated' = FALSE
    /\ UNCHANGED <<plugged, calm, remembered, client, restore_queued, current_keys>>

------------------------------------------------------------------------------
(* The client: what it makes of one event, on st = [heads, slots, queued]   *)

\* the heads of one burst that still find a slot
Fitting(came, room) == SubSeq(came, 1, IF room < Len(came) THEN room ELSE Len(came))

(* slip: a monitor that went away stays in the table *)
HandleKeepsGone(st, e) ==
    LET fits == Fitting(e.came, OM_MAX_HEADS - st.slots)
        now == st.heads \cup ToSet(fits)
    IN [heads |-> now, slots |-> st.slots + Len(fits), queued |-> st.queued \/ now # st.heads]

(* slip: a head is stored without looking for room *)
HandleTakesAnySlot(st, e) ==
    LET now == (st.heads \ e.gone) \cup ToSet(e.came)
    IN [heads |-> now, slots |-> st.slots + Len(e.came), queued |-> st.queued \/ now # st.heads]

(* slip: every `done` counts as a change of the set *)
HandleAlwaysFires(st, e) ==
    LET fits == Fitting(e.came, OM_MAX_HEADS - st.slots)
    IN [heads |-> (st.heads \ e.gone) \cup ToSet(fits),
        slots |-> st.slots + Len(fits), queued |-> TRUE]

\* mgr_head, head_finished, then mgr_done's signature and schedule_restore.  A
\* slot is taken for good; a head that finds none is dropped.
Handle(st, e) ==
    LET fits == Fitting(e.came, OM_MAX_HEADS - st.slots)
        now == (st.heads \ e.gone) \cup ToSet(fits)
    IN [heads |-> now, slots |-> st.slots + Len(fits), queued |-> st.queued \/ now # st.heads]

Takes(st) == heads' = st.heads /\ slots' = st.slots /\ restore_queued' = st.queued

\* the fd watch, or a roundtrip of do_restore or config_apply
Dispatch ==
    /\ wire # <<>> /\ Head(wire).kind = "done"
    /\ Takes(Handle([heads |-> heads, slots |-> slots, queued |-> restore_queued], Head(wire)))
    /\ wire' = Tail(wire)
    /\ UNCHANGED <<compositor, remembered, current_keys, do_restore>>

------------------------------------------------------------------------------
(* The daemon                                                               *)

(* slip: the flag is cleared when the idle callback is done *)
ApplyReturnsClearsFlag ==
    /\ do_restore = "answered" /\ wire # <<>> /\ Head(wire).kind \in Results
    /\ do_restore' = "none" /\ restore_queued' = FALSE
    /\ wire' = Tail(wire)
    /\ UNCHANGED <<compositor, remembered, client, current_keys>>

\* config_apply's loop ends; whatever the result, do_restore only logs it
ApplyReturns ==
    /\ do_restore = "answered" /\ wire # <<>> /\ Head(wire).kind \in Results
    /\ do_restore' = "none"
    /\ wire' = Tail(wire)
    /\ UNCHANGED <<compositor, remembered, client, restore_queued, current_keys>>

(* slip: the restore does not read what is on the wire first *)
RestoreStartsUnrefreshed ==
    /\ do_restore = "none" /\ restore_queued
    /\ restore_queued' = FALSE /\ do_restore' = "refreshed"
    /\ UNCHANGED <<compositor, wire, remembered, client, current_keys>>

\* the idle callback, up to the roundtrip of output_mgmt_refresh
RestoreStarts ==
    /\ do_restore = "none" /\ restore_queued
    /\ restore_queued' = FALSE /\ do_restore' = "refreshing"
    /\ UNCHANGED <<compositor, wire, remembered, client, current_keys>>

\* the roundtrip has its answer; it dispatches what was read along with it
RefreshEnds ==
    /\ do_restore = "synced" /\ wire # <<>> /\ Head(wire).kind = "sync"
    /\ do_restore' = "refreshed"
    /\ wire' = Tail(wire)
    /\ UNCHANGED <<compositor, remembered, client, restore_queued, current_keys>>

\* the rest of do_restore, up to the apply request: the configuration carries the
\* serial of the last `done` read
RestoreLooksUp ==
    /\ do_restore = "refreshed"
    /\ current_keys' = heads
    /\ IF heads \in remembered      \* not empty, matched, enables an output
       THEN do_restore' = "sent" /\ stale' = ~Read("done")
       ELSE do_restore' = "none" /\ UNCHANGED stale
    /\ UNCHANGED <<plugged, layout, outdated, calm, wire, remembered, client, restore_queued>>

Next ==
    \/ \E live \in Sets : \E came \in SetToSeqs(live \ plugged) : Hotplug(live, came)
    \/ ForeignChange
    \/ Keep
    \/ Settle
    \/ \E r \in Results : CompositorAnswers(r)
    \/ Dispatch
    \/ ApplyReturns
    \/ RestoreStarts
    \/ CompositorSyncs
    \/ RefreshEnds
    \/ RestoreLooksUp

Spec == Init /\ [][Next]_vars

\* the main loop serves its fd and its idle callbacks, the compositor answers
FairSpec ==
    /\ Spec
    /\ WF_vars(Dispatch) /\ WF_vars(ApplyReturns)
    /\ WF_vars(RestoreStarts) /\ WF_vars(RefreshEnds) /\ WF_vars(RestoreLooksUp)
    /\ WF_vars(CompositorSyncs) /\ WF_vars(\E r \in Results : CompositorAnswers(r))

------------------------------------------------------------------------------
(* Properties                                                               *)

(* No change of the set is lost between the callbacks: the set the client knows *)
(* is the one do_restore last looked up, or a restore is pending or still ahead *)
(* of its look-up, also when the change came in while a roundtrip was blocking  *)
(* (restore_queued is cleared before do_restore, not after).                    *)
Refreshing == do_restore \in {"refreshing", "synced", "refreshed"}
SetChangeNeverLost == current_keys = heads \/ restore_queued \/ Refreshing

(* The client's table follows the compositor: once the events are read, while   *)
(* a slot is left, the heads it reports are the monitors that are plugged in    *)
(* (mgr_head, head_finished).                                                   *)
HeadsKnownUntilFull == slots < OM_MAX_HEADS /\ Read("done") => heads = plugged

(* output_management.h: the set comparison guards against an endless loop of    *)
(* apply, done, apply.  When no monitor comes or goes any more the daemon goes  *)
(* quiet, whatever other clients do to the layout.                              *)
SetSettles == <>[][UNCHANGED plugged]_vars
Quiesces == SetSettles => <>[](do_restore = "none" /\ ~restore_queued)

(* Once nobody else touches layouts and profiles, a change of the set, already  *)
(* seen (restore_queued) or still on the wire, ends in the remembered layout of *)
(* the set that stays, and the daemon leaves it so: of all the restores that    *)
(* hotplugs overlap, the last one is of the set there is and is not refused     *)
(* (the refresh of do_restore takes up what would make its serial stale).       *)
Matches == plugged \in remembered /\ slots < OM_MAX_HEADS
SetChangeKnown == restore_queued \/ heads # plugged
Restored ==
    SetSettles /\ <>[]Matches => [](calm /\ SetChangeKnown => <>[](layout = "saved"))
==============================================================================
