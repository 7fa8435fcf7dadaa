------------------------ MODULE AbstractTransaction ------------------------
(***************************************************************************)
(* What netcf.h promises of ncf_change_begin, ncf_change_rollback and      *)
(* ncf_change_commit: a begin saves the whole configuration, a rollback    *)
(* reverts to what was saved, a commit gives up the saved configuration    *)
(* and keeps the current one; each takes effect as a whole.                *)
(***************************************************************************)
CONSTANTS Files, Values, NoConfig

VARIABLES config, saved

Configs == [Files -> Values]

Init == config \in Configs /\ saved = NoConfig

Edit ==
    /\ \E f \in Files, x \in Values : config' = [config EXCEPT ![f] = x]
    /\ UNCHANGED saved

Begin ==
    /\ saved = NoConfig
    /\ saved' = config
    /\ UNCHANGED config

Commit ==
    /\ saved # NoConfig
    /\ saved' = NoConfig
    /\ UNCHANGED config

Rollback ==
    /\ saved # NoConfig
    /\ config' = saved
    /\ saved' = NoConfig

Next == Edit \/ Begin \/ Commit \/ Rollback

Spec == Init /\ [][Next]_<<config, saved>>
=============================================================================
