-------------------------------- MODULE MCLayers --------------------------------
(***************************************************************************)
(* Loading, of a bitmap of several rows and one that is waiting, and       *)
(* Reduction, with three layers, of which the bottom one has four tiles:   *)
(* in each behaviour one of them works, fairly, and the other stays in its *)
(* initial state.                                                          *)
(***************************************************************************)
EXTENDS Loading, Reduction

VARIABLE part   \* the component that works

layersVars == <<part, vars, reductionVars>>

MCBitmaps == {"large", "small"}
MCRows    == [b \in MCBitmaps |-> IF b = "large" THEN 3 ELSE 1]
MCColumns == [b \in MCBitmaps |-> IF b = "large" THEN 1 ELSE 2]

MCTiles  == 1..7
MCParent == <<5, 5, 6, 6, 7, 7, NoTile>>

LayersInit ==
    /\ Init /\ ReductionInit
    /\ part \in {"loading", "reduction"}

LayersNext ==
    /\ UNCHANGED part
    /\ \/ part = "loading" /\ Next /\ UNCHANGED reductionVars
       \/ part = "reduction" /\ ReductionNext /\ UNCHANGED vars

\* When nothing is being loaded, there is nothing that must happen eventually.
LayersSpec ==
    /\ LayersInit /\ [][LayersNext]_layersVars
    /\ WF_vars(SequentialThread) /\ \A w \in Workers : WF_vars(Worker(w))
    /\ \A w \in Reducers : WF_reductionVars(part = "reduction" /\ ReducerStep(w))

\* Every tile of a bitmap that stays open is reported: GetsFinished, when it is the
\* reduction that works (layercoordinator.cc).
ReductionGetsFinished == part = "reduction" => GetsFinished
=============================================================================
