------------------------------- MODULE MCDrawing -------------------------------
(***************************************************************************)
(* Redraw, Progress and Tools on small instances: in each behaviour one of *)
(* them works, and the others stay in their initial state, in which none   *)
(* of the actions that have to be fair is enabled.                         *)
(***************************************************************************)
EXTENDS Redraw, Progress, Tools

VARIABLE part   \* the component that works

drawingVars == <<part, redrawVars, progressVars, toolVars>>

MCViewTiles == 1..2
MCViewAreas == {{1}, {2}, {1, 2}}
MCViewZooms == {1, 2}

DrawingInit ==
    /\ RedrawInit /\ ProgressInit /\ ToolsInit
    /\ part \in {"redraw", "progress", "tools"}

DrawingNext ==
    /\ UNCHANGED part
    /\ \/ /\ part = "redraw" /\ RedrawNext
          /\ UNCHANGED <<progressVars, toolVars>>
       \/ /\ part = "progress" /\ ProgressNext
          /\ UNCHANGED <<redrawVars, toolVars>>
       \/ /\ part = "tools" /\ ToolsNext
          /\ UNCHANGED <<redrawVars, progressVars>>

DrawingSpec ==
    /\ DrawingInit /\ [][DrawingNext]_drawingVars
    /\ RedrawFairness /\ ProgressFairness /\ ToolsFairness
=============================================================================
