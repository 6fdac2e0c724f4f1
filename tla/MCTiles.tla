-------------------------------- MODULE MCTiles --------------------------------
(***************************************************************************)
(* CompressedTile, TileViewState and Bookkeeping on small instances: in    *)
(* each behaviour one of them works, and the others stay in their initial  *)
(* state.                                                                  *)
(***************************************************************************)
EXTENDS CompressedTile, TileViewState, Bookkeeping, TLC

VARIABLE part   \* the component that works

tilesVars == <<part, vars, tileViewVars, bookVars>>

TilesInit ==
    /\ Init /\ TileViewInit /\ BookInit
    /\ part \in {"tile", "tile view", "bookkeeping"}

TilesNext ==
    /\ UNCHANGED part
    /\ \/ /\ part = "tile" /\ Next
          /\ UNCHANGED <<tileViewVars, bookVars>>
       \/ /\ part = "tile view" /\ TileViewNext
          /\ UNCHANGED <<vars, bookVars>>
       \/ /\ part = "bookkeeping" /\ BookNext
          /\ UNCHANGED <<vars, tileViewVars>>

TilesSpec == TilesInit /\ [][TilesNext]_tilesVars

\* The threads that draw a tile in advance are interchangeable.
Symmetry == Permutations(Zoomers)
=============================================================================
