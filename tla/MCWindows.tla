------------------------------- MODULE MCWindows -------------------------------
(***************************************************************************)
(* ViewWindow, Overlay and Application on small instances: in each         *)
(* behaviour one of them works, and the others stay in an initial state.   *)
(***************************************************************************)
EXTENDS ViewWindow, Overlay, Application

VARIABLE part   \* the component that works

windowsVars == <<part, viewVars, overlayVars, appVars>>

\* An image, and one that is not at the origin and has oblong pixels.
Area(x, y, w, h) == [h |-> [start |-> x, size |-> w], v |-> [start |-> y, size |-> h]]
Pair(x, y) == [x |-> x, y |-> y]
MCViewPresentations == {[rect |-> Area(0, 0, 40, 30), aspect |-> Pair(1, 1)],
                        [rect |-> Area(-3, 5, 20, 9), aspect |-> Pair(2, 1)]}
MCWindowSizes == {Pair(16, 10), Pair(7, 9)}
MCChosenZooms == -5..5   \* all that the windows and presentations make
MCMousePoints == {Pair(0, 0), Pair(5, 3)}

MCLayers == {"text", "photo", "frame"}
MCAreaOf == [text |-> <<0, 3>>, photo |-> <<1, 5>>, frame |-> <<-4, -2>>]
MCPalette == <<"red", "green">>

NoFiles == [regular |-> <<>>, overlay |-> <<>>]
MCDirectories == <<Openers \cup ToolPlugins, Makers \cup Aggregators \cup Colouring>>
MCCommandLines == [regular : {<<>>, <<"image", "text">>},
                   overlay : {<<>>, <<"image", "image">>, <<"image", "text">>}]

WindowsInit ==
    /\ ViewInit /\ OverlayInit /\ AppInit
    /\ part \in {"view", "overlay", "application"}
    /\ part # "application" => filenames = NoFiles

WindowsNext ==
    /\ UNCHANGED part
    /\ \/ /\ part = "view" /\ ViewNext
          /\ UNCHANGED <<overlayVars, appVars>>
       \/ /\ part = "overlay" /\ OverlayNext
          /\ UNCHANGED <<viewVars, appVars>>
       \/ /\ part = "application" /\ AppNext
          /\ UNCHANGED <<viewVars, overlayVars>>

WindowsSpec == WindowsInit /\ [][WindowsNext]_windowsVars
=============================================================================
