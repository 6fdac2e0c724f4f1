---------------------------- MODULE LoadContract ----------------------------
(***************************************************************************)
(* What TiledBitmapInterface::setSource() promises: bitmaps are loaded one *)
(* after the other, in the order in which they were opened, each from its  *)
(* first row of tiles to its last; a source is told when it may close its  *)
(* file, when all has been read.  A bitmap that the user closes loses its  *)
(* turn, but the rows that are on their way by then are still read.        *)
(***************************************************************************)
EXTENDS Naturals, Sequences

CONSTANTS
    Bitmaps,
    Rows,     \* of each bitmap: the number of rows of tiles
    MaxLate   \* the number of rows that may be read after closing

VARIABLES
    status,  \* "new", "waiting", "loading", "loaded" or "closed"
    queue,   \* the bitmaps that wait for their turn
    rows,    \* the number of rows read
    late     \* the number of rows read after closing

vars == <<status, queue, rows, late>>

Init ==
    /\ status = [b \in Bitmaps |-> "new"]
    /\ queue = <<>>
    /\ rows = [b \in Bitmaps |-> 0]
    /\ late = [b \in Bitmaps |-> 0]

SetStatus(b, s) == status' = [status EXCEPT ![b] = s]

SetSource(b) ==
    /\ status[b] = "new"
    /\ SetStatus(b, "waiting")
    /\ queue' = Append(queue, b)
    /\ UNCHANGED <<rows, late>>

\* The next in line starts, unless it was closed.
NextInLine ==
    /\ queue # <<>>
    /\ \A b \in Bitmaps : status[b] # "loading"
    /\ queue' = Tail(queue)
    /\ IF status[Head(queue)] = "closed"
       THEN status' = status
       ELSE SetStatus(Head(queue), "loading")
    /\ UNCHANGED <<rows, late>>

Read(b) ==
    /\ rows[b] < Rows[b]
    /\ \/ status[b] = "loading" /\ late' = late
       \/ /\ status[b] = "closed" /\ late[b] < MaxLate
          /\ late' = [late EXCEPT ![b] = @ + 1]
    /\ rows' = [rows EXCEPT ![b] = @ + 1]
    /\ UNCHANGED <<status, queue>>

Finish(b) ==
    /\ status[b] = "loading"
    /\ rows[b] = Rows[b]
    /\ SetStatus(b, "loaded")
    /\ UNCHANGED <<queue, rows, late>>

Close(b) ==
    /\ status[b] \notin {"new", "closed"}
    /\ SetStatus(b, "closed")
    /\ UNCHANGED <<queue, rows, late>>

Next ==
    \/ NextInLine
    \/ \E b \in Bitmaps : SetSource(b) \/ Read(b) \/ Finish(b) \/ Close(b)

Spec == Init /\ [][Next]_vars
=============================================================================
