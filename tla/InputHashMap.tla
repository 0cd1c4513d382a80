---------------------------- MODULE InputHashMap ----------------------------
(***************************************************************************)
(* The table of the circuit's inputs, by the hash of their names:          *)
(* Circom_CalcWit::getInputSignalHashPosition (circuit_cpp/calcwit.cpp).   *)
(* The compiler fills it (circuit.dat); a slot it leaves empty has signal  *)
(* id 0, which is the constant 1 and no input.                             *)
(***************************************************************************)
EXTENDS Integers, FiniteSets, FiniteSetsExt

EmptySlot == [hash |-> 0, signalid |-> 0, signalsize |-> 0]

NotFound == -1   \* assert(false)

(***************************************************************************)
(* The home slot is looked at for the hash only.  From the next one on, a  *)
(* slot with the hash ends the search, and so does an empty one; the       *)
(* search also ends when it is back at the home slot.                      *)
(***************************************************************************)
\* Mutant: the search does not wrap around.
GetInputSignalHashPositionNoWrap(map, h) ==
    LET n == Cardinality(DOMAIN map)
        home == h % n
        later == {p \in home..(n - 1) : map[p].hash = h}
    IN  IF later # {} THEN Min(later) ELSE NotFound

GetInputSignalHashPosition(map, h) ==
    LET n == Cardinality(DOMAIN map)
        home == h % n
        Slot(k) == (home + k) % n
        stops == {k \in 1..(n - 1) : map[Slot(k)].hash = h \/ map[Slot(k)].signalid = 0}
        stop == Slot(Min(stops))
    IN  IF map[home].hash = h THEN home
        ELSE IF stops = {} THEN NotFound
        ELSE IF map[stop].hash = h THEN stop ELSE NotFound
=============================================================================
