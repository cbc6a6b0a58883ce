---------------------------- MODULE WeightWindow ----------------------------
(***************************************************************************)
(* `LongTermWeightWindow` (weight.rs): the sliding window over the stored  *)
(* long-term weights.  `order` is the weights oldest first; `lower` and    *)
(* `upper` are the smaller and the larger half of them, as maps from a     *)
(* weight to how often it is there, whose sizes are counted along, so that *)
(* the median is read off where the halves meet.                           *)
(***************************************************************************)
EXTENDS Emission

CONSTANT Capacity   \* LONG_TERM_BLOCK_WEIGHT_WINDOW_SIZE

ASSUME CapacityAssumption == Capacity \in Nat \ {0}

EmptyWindow ==
    [order |-> << >>, lower |-> << >>, upper |-> << >>, lowerLen |-> 0, upperLen |-> 0]

MaxLower(w) == Max(DOMAIN w.lower)
MinUpper(w) == Min(DOMAIN w.upper)

(* One more, and one fewer, of weight v.  A weight that is not there any more
   has no entry. *)
Put(map, v) ==
    [x \in DOMAIN map \cup {v} |->
        IF x = v THEN IF v \in DOMAIN map THEN map[v] + 1 ELSE 1 ELSE map[x]]

Take(map, v) ==
    [x \in IF map[v] > 1 THEN DOMAIN map ELSE DOMAIN map \ {v} |->
        IF x = v THEN map[v] - 1 ELSE map[x]]

AddLower(w, v) == [w EXCEPT !.lower = Put(@, v), !.lowerLen = @ + 1]
AddUpper(w, v) == [w EXCEPT !.upper = Put(@, v), !.upperLen = @ + 1]
TakeLower(w, v) == [w EXCEPT !.lower = Take(@, v), !.lowerLen = @ - 1]
TakeUpper(w, v) == [w EXCEPT !.upper = Take(@, v), !.upperLen = @ - 1]

(* `shift` *)
ToUpper(w) == AddUpper(TakeLower(w, MaxLower(w)), MaxLower(w))
ToLower(w) == AddLower(TakeUpper(w, MinUpper(w)), MinUpper(w))

(* `rebalance`.  One value was added or taken, so each of its loops turns at
   most once, and never both. *)
Rebalance(w) ==
    IF w.lowerLen > w.upperLen + 1 THEN ToUpper(w)
    ELSE IF w.upperLen > w.lowerLen THEN ToLower(w)
    ELSE w

(* Fault: a new weight always joins the lower half. *)
InsertWeight_Lower(w, v) == Rebalance(AddLower(w, v))

InsertWeight(w, v) ==
    Rebalance(IF w.lower # << >> /\ v > MaxLower(w) THEN AddUpper(w, v) ELSE AddLower(w, v))

RemoveWeight(w, v) ==
    Rebalance(IF v \in DOMAIN w.lower THEN TakeLower(w, v) ELSE TakeUpper(w, v))

(* `push`: the oldest weight goes once the window is full. *)
Push(w, v) ==
    LET full == Len(w.order) = Capacity
        room == IF full THEN RemoveWeight([w EXCEPT !.order = Tail(@)], Head(w.order)) ELSE w
    IN InsertWeight([room EXCEPT !.order = Append(@, v)], v)

(* `median`, zero for an empty window. *)
WindowMedian(w) ==
    IF w.lower = << >> THEN 0
    ELSE IF (w.lowerLen + w.upperLen) % 2 = 1 \/ w.upper = << >> THEN MaxLower(w)
    ELSE GetMid(MaxLower(w), MinUpper(w))
=============================================================================
