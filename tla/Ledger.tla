------------------------------- MODULE Ledger -------------------------------
(***************************************************************************)
(* What the chain promises whoever asks under its lock: a ledger that is   *)
(* at every moment a chain of fully checked blocks, that grows a block at  *)
(* a time, and that a reorganisation replaces in one step, above the last  *)
(* checkpoint it has reached, by a fully checked ledger with strictly      *)
(* more work.  Nothing else changes it but an operator's `pop_blocks`, and *)
(* the death of the process in the middle of a call, which leaves a ledger *)
(* that is checked all the same but may have less work.                    *)
(***************************************************************************)
EXTENDS BlockRules

CONSTANT CanPop      \* whether an operator may call pop_blocks

VARIABLES
    ledger,          \* the rows of the main chain
    clock,           \* the wall clock
    mishaps          \* how often the process died or blocks were popped

LedgerInit ==
    /\ ledger = << [id |-> Genesis, cd |-> 1] >>
    /\ clock = 0 /\ mishaps = 0

(* A block joins the ledger after all the checks. *)
Extend ==
    \E b \in Block :
        /\ Accepts(b, ledger, Tip(ledger), clock)
        /\ ledger' = Append(ledger, RowFor(b, ledger, Tip(ledger)))
        /\ UNCHANGED <<clock, mishaps>>

(* The blocks above some height give way to others that carry more work. *)
Reorganise ==
    /\ ValidChain(ledger', clock)
    /\ Tip(ledger').cd > Tip(ledger).cd
    /\ Checkpoints \cap Ids(ledger) \subseteq Ids(ledger')
    /\ UNCHANGED <<clock, mishaps>>

Shortened == \E k \in 1..Len(ledger) : ledger' = SubSeq(ledger, 1, k)

(* An operator takes blocks off the tip; the genesis block stays. *)
Truncate ==
    /\ CanPop
    /\ Shortened
    /\ UNCHANGED <<clock, mishaps>>

(* A call is cut short, or a pop begins. *)
Interrupt ==
    /\ mishaps' = mishaps + 1
    /\ ValidChain(ledger', clock)
    /\ \/ Checkpoints \cap Ids(ledger) \subseteq Ids(ledger')
       \/ CanPop /\ Shortened
    /\ UNCHANGED clock

TimePasses == clock' > clock /\ UNCHANGED <<ledger, mishaps>>

LedgerNext == Extend \/ Reorganise \/ Truncate \/ Interrupt \/ TimePasses

LedgerSpec == LedgerInit /\ [][LedgerNext]_<<ledger, clock, mishaps>>
=============================================================================
