------------------------------- MODULE TxPool -------------------------------
(***************************************************************************)
(* wownerod's transaction pool (`mempool.rs`) as operators on its value:   *)
(* the entries by id, the index of the key images they spend, and their    *)
(* total weight.  What a method does to the pool is what the operator      *)
(* returns; a method with several outcomes returns the set of them.        *)
(*                                                                         *)
(* The checks of size, fee, extra field and unlock time are a fact of the  *)
(* transaction (`WithinPolicy`).                                           *)
(***************************************************************************)
EXTENDS Naturals, FiniteSets, FiniteSetsExt, Functions, Transactions

CONSTANTS
    WithinPolicy,   \* transactions that satisfy the relay policy
    Weight, Fee,
    MaxWeight,      \* --max-txpool-weight
    Livetime,       \* TX_LIVETIME
    AltLivetime     \* TX_FROM_ALT_BLOCK_LIVETIME

ASSUME PoolAssumption ==
    /\ WithinPolicy \subseteq Tx
    /\ Weight \in [Tx -> Nat \ {0}] /\ Fee \in [Tx -> Nat]
    /\ MaxWeight \in Nat /\ Livetime \in Nat /\ AltLivetime \in Nat

(* The relay methods, in the order a transaction moves up. *)
Rank == [None |-> 0, Local |-> 1, Forward |-> 2, Stem |-> 3, Fluff |-> 4, Block |-> 5]

Entry == [relay : DOMAIN Rank, received : Nat]

EmptyPool == [entries |-> [t \in {} |-> 0], spent |-> [k \in {} |-> 0], weight |-> 0]

Held(p) == DOMAIN p.entries

Public(e) == e.relay \in {"Fluff", "Block"}

(* Held openly: public, or kept from relay by whoever submitted it. *)
Legacy(e) == Public(e) \/ e.relay = "None"

-----------------------------------------------------------------------------
(* Taking out. *)

WeightOf(T) == MapThenSumSet(LAMBDA t : Weight[t], T)

Remove(p, T) ==
    [entries |-> Restrict(p.entries, Held(p) \ T),
     spent   |-> Restrict(p.spent, {k \in DOMAIN p.spent : p.spent[k] \notin T}),
     weight  |-> p.weight - WeightOf(T \cap Held(p))]

Expire(p, now) ==
    Remove(p, {t \in Held(p) :
                 LET e == p.entries[t]
                 IN  e.received + (IF e.relay = "Block" THEN AltLivetime ELSE Livetime) < now})

(* No better fee per weight than. *)
PaysNoBetter(s, t) == Fee[s] * Weight[t] <= Fee[t] * Weight[s]

(* R is what evict_to_fit drops: worst-paying first, one by one, until the
   rest fits.  The order among equals is the map's, that is, any. *)
Evicted(p, R) ==
    LET left(T) == p.weight - WeightOf(T)
    IN  /\ left(R) <= MaxWeight
        /\ \A r \in R, t \in Held(p) \ R : PaysNoBetter(r, t)
        /\ R # {} => \E last \in R : /\ left(R \ {last}) > MaxWeight
                                     /\ \A r \in R : PaysNoBetter(r, last)

EvictToFit(p) == {Remove(p, R) : R \in {S \in SUBSET Held(p) : Evicted(p, S)}}

(* What a new main-chain block b made redundant: what it contains, and what
   spends an image it spends. *)
RemoveMined(p, included, images) ==
    Remove(p, included \cup {p.spent[k] : k \in images \cap DOMAIN p.spent})

(* The same against the whole chain, after a reorganisation. *)
RemoveConfirmed(p, onChain, spentOnChain) == RemoveMined(p, onChain, spentOnChain)

-----------------------------------------------------------------------------
(* Putting in. *)

(* The map `old` with those of `new` inserted. *)
Over(new, old) ==
    [x \in DOMAIN new \cup DOMAIN old |-> IF x \in DOMAIN new THEN new[x] ELSE old[x]]

(* Fault: a transaction comes in without its key images. *)
InsertAll_NoImages(p, new) ==
    [entries |-> Over(new, p.entries), spent |-> p.spent, weight |-> p.weight + WeightOf(DOMAIN new)]

(* The entries `new` go in; what they spend is not spent in the pool. *)
InsertAll(p, new) ==
    [entries |-> Over(new, p.entries),
     spent   |-> Over([k \in ImagesIn(DOMAIN new) |->
                          CHOOSE t \in DOMAIN new : k \in ImagesOf[t]], p.spent),
     weight  |-> p.weight + WeightOf(DOMAIN new)]

Insert(p, t, e) == InsertAll(p, [u \in {t} |-> e])

(* A pooled transaction spends k, when t asks: t's own spend counts only
   while it is held openly. *)
SpentInPool(p, k, t) ==
    /\ k \in DOMAIN p.spent
    /\ p.spent[k] # t \/ Legacy(p.entries[t])

Unspent(p, t, spentOnChain) ==
    \A k \in ImagesOf[t] : k \notin spentOnChain /\ ~ SpentInPool(p, k, t)

(* The checks of `add` but for the verification. *)
Admissible(p, t, onChain, spentOnChain) ==
    /\ t \notin onChain
    /\ t \in Held(p) => ~ Legacy(p.entries[t])
    /\ t \in WithinPolicy
    /\ Unspent(p, t, spentOnChain)

(* A copy of a transaction held privately moves it up; a stem copy of one in
   its stem is a loop and fluffs it. *)
Upgrade(p, t, m, now) ==
    LET e  == p.entries[t]
        m2 == IF m = "Stem" /\ e.relay = "Stem" THEN "Fluff" ELSE m
    IN  IF Rank[e.relay] < Rank[m2]
          THEN [p EXCEPT !.entries[t] = [relay |-> m2, received |-> now]]
          ELSE p

(* Fault: a copy that comes late takes the transaction back. *)
SetRelayed_Back(p, t, m) == [p EXCEPT !.entries[t].relay = m]

(* set_relayed: t went out as m. *)
SetRelayed(p, t, m) ==
    IF Rank[p.entries[t].relay] < Rank[m] THEN [p EXCEPT !.entries[t].relay = m] ELSE p

(* The outcomes of `add` once t has passed its checks. *)
Add(p, t, m, now) ==
    IF t \in Held(p)
      THEN {Upgrade(p, t, m, now)}
      ELSE EvictToFit(Insert(Expire(p, now), t, [relay |-> m, received |-> now]))

(* The outcomes of going through T in some order, taking each transaction
   that spends nothing in `taken` nor what one before it took. *)
FirstCome(T, taken) ==
    LET disjoint(S) == /\ ImagesIn(S) \cap taken = {}
                       /\ \A s, t \in S : s # t => ImagesOf[s] \cap ImagesOf[t] = {}
    IN  {S \in SUBSET T : disjoint(S) /\ \A t \in T \ S : ~ disjoint(S \cup {t})}

(* add_kept_by_block of each of T, which verify. *)
AddKept(p, T, spentOnChain, now) ==
    LET kept(S) == [t \in S |-> [relay |-> "Block", received |-> now]]
    IN  {InsertAll(p, kept(S)) :
            S \in FirstCome(T \ Held(p), spentOnChain \cup DOMAIN p.spent)}

-----------------------------------------------------------------------------
(* On disk: `txpool_meta` and `txpool_blob` hold the entries last saved. *)

(* What `save` may leave there: it deletes the entries the pool no longer has
   and then writes those it has, each in a transaction of its own, and stops
   at the first that fails or when the process dies. *)
Saved(stored, p) ==
    {Restrict(stored, DOMAIN stored \ S) : S \in SUBSET (DOMAIN stored \ Held(p))}
    \cup {Over(Restrict(p.entries, S), Restrict(stored, DOMAIN stored \cap Held(p))) :
              S \in SUBSET Held(p)}

(* A saved pool read back, without what the chain has or spends by now. *)
Load(stored, onChain, spentOnChain, now) ==
    {Expire(InsertAll(EmptyPool, Restrict(stored, S)), now) :
        S \in FirstCome(DOMAIN stored \ onChain, spentOnChain)}

-----------------------------------------------------------------------------
(* The index is exactly the images the entries spend, each entry owning its
   own, and the weight is theirs: so no two entries spend the same output. *)
IndexesAgree(p) ==
    /\ DOMAIN p.spent = UNION {ImagesOf[t] : t \in Held(p)}
    /\ \A t \in Held(p) : \A k \in ImagesOf[t] : p.spent[k] = t
    /\ p.weight = WeightOf(Held(p))
=============================================================================
