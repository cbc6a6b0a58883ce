---------------------------- MODULE ChainProofs ----------------------------
(***************************************************************************)
(* Proofs about Chain, for every block tree and every choice of constants. *)
(***************************************************************************)
EXTENDS Chain, TLAPS, SequenceTheorems

-----------------------------------------------------------------------------
(* Facts about sequences of rows. *)

(* The first n rows of a chain: what ValidChain checks a block against. *)
LEMMA PrefixRows ==
    ASSUME NEW S, NEW s \in Seq(S), NEW n \in 0..Len(s)
    PROVE  /\ SubSeq(s, 1, n) \in Seq(S)
           /\ Len(SubSeq(s, 1, n)) = n
           /\ DOMAIN SubSeq(s, 1, n) = 1..n
           /\ \A k \in 1..n : SubSeq(s, 1, n)[k] = s[k]
  <1>1. Len(s) \in Nat
    BY LenProperties
  <1>2. \A k \in 1..n : s[k] \in S
    BY <1>1, ElementOfSeq
  <1>3. /\ SubSeq(s, 1, n) \in Seq(S)
        /\ Len(SubSeq(s, 1, n)) = (IF 1 <= n THEN n - 1 + 1 ELSE 0)
        /\ \A k \in 1..(n - 1 + 1) : SubSeq(s, 1, n)[k] = s[1 + k - 1]
    BY <1>1, <1>2, SubSeqProperties
  <1>4. Len(SubSeq(s, 1, n)) = n
    BY <1>1, <1>3
  <1>5. \A k \in 1..n : SubSeq(s, 1, n)[k] = s[k]
    BY <1>1, <1>3
  <1>6. DOMAIN SubSeq(s, 1, n) = 1..n
    BY <1>3, <1>4, LenProperties
  <1>7. QED
    BY <1>3, <1>4, <1>5, <1>6

(* pop_block takes the last row off and leaves the others. *)
LEMMA DropRows ==
    ASSUME NEW S, NEW s \in Seq(S), s # << >>
    PROVE  /\ Drop(s) \in Seq(S)
           /\ Len(Drop(s)) = Len(s) - 1
           /\ DOMAIN Drop(s) = 1..(Len(s) - 1)
           /\ \A k \in 1..(Len(s) - 1) : Drop(s)[k] = s[k]
  <1>1. Len(s) \in Nat /\ Len(s) >= 1
    BY EmptySeq
  <1>2. Len(s) - 1 \in 0..Len(s)
    BY <1>1
  <1>3. QED
    BY <1>2, PrefixRows DEF Drop

LEMMA TipRow ==
    ASSUME NEW S, NEW s \in Seq(S), s # << >>
    PROVE  /\ Tip(s) \in S
           /\ Len(s) \in Nat /\ Len(s) >= 1
           /\ DOMAIN s = 1..Len(s)
           /\ Len(s) \in DOMAIN s
  <1>1. Len(s) \in Nat /\ Len(s) >= 1
    BY EmptySeq
  <1>2. DOMAIN s = 1..Len(s)
    BY LenProperties
  <1>3. Len(s) \in 1..Len(s)
    BY <1>1
  <1>4. QED
    BY <1>1, <1>2, <1>3, ElementOfSeq DEF Tip

(* add_block puts one row on top. *)
LEMMA AppendRow ==
    ASSUME NEW S, NEW s \in Seq(S), NEW r \in S
    PROVE  /\ Append(s, r) \in Seq(S)
           /\ Append(s, r) # << >>
           /\ Len(s) \in Nat
           /\ Len(Append(s, r)) = Len(s) + 1
           /\ DOMAIN Append(s, r) = 1..(Len(s) + 1)
           /\ \A k \in 1..Len(s) : Append(s, r)[k] = s[k]
           /\ Append(s, r)[Len(s) + 1] = r
           /\ Tip(Append(s, r)) = r
  <1>1. /\ Append(s, r) \in Seq(S)
        /\ Append(s, r) # << >>
        /\ Len(Append(s, r)) = Len(s) + 1
        /\ \A k \in 1..Len(s) : Append(s, r)[k] = s[k]
        /\ Append(s, r)[Len(s) + 1] = r
    BY AppendProperties
  <1>2. Len(s) \in Nat
    BY LenProperties
  <1>3. DOMAIN Append(s, r) = 1..(Len(s) + 1)
    BY <1>1, LenProperties
  <1>4. QED
    BY <1>1, <1>2, <1>3 DEF Tip

(* Chains that agree up to height n have the same first n rows. *)
LEMMA SamePrefix ==
    ASSUME NEW S, NEW s \in Seq(S), NEW t \in Seq(S), NEW n \in Nat,
           n <= Len(s), n <= Len(t),
           \A k \in 1..n : s[k] = t[k]
    PROVE  SubSeq(s, 1, n) = SubSeq(t, 1, n)
  <1>1. Len(s) \in Nat /\ Len(t) \in Nat
    BY LenProperties
  <1>2. n \in 0..Len(s) /\ n \in 0..Len(t)
    BY <1>1
  <1>3. /\ SubSeq(s, 1, n) \in Seq(S) /\ Len(SubSeq(s, 1, n)) = n
        /\ \A k \in 1..n : SubSeq(s, 1, n)[k] = s[k]
    BY <1>2, PrefixRows
  <1>4. /\ SubSeq(t, 1, n) \in Seq(S) /\ Len(SubSeq(t, 1, n)) = n
        /\ \A k \in 1..n : SubSeq(t, 1, n)[k] = t[k]
    BY <1>2, PrefixRows
  <1>5. QED
    BY <1>3, <1>4, SeqEqual

-----------------------------------------------------------------------------
(* Type correctness. *)

(* What the loops of switch_to_alternative and pop_blocks keep true of their
   counters: none of them ever pops the row at the split point, or genesis. *)
LoopBounds ==
    /\ phase = "pop" => sw.split + 1 <= Len(main) /\ sw.i = 1
    /\ phase = "apply" => Len(main) = sw.split + sw.i /\ sw.i >= 1
    /\ phase = "unapply" => /\ 1 <= sw.j /\ sw.j <= sw.i
                            /\ Len(main) + sw.j = sw.split + sw.i + 1
    /\ phase \in {"restore", "demote", "promote"} => sw.j >= 1
    /\ phase = "purge" => sw.i >= 1 /\ sw.j >= 1
    /\ phase = "restore" => sw.i >= 1
    /\ phase = "popblocks" => sw.i < Len(main)

TypeInv == TypeOK /\ LoopBounds

LEMMA RowForType ==
    ASSUME NEW b \in Block, NEW s \in Seq(Info), NEW c \in Info
    PROVE  RowFor(b, s, c) \in Info
  <1>1. c.id \in Block /\ c.cd \in Nat
    BY DEF Info
  <1>2. RequiredVersion(Len(s)) \in Version
    BY DEF RequiredVersion, Version
  <1>3. DifficultyAfter(c.id, Len(s)) \in Nat
    BY <1>1, <1>2, WorkAssumption DEF DifficultyAfter
  <1>4. QED
    BY <1>1, <1>3 DEF RowFor, Info

LEMMA OneOrMore == \A n \in Nat : n >= 1 => n = 1 \/ n > 1
  OBVIOUS

(* What alt_chain_to returns: a non-empty run of links that starts on the
   child of a main-chain block and ends in b. *)
LEMMA AltChainLinks ==
    ASSUME TypeOK, NEW b \in Block, NEW s \in AltChainTo(b)
    PROVE  /\ s \in Seq(Block) /\ Len(s) \in Nat /\ Len(s) >= 1
           /\ s[Len(s)] = b /\ b # Genesis /\ Prev[b] \in Block
           /\ SplitHeight(s) \in Nat
           /\ SplitHeight(s) + 1 \in DOMAIN main
           /\ main[SplitHeight(s) + 1].id = Prev[s[1]]
           /\ Len(s) > 1 => s[Len(s) - 1] \in DOMAIN alts
  <1>1. PICK n \in 1..Height[b] : s = Behind(b, n)
    BY DEF AltChainTo
  <1>2. Attaches(s, b)
    BY DEF AltChainTo
  <1>3. s \in Seq(Block)
    BY <1>2 DEF Attaches
  <1>4. DOMAIN s = 1..n
    BY <1>1 DEF Behind
  <1>5. Len(s) \in Nat /\ DOMAIN s = 1..Len(s)
    BY <1>3, LenProperties
  <1>6. Height[b] \in Nat /\ n \in Nat /\ n >= 1
    BY TreeAssumption
  <1>7. Len(s) \in Nat /\ Len(s) >= 1
    BY <1>4, <1>5, <1>6
  <1>8. b # Genesis
    <2>1. CASE Len(s) = 1
      BY <2>1, <1>2 DEF Attaches
    <2>2. CASE Len(s) > 1
      <3>1. Len(s) - 1 \in 1..(Len(s) - 1)
        BY <2>2, <1>7
      <3>2. s[Len(s) - 1 + 1] # Genesis
        BY <3>1, <1>2 DEF Attaches
      <3>3. QED
        BY <3>2, <1>2, <1>7 DEF Attaches
    <2>3. QED
      BY <1>7, <2>1, <2>2, OneOrMore
  <1>9. Len(s) > 1 => s[Len(s) - 1] \in DOMAIN alts
    <2>1. ASSUME Len(s) > 1 PROVE Len(s) - 1 \in 1..(Len(s) - 1)
      BY <2>1, <1>7
    <2>2. QED
      BY <2>1, <1>2 DEF Attaches
  <1>10. DOMAIN main = 1..Len(main) /\ Len(main) \in Nat
    BY LenProperties DEF TypeOK
  <1>11. \E k \in DOMAIN main : main[k].id = Prev[s[1]]
    BY <1>2 DEF Attaches, Ids
  <1>12. DEFINE k == CHOOSE k \in DOMAIN main : main[k].id = Prev[s[1]]
  <1>13. k \in DOMAIN main /\ main[k].id = Prev[s[1]]
    BY <1>11
  <1>14. SplitHeight(s) = k - 1
    BY DEF SplitHeight
  <1>15. k \in Nat \ {0} /\ k - 1 \in Nat /\ (k - 1) + 1 = k
    <2> HIDE DEF k
    <2>1. QED
      BY <1>10, <1>13
  <1>16. QED
    <2> HIDE DEF k
    <2>1. Prev[b] \in Block
      BY <1>8, TreeAssumption
    <2>2. s[Len(s)] = b
      BY <1>2 DEF Attaches
    <2>3. QED
      BY <1>3, <1>7, <1>8, <1>9, <1>13, <1>14, <1>15, <2>1, <2>2

LEMMA AltWorkType ==
    ASSUME TypeOK, NEW b \in Block, NEW s \in AltChainTo(b)
    PROVE  AltWork(b, s) \in Nat
  <1>1. AltDifficulty(b) \in Nat
    <2>1. Prev[b] \in Block
      BY AltChainLinks
    <2>2. RequiredVersion(Len(main)) \in Version
      BY DEF RequiredVersion, Version
    <2>3. QED
      BY <2>1, <2>2, WorkAssumption DEF AltDifficulty
  <1>2. CASE Len(s) = 1
    <2>1. SplitHeight(s) + 1 \in DOMAIN main
      BY AltChainLinks
    <2>2. main[SplitHeight(s) + 1] \in Info
      BY <2>1, LenProperties, ElementOfSeq DEF TypeOK
    <2>3. QED
      BY <1>1, <1>2, <2>2 DEF AltWork, Info
  <1>3. CASE Len(s) > 1
    <2>1. s[Len(s) - 1] \in DOMAIN alts
      BY <1>3, AltChainLinks
    <2>2. alts[s[Len(s) - 1]] \in Nat
      BY <2>1 DEF TypeOK
    <2>3. s \in Seq(Block) /\ Len(s) # 1
      BY <1>3, AltChainLinks
    <2>4. QED
      BY <1>1, <2>2, <2>3 DEF AltWork
  <1>4. Len(s) = 1 \/ Len(s) > 1
    BY AltChainLinks, OneOrMore
  <1>5. QED
    BY <1>2, <1>3, <1>4

LEMMA GenesisRowType == GenesisRow \in Info
  BY TreeAssumption DEF GenesisRow, Info

LEMMA NoCallType == NoCall \in Call
  BY EmptySeq DEF NoCall, Call

LEMMA TypeInvInit == Init => TypeInv
  <1> SUFFICES ASSUME Init PROVE TypeInv
    OBVIOUS
  <1>1. << GenesisRow >> \in Seq(Info) /\ << GenesisRow >> # << >>
    BY GenesisRowType
  <1>2. DOMAIN alts \subseteq Block /\ alts \in [DOMAIN alts -> Nat]
    BY DEF Init
  <1>3. TypeOK
    BY <1>1, <1>2, GenesisRowType, NoCallType DEF Init, TypeOK, Phases
  <1>4. LoopBounds
    BY DEF Init, LoopBounds
  <1>5. QED
    BY <1>3, <1>4 DEF TypeInv

LEMMA TxSetType ==
    ASSUME NEW b \in Block
    PROVE  TxSet(b) \subseteq Tx
  <1>1. TxsOf[b] \in Seq(Tx)
    BY BodyAssumption
  <1>2. \A k \in DOMAIN TxsOf[b] : TxsOf[b][k] \in Tx
    BY <1>1, LenProperties, ElementOfSeq
  <1>3. QED
    BY <1>2 DEF TxSet

LEMMA TxsInType ==
    ASSUME NEW s \in Seq(Info)
    PROVE  TxsIn(s) \subseteq Tx
  <1>1. \A k \in DOMAIN s : s[k] \in Info
    BY LenProperties, ElementOfSeq
  <1>2. \A k \in DOMAIN s : TxSet(s[k].id) \subseteq Tx
    BY <1>1, TxSetType DEF Info
  <1>3. QED
    BY <1>2 DEF TxsIn

(* Moving one of the two loop counters leaves the other locals alone. *)
LEMMA CountersMove ==
    ASSUME NEW c \in Call, NEW d, NEW x \in Nat
    PROVE  /\ d = [c EXCEPT !.i = x] =>
                 /\ d \in Call /\ d.i = x /\ d.j = c.j
                 /\ d.chain = c.chain /\ d.split = c.split
                 /\ d.popped = c.popped /\ d.now = c.now
           /\ d = [c EXCEPT !.j = x] =>
                 /\ d \in Call /\ d.i = c.i /\ d.j = x
                 /\ d.chain = c.chain /\ d.split = c.split
                 /\ d.popped = c.popped /\ d.now = c.now
  BY DEF Call

LEMMA OneMorePopped ==
    ASSUME NEW n \in Nat, NEW i \in Nat, NEW j \in Nat, NEW h \in Nat,
           1 <= j, j < i, n + j = h + i + 1
    PROVE  1 <= j + 1 /\ j + 1 <= i /\ (n - 1) + (j + 1) = h + i + 1
  OBVIOUS

(* Each step keeps the types, and the loop counters within bounds. *)
LEMMA TypeInvStep == TypeInv /\ [Next]_vars => TypeInv'
  <1> SUFFICES ASSUME TypeInv, [Next]_vars PROVE TypeInv'
    OBVIOUS
  <1> USE DEF TypeInv
  <1>c. /\ sw.chain \in Seq(Block) /\ sw.split \in Nat /\ sw.popped \in Seq(Info)
        /\ sw.i \in Nat /\ sw.j \in Nat /\ sw.now \in Nat
    BY DEF TypeOK, Call
  <1>m. /\ main \in Seq(Info) /\ main # << >> /\ cache \in Info
        /\ Tip(main) \in Info /\ Len(main) \in Nat /\ Len(main) >= 1
    BY TipRow DEF TypeOK
  <1>n. /\ NoCall \in Call /\ NoCall.i = 0 /\ NoCall.j = 0
    BY NoCallType DEF NoCall
  <1>1. ASSUME NEW b \in Block, AddToMain(b) PROVE TypeInv'
    <2>1. RowFor(b, main, cache) \in Info
      BY <1>m, RowForType
    <2>2. main' \in Seq(Info) /\ main' # << >> /\ cache' \in Info
      BY <1>1, <1>m, <2>1, AppendRow DEF AddToMain, Commit
    <2>3. TypeOK'
      BY <1>1, <2>2 DEF AddToMain, TypeOK
    <2>4. LoopBounds'
      BY <1>1 DEF AddToMain, LoopBounds
    <2>5. QED
      BY <2>3, <2>4
  <1>2. ASSUME NEW b \in Block, NEW s \in AltChainTo(b),
               AddAlt(b, s) \/ RefuseSwitch(b, s)
        PROVE  TypeInv'
    <2>1. AltWork(b, s) \in Nat
      BY AltWorkType
    <2>2. StoreAlt(b, s) /\ phase = "idle"
      BY <1>2 DEF AddAlt, RefuseSwitch
    <2>3. /\ DOMAIN alts' \subseteq Block /\ alts' \in [DOMAIN alts' -> Nat]
          /\ altTxs' \subseteq Block
      BY <2>1, <2>2 DEF StoreAlt, TypeOK
    <2>4. UNCHANGED <<main, orphaned, cache, phase, sw, clock, used, before>>
      BY <1>2 DEF AddAlt, RefuseSwitch
    <2>5. TypeOK'
      BY <2>3, <2>4 DEF TypeOK
    <2>6. LoopBounds'
      BY <2>2, <2>4 DEF LoopBounds
    <2>7. QED
      BY <2>5, <2>6
  <1>3. ASSUME NEW b \in Block, NEW s \in AltChainTo(b), BeginSwitch(b, s)
        PROVE  TypeInv'
    <2>1. AltWork(b, s) \in Nat
      BY AltWorkType
    <2>2. /\ DOMAIN alts' \subseteq Block /\ alts' \in [DOMAIN alts' -> Nat]
          /\ altTxs' \subseteq Block
      BY <1>3, <2>1 DEF BeginSwitch, StoreAlt, TypeOK
    <2>3. /\ s \in Seq(Block) /\ SplitHeight(s) \in Nat
          /\ SplitHeight(s) + 1 \in 1..Len(main)
      BY <1>m, AltChainLinks, LenProperties
    <2>4. clock \in Nat
      BY DEF TypeOK
    <2>5. sw' = [chain |-> s, split |-> SplitHeight(s), popped |-> << >>,
                 i |-> 1, j |-> 0, now |-> clock]
      BY <1>3 DEF BeginSwitch, NoCall
    <2>6. sw' \in Call /\ sw'.split = SplitHeight(s) /\ sw'.i = 1
      BY <2>3, <2>4, <2>5, EmptySeq DEF Call
    <2>7. TypeOK'
      BY <1>3, <2>2, <2>6 DEF BeginSwitch, TypeOK, Phases
    <2>8. LoopBounds'
      BY <1>3, <1>m, <2>3, <2>6 DEF BeginSwitch, LoopBounds
    <2>9. QED
      BY <2>7, <2>8
  <1>4. ASSUME PopToSplit PROVE TypeInv'
    <2>1. /\ main' \in Seq(Info) /\ Len(main') = Len(main) - 1
      BY <1>4, <1>m, DropRows DEF PopToSplit
    <2>2. Len(main) > 1
      BY <1>4, <1>c, <1>m DEF PopToSplit, LoopBounds
    <2>3. main' # << >>
      BY <1>m, <2>1, <2>2, EmptySeq
    <2>c. <<Tip(main)>> \o sw.popped \in Seq(Info)
      BY <1>c, <1>m, ConcatProperties
    <2>4. TypeOK'
      BY <1>4, <1>c, <1>m, <2>1, <2>3, <2>c DEF PopToSplit, TypeOK, Call
    <2>5. LoopBounds'
      BY <1>4, <1>c, <1>m, <2>1, <2>2 DEF PopToSplit, LoopBounds
    <2>6. QED
      BY <2>4, <2>5
  <1>5. ASSUME PopDone PROVE TypeInv'
    <2>1. TypeOK'
      BY <1>5, <1>c, <1>m, <1>n DEF PopDone, TypeOK, Phases, Call
    <2>2. LoopBounds'
      BY <1>5, <1>c, <1>m DEF PopDone, LoopBounds
    <2>3. QED
      BY <2>1, <2>2
  <1>6. ASSUME ApplyLink PROVE TypeInv'
    <2>1. sw.chain[sw.i] \in Block
      BY <1>6, <1>c, ElementOfSeq DEF ApplyLink, LoopBounds
    <2>2. RowFor(sw.chain[sw.i], main, cache) \in Info
      BY <1>m, <2>1, RowForType
    <2>3. /\ main' \in Seq(Info) /\ main' # << >> /\ cache' \in Info
          /\ Len(main') = Len(main) + 1
      BY <1>6, <1>m, <2>2, AppendRow DEF ApplyLink, Commit
    <2>s. /\ sw' \in Call /\ sw'.i = sw.i + 1 /\ sw'.split = sw.split
          /\ sw'.j = sw.j
      <3>1. sw \in Call /\ sw.i + 1 \in Nat
        BY <1>c DEF TypeOK
      <3>2. sw' = [sw EXCEPT !.i = sw.i + 1]
        BY <1>6 DEF ApplyLink
      <3>3. QED
        BY <3>1, <3>2, CountersMove
    <2>4. TypeOK'
      BY <1>6, <1>c, <2>s, <2>3 DEF ApplyLink, TypeOK
    <2>5. LoopBounds'
      BY <1>6, <1>c, <1>m, <2>s, <2>3 DEF ApplyLink, LoopBounds
    <2>6. QED
      BY <2>4, <2>5
  <1>7. ASSUME RejectLink PROVE TypeInv'
    <2>1. TypeOK'
      BY <1>7, <1>c, <1>m, <1>n DEF RejectLink, TypeOK, Phases, Call
    <2>2. LoopBounds'
      BY <1>7, <1>c, <1>m DEF RejectLink, LoopBounds
    <2>3. QED
      BY <2>1, <2>2
  <1>8. ASSUME ApplyDone PROVE TypeInv'
    <2>1. TypeOK'
      BY <1>8, <1>c, <1>m, <1>n DEF ApplyDone, TypeOK, Phases, Call
    <2>2. LoopBounds'
      BY <1>8, <1>c, <1>m DEF ApplyDone, LoopBounds
    <2>3. QED
      BY <2>1, <2>2
  <1>9. ASSUME UnapplyLink PROVE TypeInv'
    <2>1. /\ main' \in Seq(Info) /\ Len(main') = Len(main) - 1
      BY <1>9, <1>m, DropRows DEF UnapplyLink
    <2>2. Len(main) > 1
      BY <1>9, <1>c, <1>m DEF UnapplyLink, LoopBounds
    <2>3. main' # << >>
      BY <1>m, <2>1, <2>2, EmptySeq
    <2>s. /\ sw' \in Call /\ sw'.j = sw.j + 1 /\ sw'.split = sw.split
          /\ sw'.i = sw.i
      <3>1. sw \in Call /\ sw.j + 1 \in Nat
        BY <1>c DEF TypeOK
      <3>2. sw' = [sw EXCEPT !.j = sw.j + 1]
        BY <1>9 DEF UnapplyLink
      <3>3. QED
        BY <3>1, <3>2, CountersMove
    <2>4. TypeOK'
      BY <1>9, <1>c, <1>m, <2>s, <2>1, <2>3 DEF UnapplyLink, TypeOK
    <2>b. /\ phase' = "unapply"
          /\ 1 <= sw.j /\ sw.j < sw.i /\ Len(main) + sw.j = sw.split + sw.i + 1
      BY <1>9, <1>c DEF UnapplyLink, LoopBounds
    <2>e. /\ 1 <= sw'.j /\ sw'.j <= sw'.i
          /\ Len(main') + sw'.j = sw'.split + sw'.i + 1
      <3>1. /\ 1 <= sw.j + 1 /\ sw.j + 1 <= sw.i
            /\ (Len(main) - 1) + (sw.j + 1) = sw.split + sw.i + 1
        BY <1>c, <1>m, <2>b, OneMorePopped
      <3>2. 1 <= sw'.j /\ sw'.j <= sw'.i
        BY <2>s, <3>1
      <3>3. Len(main') + sw'.j = sw'.split + sw'.i + 1
        BY <2>1, <2>s, <3>1
      <3>4. QED
        BY <3>2, <3>3
    <2>5. LoopBounds'
      BY <2>b, <2>e DEF LoopBounds
    <2>6. QED
      BY <2>4, <2>5
  <1>10. ASSUME UnapplyDone PROVE TypeInv'
    <2>1. TypeOK'
      BY <1>10, <1>c, <1>m, <1>n DEF UnapplyDone, TypeOK, Phases, Call
    <2>2. LoopBounds'
      BY <1>10, <1>c, <1>m DEF UnapplyDone, LoopBounds
    <2>3. QED
      BY <2>1, <2>2
  <1>11. ASSUME RestoreBlock PROVE TypeInv'
    <2>r. sw.popped[sw.j] \in Info
      BY <1>11, <1>c, ElementOfSeq DEF RestoreBlock, LoopBounds
    <2>1. sw.popped[sw.j].id \in Block
      BY <2>r DEF Info
    <2>2. RowFor(sw.popped[sw.j].id, main, cache) \in Info
      BY <1>m, <2>1, RowForType
    <2>3. /\ main' \in Seq(Info) /\ main' # << >> /\ cache' \in Info
          /\ Len(main') = Len(main) + 1
      BY <1>11, <1>m, <2>2, AppendRow DEF RestoreBlock, Commit
    <2>s. /\ sw' \in Call /\ sw'.j = sw.j + 1 /\ sw'.split = sw.split
          /\ sw'.i = sw.i
      <3>1. sw \in Call /\ sw.j + 1 \in Nat
        BY <1>c DEF TypeOK
      <3>2. sw' = [sw EXCEPT !.j = sw.j + 1]
        BY <1>11 DEF RestoreBlock
      <3>3. QED
        BY <3>1, <3>2, CountersMove
    <2>4. TypeOK'
      BY <1>11, <1>c, <2>s, <2>3 DEF RestoreBlock, TypeOK
    <2>5. LoopBounds'
      BY <1>11, <1>c, <1>m, <2>s, <2>3 DEF RestoreBlock, LoopBounds
    <2>6. QED
      BY <2>4, <2>5
  <1>12. ASSUME RestoreFails PROVE TypeInv'
    <2>1. TypeOK'
      BY <1>12, <1>c, <1>m, <1>n DEF RestoreFails, TypeOK, Phases, Call
    <2>2. LoopBounds'
      BY <1>12, <1>c, <1>m DEF RestoreFails, LoopBounds
    <2>3. QED
      BY <2>1, <2>2
  <1>13. ASSUME RestoreDone PROVE TypeInv'
    <2>1. TypeOK'
      BY <1>13, <1>c, <1>m, <1>n DEF RestoreDone, TypeOK, Phases, Call
    <2>2. LoopBounds'
      BY <1>13, <1>c, <1>m DEF RestoreDone, LoopBounds
    <2>3. QED
      BY <2>1, <2>2
  <1>14. ASSUME PurgeLink PROVE TypeInv'
    <2>1. sw' \in Call /\ sw'.j = sw.j + 1 /\ sw'.i = sw.i
      <3>1. sw \in Call /\ sw.j + 1 \in Nat
        BY <1>c DEF TypeOK
      <3>2. sw' = [sw EXCEPT !.j = sw.j + 1]
        BY <1>14 DEF PurgeLink
      <3>3. QED
        BY <3>1, <3>2, CountersMove
    <2>2. /\ DOMAIN alts' \subseteq Block /\ alts' \in [DOMAIN alts' -> Nat]
          /\ altTxs' \subseteq Block
      BY <1>14 DEF PurgeLink, RemoveAlt, TypeOK
    <2>3. TypeOK'
      BY <1>14, <2>1, <2>2 DEF PurgeLink, TypeOK
    <2>4. LoopBounds'
      BY <1>14, <1>c, <2>1 DEF PurgeLink, LoopBounds
    <2>5. QED
      BY <2>3, <2>4
  <1>15. ASSUME PurgeDone PROVE TypeInv'
    <2>1. TypeOK'
      BY <1>15, <1>c, <1>m, <1>n DEF PurgeDone, TypeOK, Phases, Call
    <2>2. LoopBounds'
      BY <1>15, <1>c, <1>m DEF PurgeDone, LoopBounds
    <2>3. QED
      BY <2>1, <2>2
  <1>16. ASSUME DemoteBlock PROVE TypeInv'
    <2>p. sw.popped[sw.j] \in Info
      BY <1>16, <1>c, ElementOfSeq DEF DemoteBlock, LoopBounds
    <2>1. sw' \in Call /\ sw'.j = sw.j + 1
      <3>1. sw \in Call /\ sw.j + 1 \in Nat
        BY <1>c DEF TypeOK
      <3>2. sw' = [sw EXCEPT !.j = sw.j + 1]
        BY <1>16 DEF DemoteBlock
      <3>3. QED
        BY <3>1, <3>2, CountersMove
    <2>2. /\ DOMAIN alts' \subseteq Block /\ alts' \in [DOMAIN alts' -> Nat]
          /\ altTxs' \subseteq Block
      BY <1>16, <2>p DEF DemoteBlock, TypeOK, Info
    <2>3. TypeOK'
      BY <1>16, <2>1, <2>2 DEF DemoteBlock, TypeOK
    <2>4. LoopBounds'
      BY <1>16, <1>c, <2>1 DEF DemoteBlock, LoopBounds
    <2>5. QED
      BY <2>3, <2>4
  <1>17. ASSUME DemoteDone PROVE TypeInv'
    <2>1. TypeOK'
      BY <1>17, <1>c, <1>m, <1>n DEF DemoteDone, TypeOK, Phases, Call
    <2>2. LoopBounds'
      BY <1>17, <1>c, <1>m DEF DemoteDone, LoopBounds
    <2>3. QED
      BY <2>1, <2>2
  <1>18. ASSUME PromoteLink PROVE TypeInv'
    <2>1. sw' \in Call /\ sw'.j = sw.j + 1
      <3>1. sw \in Call /\ sw.j + 1 \in Nat
        BY <1>c DEF TypeOK
      <3>2. sw' = [sw EXCEPT !.j = sw.j + 1]
        BY <1>18 DEF PromoteLink
      <3>3. QED
        BY <3>1, <3>2, CountersMove
    <2>2. /\ DOMAIN alts' \subseteq Block /\ alts' \in [DOMAIN alts' -> Nat]
          /\ altTxs' \subseteq Block
      BY <1>18 DEF PromoteLink, TypeOK, RemoveAlt
    <2>3. TypeOK'
      BY <1>18, <2>1, <2>2 DEF PromoteLink, TypeOK
    <2>4. LoopBounds'
      BY <1>18, <1>c, <2>1 DEF PromoteLink, LoopBounds
    <2>5. QED
      BY <2>3, <2>4
  <1>19. ASSUME SwitchDone PROVE TypeInv'
    <2>1. orphaned' \subseteq Tx
      BY <1>19, <1>c, TxsInType DEF SwitchDone, TypeOK
    <2>2. TypeOK'
      BY <1>19, <1>n, <2>1 DEF SwitchDone, TypeOK, Phases
    <2>3. LoopBounds'
      BY <1>19 DEF SwitchDone, LoopBounds
    <2>4. QED
      BY <2>2, <2>3
  <1>20. ASSUME NEW n \in 1..Len(main), PopBlocks(n) PROVE TypeInv'
    <2> DEFINE m == IF n < Len(main) - 1 THEN n ELSE Len(main) - 1
    <2>1. m \in Nat /\ m < Len(main) /\ sw' = [NoCall EXCEPT !.i = m]
      BY <1>20, <1>m DEF PopBlocks
    <2> HIDE DEF m
    <2>2. sw' \in Call /\ sw'.i = m
      BY <1>n, <2>1, CountersMove
    <2>3. TypeOK'
      BY <1>20, <1>m, <2>2 DEF PopBlocks, Intervene, TypeOK, Phases
    <2>4. LoopBounds'
      BY <1>20, <2>1, <2>2 DEF PopBlocks, LoopBounds
    <2>5. QED
      BY <2>3, <2>4
  <1>21. ASSUME PopOne PROVE TypeInv'
    <2>1. main' \in Seq(Info) /\ Len(main') = Len(main) - 1
      BY <1>21, <1>m, DropRows DEF PopOne
    <2>2. sw.i >= 1 /\ sw.i < Len(main) /\ phase' = "popblocks"
      BY <1>21, <1>c DEF PopOne, LoopBounds
    <2>3. main' # << >>
      BY <1>c, <1>m, <2>1, <2>2, EmptySeq
    <2>4. sw' \in Call /\ sw'.i = sw.i - 1
      <3>1. sw \in Call /\ sw.i - 1 \in Nat
        BY <1>c, <2>2 DEF TypeOK
      <3>2. sw' = [sw EXCEPT !.i = sw.i - 1]
        BY <1>21 DEF PopOne
      <3>3. QED
        BY <3>1, <3>2, CountersMove
    <2>5. orphaned' \subseteq Tx
      <3>1. Tip(main).id \in Block
        BY <1>m DEF Info
      <3>2. TxSet(Tip(main).id) \subseteq Tx
        BY <3>1, TxSetType
      <3>3. QED
        BY <1>21, <3>2 DEF PopOne, TypeOK
    <2>6. TypeOK'
      BY <1>21, <2>1, <2>3, <2>4, <2>5 DEF PopOne, TypeOK
    <2>7. LoopBounds'
      BY <1>c, <1>m, <2>1, <2>2, <2>4 DEF LoopBounds
    <2>8. QED
      BY <2>6, <2>7
  <1>22. ASSUME PopBlocksDone PROVE TypeInv'
    <2>1. TypeOK'
      BY <1>22, <1>c, <1>m, <1>n DEF PopBlocksDone, TypeOK, Phases, Call
    <2>2. LoopBounds'
      BY <1>22, <1>c, <1>m DEF PopBlocksDone, LoopBounds
    <2>3. QED
      BY <2>1, <2>2
  <1>23. ASSUME TakeOrphaned PROVE TypeInv'
    <2>1. TypeOK'
      BY <1>23, <1>c, <1>m, <1>n DEF TakeOrphaned, TypeOK, Phases, Call
    <2>2. LoopBounds'
      BY <1>23, <1>c, <1>m DEF TakeOrphaned, LoopBounds
    <2>3. QED
      BY <2>1, <2>2
  <1>24. ASSUME Restart PROVE TypeInv'
    <2>1. DOMAIN alts' \subseteq Block /\ alts' \in [DOMAIN alts' -> Nat]
      BY <1>24 DEF Restart, TypeOK
    <2>2. TypeOK'
      BY <1>24, <1>m, <1>n, <2>1 DEF Restart, Intervene, TypeOK, Phases
    <2>3. LoopBounds'
      BY <1>24 DEF Restart, LoopBounds
    <2>4. QED
      BY <2>2, <2>3
  <1>25. ASSUME StorageError PROVE TypeInv'
    <2>1. CASE phase = "apply"
      <3>1. sw' \in Call /\ sw'.j = 1 /\ sw'.i = sw.i /\ sw'.split = sw.split
        <4>1. sw \in Call /\ sw' = [sw EXCEPT !.j = 1]
          BY <1>25, <2>1 DEF StorageError, TypeOK
        <4>2. QED
          BY <4>1, CountersMove
      <3>2. TypeOK'
        BY <1>25, <2>1, <3>1 DEF StorageError, Intervene, TypeOK, Phases
      <3>3. phase' = "unapply" /\ main' = main
        BY <1>25, <2>1 DEF StorageError
      <3>4. Len(main) = sw.split + sw.i /\ sw.i >= 1
        BY <2>1 DEF LoopBounds
      <3>5. LoopBounds'
        BY <1>c, <1>m, <3>1, <3>3, <3>4 DEF LoopBounds
      <3>6. QED
        BY <3>2, <3>5
    <2>2. CASE phase # "apply"
      <3>1. TypeOK'
        BY <1>25, <1>n, <2>2 DEF StorageError, Intervene, TypeOK, Phases
      <3>2. LoopBounds'
        BY <1>25, <2>2 DEF StorageError, LoopBounds
      <3>3. QED
        BY <3>1, <3>2
    <2>3. QED
      BY <2>1, <2>2
  <1>26. ASSUME Tick \/ SetClockBack PROVE TypeInv'
    <2>1. clock' \in Nat /\ used' \in Nat
      BY <1>26 DEF Tick, SetClockBack, Intervene, TypeOK
    <2>2. UNCHANGED <<main, alts, altTxs, orphaned, cache, phase, sw, before>>
      BY <1>26 DEF Tick, SetClockBack
    <2>3. TypeOK'
      BY <2>1, <2>2 DEF TypeOK
    <2>4. LoopBounds'
      BY <2>2 DEF LoopBounds
    <2>5. QED
      BY <2>3, <2>4
  <1>27. ASSUME UNCHANGED vars PROVE TypeInv'
    BY <1>27 DEF vars, TypeOK, LoopBounds
  <1>28. QED
    BY <1>1, <1>2, <1>3, <1>4, <1>5, <1>6, <1>7, <1>8, <1>9, <1>10, <1>11, <1>12, <1>13,
       <1>14, <1>15, <1>16, <1>17, <1>18, <1>19, <1>20, <1>21, <1>22, <1>23, <1>24, <1>25,
       <1>26, <1>27
    DEF Next, HandleBlock, HandleAlternative, Continue, Switch

(* Blockchain's fields and the locals of its two long calls stay well formed,
   and no pop loop ever takes the genesis row: for every block tree, and
   whatever crashes, failures, pops and clock changes there are. *)
THEOREM TypeCorrect == Spec => []TypeOK
  <1>1. Init => TypeInv
    BY TypeInvInit
  <1>2. TypeInv /\ [Next]_vars => TypeInv'
    BY TypeInvStep
  <1>3. TypeInv => TypeOK
    BY DEF TypeInv
  <1>4. QED
    BY <1>1, <1>2, <1>3, PTL DEF Spec

-----------------------------------------------------------------------------
(* No double spend. *)

(* What a step may do to the main chain: nothing, pop the tip, or commit one
   block that passed add_block's checks, in a phase where blocks are checked. *)
CommitsOne ==
    /\ phase \in {"idle", "apply", "restore"}
    /\ \E b \in Block, now \in {clock, sw.now} :
          /\ Accepts(b, main, cache, now)
          /\ Commit(b)

LEMMA CommitSteps ==
    ASSUME TypeInv, (\E b \in Block : AddToMain(b)) \/ ApplyLink \/ RestoreBlock
    PROVE  CommitsOne
  <1> USE DEF TypeInv
  <1>c. /\ sw.chain \in Seq(Block) /\ sw.popped \in Seq(Info)
        /\ sw.i \in Nat /\ sw.j \in Nat
    BY DEF TypeOK, Call
  <1>1. ASSUME NEW b \in Block, AddToMain(b) PROVE CommitsOne
    BY <1>1 DEF AddToMain, CommitsOne
  <1>2. ASSUME ApplyLink PROVE CommitsOne
    <2>1. sw.chain[sw.i] \in Block
      BY <1>2, <1>c, ElementOfSeq DEF ApplyLink, LoopBounds
    <2>2. QED
      BY <1>2, <2>1 DEF ApplyLink, CommitsOne
  <1>3. ASSUME RestoreBlock PROVE CommitsOne
    <2>1. sw.popped[sw.j] \in Info
      BY <1>3, <1>c, ElementOfSeq DEF RestoreBlock, LoopBounds
    <2>2. sw.popped[sw.j].id \in Block
      BY <2>1 DEF Info
    <2>3. QED
      BY <1>3, <2>2 DEF RestoreBlock, CommitsOne
  <1>4. QED
    BY <1>1, <1>2, <1>3

LEMMA MainMoves ==
    ASSUME TypeInv, [Next]_vars
    PROVE  main' = main \/ main' = Drop(main) \/ CommitsOne
  <1>1. ASSUME (\E b \in Block : AddToMain(b)) \/ ApplyLink \/ RestoreBlock
        PROVE  CommitsOne
    BY <1>1, CommitSteps
  <1>2. ASSUME PopToSplit \/ UnapplyLink \/ PopOne PROVE main' = Drop(main)
    BY <1>2 DEF PopToSplit, UnapplyLink, PopOne
  <1>3. ASSUME NEW b \in Block, HandleAlternative(b) PROVE main' = main
    BY <1>3 DEF HandleAlternative, AddAlt, RefuseSwitch, BeginSwitch
  <1>4. ASSUME \/ PopDone \/ RejectLink \/ ApplyDone \/ UnapplyDone
               \/ RestoreFails \/ RestoreDone \/ PurgeLink \/ PurgeDone
               \/ DemoteBlock \/ DemoteDone \/ PromoteLink \/ SwitchDone
        PROVE  main' = main
    BY <1>4 DEF PopDone, RejectLink, ApplyDone, UnapplyDone, RestoreFails, RestoreDone,
                PurgeLink, PurgeDone, DemoteBlock, DemoteDone, PromoteLink, SwitchDone
  <1>5. ASSUME \/ \E n \in 1..Len(main) : PopBlocks(n)
               \/ PopBlocksDone \/ TakeOrphaned \/ Restart \/ StorageError
               \/ Tick \/ SetClockBack \/ UNCHANGED vars
        PROVE  main' = main
    BY <1>5 DEF PopBlocks, PopBlocksDone, TakeOrphaned, Restart, StorageError, Tick,
                SetClockBack, vars
  <1>6. QED
    BY <1>1, <1>2, <1>3, <1>4, <1>5 DEF Next, HandleBlock, Continue, Switch

(* A block that passes check_transactions shares no transaction and no key
   image with any block below it. *)
LEMMA FreshBlock ==
    ASSUME NEW b, NEW s, TransactionsFresh(b, s), NEW k \in DOMAIN s
    PROVE  /\ TxSet(s[k].id) \cap TxSet(b) = {}
           /\ BlockImages(s[k].id) \cap BlockImages(b) = {}
  <1>1. TxSet(s[k].id) \subseteq TxsIn(s)
    BY DEF TxsIn
  <1>2. BlockImages(s[k].id) \subseteq SpentIn(s)
    BY DEF SpentIn
  <1>3. \A t \in TxSet(b) : t \notin TxsIn(s) /\ ImagesOf[t] \cap SpentIn(s) = {}
    BY DEF TxSet, TransactionsFresh
  <1>4. BlockImages(b) \cap SpentIn(s) = {}
    BY <1>3 DEF BlockImages
  <1>5. QED
    BY <1>1, <1>2, <1>3, <1>4

LEMMA NoDoubleSpendStep ==
    ASSUME TypeInv, NoDoubleSpend, [Next]_vars
    PROVE  NoDoubleSpend'
  <1>m. /\ main \in Seq(Info) /\ main # << >> /\ cache \in Info
        /\ Len(main) \in Nat /\ DOMAIN main = 1..Len(main)
    BY TipRow DEF TypeInv, TypeOK
  <1>1. CASE main' = main
    BY <1>1 DEF NoDoubleSpend
  <1>2. CASE main' = Drop(main)
    <2>1. /\ DOMAIN main' = 1..(Len(main) - 1)
          /\ \A k \in 1..(Len(main) - 1) : main'[k] = main[k]
      BY <1>2, <1>m, DropRows
    <2>2. 1..(Len(main) - 1) \subseteq DOMAIN main
      BY <1>m
    <2>3. QED
      BY <2>1, <2>2 DEF NoDoubleSpend
  <1>3. CASE CommitsOne
    <2>1. PICK b \in Block, now \in {clock, sw.now} :
             Accepts(b, main, cache, now) /\ Commit(b)
      BY <1>3 DEF CommitsOne
    <2>2. RowFor(b, main, cache) \in Info
      BY <1>m, RowForType
    <2>3. /\ DOMAIN main' = 1..(Len(main) + 1)
          /\ \A k \in 1..Len(main) : main'[k] = main[k]
          /\ main'[Len(main) + 1] = RowFor(b, main, cache)
      BY <1>m, <2>1, <2>2, AppendRow DEF Commit
    <2>4. main'[Len(main) + 1].id = b
      BY <2>3 DEF RowFor
    <2>5. TransactionsFresh(b, main)
      BY <2>1 DEF Accepts
    <2>6. SUFFICES ASSUME NEW k \in DOMAIN main', NEW l \in DOMAIN main', k < l
                   PROVE  /\ TxSet(main'[k].id) \cap TxSet(main'[l].id) = {}
                          /\ BlockImages(main'[k].id) \cap BlockImages(main'[l].id) = {}
      BY DEF NoDoubleSpend
    <2>7. k \in DOMAIN main /\ main'[k] = main[k]
      BY <1>m, <2>3, <2>6
    <2>8. CASE l = Len(main) + 1
      BY <2>4, <2>5, <2>7, <2>8, FreshBlock
    <2>9. CASE l # Len(main) + 1
      <3>1. l \in DOMAIN main /\ main'[l] = main[l]
        BY <1>m, <2>3, <2>9
      <3>2. QED
        BY <2>6, <2>7, <3>1 DEF NoDoubleSpend
    <2>10. QED
      BY <2>8, <2>9
  <1>4. QED
    BY <1>1, <1>2, <1>3, MainMoves

(* check_transactions and pop_block: no key image is ever spent twice on the
   main chain and no transaction is ever in it twice, mid-switch states
   included, for every block tree and with every kind of failure: stale
   caches, crashes between writes, a clock that goes backwards. *)
THEOREM NoDoubleSpendHolds == Spec => []NoDoubleSpend
  <1>1. Init => NoDoubleSpend
    <2>1. ASSUME Init PROVE DOMAIN main = {1}
      BY <2>1 DEF Init
    <2>2. QED
      BY <2>1 DEF NoDoubleSpend
  <1>2. Init => TypeInv
    BY TypeInvInit
  <1>3. TypeInv /\ [Next]_vars => TypeInv'
    BY TypeInvStep
  <1>4. TypeInv /\ NoDoubleSpend /\ [Next]_vars => NoDoubleSpend'
    BY NoDoubleSpendStep
  <1>5. QED
    BY <1>1, <1>2, <1>3, <1>4, PTL DEF Spec

-----------------------------------------------------------------------------
(* Every block on the main chain was checked on top of the blocks below it. *)

(* A block that was not too far in the future is not so later. *)
LEMMA AcceptsLater ==
    ASSUME NEW b \in Block, NEW s, NEW c, NEW m \in Nat, NEW now \in Nat, m <= now,
           Accepts(b, s, c, m)
    PROVE  Accepts(b, s, c, now)
  <1>1. NotBefore[b] \in Nat /\ NotBefore[b] <= m
    BY WorkAssumption DEF Accepts
  <1>2. NotBefore[b] <= now
    BY <1>1
  <1>3. QED
    BY <1>2 DEF Accepts

(* The k-th row of s was checked against the k - 1 rows below it. *)
RowChecked(s, k, now) ==
    /\ Accepts(s[k].id, SubSeq(s, 1, k - 1), s[k - 1], now)
    /\ s[k] = RowFor(s[k].id, SubSeq(s, 1, k - 1), s[k - 1])

LEMMA ValidByRows ==
    ASSUME NEW s, NEW now
    PROVE  ValidChain(s, now) <=> /\ Len(s) > 0 /\ s[1] = GenesisRow
                                  /\ \A k \in 2..Len(s) : RowChecked(s, k, now)
  BY DEF ValidChain, RowChecked, GenesisRow

(* Whether a row was checked depends only on the rows up to it. *)
LEMMA SameRowChecked ==
    ASSUME NEW s \in Seq(Info), NEW t \in Seq(Info), NEW n \in Nat,
           n <= Len(s), n <= Len(t), \A k \in 1..n : s[k] = t[k],
           NEW now, NEW k \in 2..n, RowChecked(s, k, now)
    PROVE  RowChecked(t, k, now)
  <1>1. k - 1 \in Nat /\ k - 1 \in 1..n /\ k \in 1..n
    OBVIOUS
  <1>2. Len(s) \in Nat /\ Len(t) \in Nat
    BY LenProperties
  <1>3. k - 1 <= Len(s) /\ k - 1 <= Len(t)
    BY <1>1, <1>2
  <1>4. \A l \in 1..(k - 1) : s[l] = t[l]
    BY <1>1
  <1>5. SubSeq(s, 1, k - 1) = SubSeq(t, 1, k - 1)
    BY <1>1, <1>3, <1>4, SamePrefix
  <1>6. s[k] = t[k] /\ s[k - 1] = t[k - 1]
    BY <1>1
  <1>7. QED
    BY <1>5, <1>6 DEF RowChecked

LEMMA ValidLater ==
    ASSUME NEW s \in Seq(Info), NEW m \in Nat, NEW now \in Nat, m <= now, ValidChain(s, m)
    PROVE  ValidChain(s, now)
  <1>1. ASSUME NEW k \in 2..Len(s) PROVE RowChecked(s, k, now)
    <2>1. RowChecked(s, k, m)
      BY ValidByRows
    <2>2. s[k].id \in Block
      <3>1. k \in 1..Len(s)
        BY LenProperties
      <3>2. s[k] \in Info
        BY <3>1, ElementOfSeq
      <3>3. QED
        BY <3>2 DEF Info
    <2>3. QED
      BY <2>1, <2>2, AcceptsLater DEF RowChecked
  <1>2. QED
    BY <1>1, ValidByRows

LEMMA ValidDrop ==
    ASSUME NEW s \in Seq(Info), NEW now, ValidChain(s, now), Len(s) > 1
    PROVE  ValidChain(Drop(s), now)
  <1>1. Len(s) \in Nat /\ s # << >>
    BY LenProperties, EmptySeq
  <1>2. /\ Drop(s) \in Seq(Info) /\ Len(Drop(s)) = Len(s) - 1
        /\ \A k \in 1..(Len(s) - 1) : Drop(s)[k] = s[k]
    BY <1>1, DropRows
  <1>3. Len(Drop(s)) > 0 /\ Drop(s)[1] = GenesisRow
    BY <1>1, <1>2, ValidByRows
  <1>4. ASSUME NEW k \in 2..Len(Drop(s)) PROVE RowChecked(Drop(s), k, now)
    <2>1. k \in 2..Len(s) /\ k \in 2..(Len(s) - 1)
      BY <1>1, <1>2
    <2>2. RowChecked(s, k, now)
      BY <2>1, ValidByRows
    <2>3. Len(s) - 1 \in Nat /\ Len(s) - 1 <= Len(s) /\ Len(s) - 1 <= Len(Drop(s))
      BY <1>1, <1>2
    <2>4. QED
      BY <1>2, <2>1, <2>2, <2>3, SameRowChecked
  <1>5. QED
    BY <1>3, <1>4, ValidByRows

LEMMA ValidAppend ==
    ASSUME NEW s \in Seq(Info), NEW b \in Block, NEW now,
           ValidChain(s, now), Accepts(b, s, Tip(s), now)
    PROVE  ValidChain(Append(s, RowFor(b, s, Tip(s))), now)
  <1> DEFINE r == RowFor(b, s, Tip(s))
             t == Append(s, r)
  <1>1. Len(s) > 0 /\ s[1] = GenesisRow /\ \A k \in 2..Len(s) : RowChecked(s, k, now)
    BY ValidByRows
  <1>2. s # << >> /\ Len(s) \in Nat
    BY <1>1, EmptySeq, LenProperties
  <1>3. r \in Info /\ r.id = b
    <2>1. Tip(s) \in Info
      BY <1>2, TipRow
    <2>2. QED
      BY <2>1, RowForType DEF RowFor
  <1> HIDE DEF r
  <1>4. /\ t \in Seq(Info) /\ Len(t) = Len(s) + 1
        /\ \A k \in 1..Len(s) : t[k] = s[k]
        /\ t[Len(s) + 1] = r
    BY <1>3, AppendRow
  <1> HIDE DEF t
  <1>5. Len(t) > 0 /\ t[1] = GenesisRow
    BY <1>1, <1>2, <1>4
  <1>6. ASSUME NEW k \in 2..Len(t) PROVE RowChecked(t, k, now)
    <2>1. CASE k = Len(s) + 1
      <3>1. SubSeq(t, 1, k - 1) = s
        <4>1. SubSeq(t, 1, Len(s)) = SubSeq(s, 1, Len(s))
          <5>1. Len(s) <= Len(t) /\ Len(s) <= Len(s)
            BY <1>2, <1>4
          <5>2. QED
            BY <1>2, <1>4, <5>1, SamePrefix
        <4>2. k - 1 = Len(s)
          BY <1>2, <2>1
        <4>3. QED
          BY <4>1, <4>2, SubSeqFull
      <3>2. t[k - 1] = Tip(s)
        <4>1. k - 1 = Len(s) /\ Len(s) \in 1..Len(s)
          BY <1>1, <1>2, <2>1
        <4>2. QED
          BY <1>4, <4>1 DEF Tip
      <3>3. t[k] = r /\ t[k].id = b
        BY <1>3, <1>4, <2>1
      <3>4. QED
        BY <3>1, <3>2, <3>3 DEF RowChecked, r
    <2>2. CASE k # Len(s) + 1
      <3>1. k \in 2..Len(s)
        BY <1>2, <1>4, <2>2
      <3>2. RowChecked(s, k, now)
        BY <1>1, <3>1
      <3>3. Len(s) <= Len(s) /\ Len(s) <= Len(t)
        BY <1>2, <1>4
      <3>4. \A l \in 1..Len(s) : s[l] = t[l]
        BY <1>4
      <3>5. QED
        BY <1>2, <1>4, <3>1, <3>2, <3>3, <3>4, SameRowChecked
    <2>3. QED
      BY <2>1, <2>2
  <1>7. ValidChain(t, now)
    BY <1>5, <1>6, ValidByRows
  <1>8. QED
    BY <1>7 DEF t, r

(* No store operation fails and the wall clock does not go backwards. *)
Reliable == "storage" \notin Allowed /\ "clockback" \notin Allowed

SoundInv ==
    /\ TypeInv
    /\ CacheCoherent
    /\ sw.now <= clock
    /\ MainValid

LEMMA ClockStep ==
    ASSUME Reliable, TypeInv, sw.now <= clock, [Next]_vars
    PROVE  clock \in Nat /\ clock' \in Nat /\ clock <= clock' /\ sw'.now <= clock'
  <1>c. sw \in Call /\ sw.now \in Nat /\ clock \in Nat /\ NoCall.now = 0
    BY DEF TypeInv, TypeOK, Call, NoCall
  <1>t. clock' \in Nat /\ sw' \in Call
    BY TypeInvStep DEF TypeInv, TypeOK
  <1>1. ASSUME UNCHANGED <<sw, clock>> PROVE clock <= clock' /\ sw'.now <= clock'
    BY <1>1, <1>c
  <1>2. ASSUME UNCHANGED clock, sw' = NoCall PROVE clock <= clock' /\ sw'.now <= clock'
    BY <1>2, <1>c
  <1>3. ASSUME UNCHANGED clock, NEW f \in {"i", "j", "popped"}, NEW x,
               \/ f = "i" /\ sw' = [sw EXCEPT !.i = x]
               \/ f = "j" /\ sw' = [sw EXCEPT !.j = x]
               \/ f = "popped" /\ sw' = [sw EXCEPT !.popped = x]
        PROVE  clock <= clock' /\ sw'.now <= clock'
    <2>1. sw'.now = sw.now
      BY <1>3, <1>c DEF Call
    <2>2. QED
      BY <1>3, <1>c, <2>1
  <1>4. ASSUME NEW b \in Block, HandleBlock(b) PROVE clock <= clock' /\ sw'.now <= clock'
    <2>1. CASE UNCHANGED <<sw, clock>>
      BY <1>1, <2>1
    <2>2. ASSUME NEW s, BeginSwitch(b, s) PROVE clock' = clock /\ sw'.now = clock
      BY <2>2 DEF BeginSwitch, NoCall
    <2>3. QED
      BY <1>4, <1>c, <2>1, <2>2
      DEF HandleBlock, AddToMain, HandleAlternative, AddAlt, RefuseSwitch
  <1>5. ASSUME Switch PROVE clock <= clock' /\ sw'.now <= clock'
    <2>1. CASE PopToSplit \/ ApplyLink
      BY <1>3, <2>1 DEF PopToSplit, ApplyLink
    <2>2. CASE \/ RejectLink \/ ApplyDone \/ UnapplyLink \/ UnapplyDone \/ RestoreBlock
               \/ RestoreDone \/ PurgeLink \/ DemoteBlock \/ DemoteDone \/ PromoteLink
      BY <1>3, <2>2 DEF RejectLink, ApplyDone, UnapplyLink, UnapplyDone, RestoreBlock,
                        RestoreDone, PurgeLink, DemoteBlock, DemoteDone, PromoteLink
    <2>3. CASE RestoreFails \/ PurgeDone \/ SwitchDone
      BY <1>2, <2>3 DEF RestoreFails, PurgeDone, SwitchDone
    <2>4. CASE PopDone
      BY <1>1, <2>4 DEF PopDone
    <2>5. QED
      BY <1>5, <2>1, <2>2, <2>3, <2>4 DEF Switch
  <1>6. ASSUME NEW n \in 1..Len(main), PopBlocks(n) PROVE clock <= clock' /\ sw'.now <= clock'
    <2>1. sw'.now = 0 /\ clock' = clock
      BY <1>6 DEF PopBlocks, NoCall
    <2>2. QED
      BY <1>c, <2>1
  <1>7. ASSUME PopOne PROVE clock <= clock' /\ sw'.now <= clock'
    BY <1>3, <1>7 DEF PopOne
  <1>8. ASSUME PopBlocksDone \/ Restart PROVE clock <= clock' /\ sw'.now <= clock'
    BY <1>2, <1>8 DEF PopBlocksDone, Restart
  <1>9. ASSUME Tick PROVE clock <= clock' /\ sw'.now <= clock'
    BY <1>9, <1>c DEF Tick
  <1>10. ASSUME TakeOrphaned \/ UNCHANGED vars PROVE clock <= clock' /\ sw'.now <= clock'
    BY <1>1, <1>10 DEF TakeOrphaned, vars
  <1>11. ~ StorageError /\ ~ SetClockBack
    BY DEF Reliable, StorageError, SetClockBack, Intervene
  <1>12. QED
    BY <1>c, <1>t, <1>4, <1>5, <1>6, <1>7, <1>8, <1>9, <1>10, <1>11 DEF Next, Continue

LEMMA CacheStep ==
    ASSUME Reliable, TypeInv, CacheCoherent, [Next]_vars
    PROVE  CacheCoherent'
  <1> DEFINE Coherent == {"idle", "apply", "restore", "purge", "demote", "promote"}
  <1>1. ASSUME UNCHANGED <<main, cache>>, phase \in Coherent PROVE CacheCoherent'
    BY <1>1 DEF CacheCoherent, Tip
  <1>2. ASSUME UNCHANGED main, cache' = Tip(main) PROVE CacheCoherent'
    BY <1>2 DEF CacheCoherent, Tip
  <1>3. ASSUME phase' \notin Coherent PROVE CacheCoherent'
    BY <1>3 DEF CacheCoherent
  <1>4. ASSUME NEW b \in Block, Commit(b) PROVE CacheCoherent'
    <2>1. RowFor(b, main, cache) \in Info /\ main \in Seq(Info)
      BY RowForType DEF TypeInv, TypeOK
    <2>2. Tip(main)' = RowFor(b, main, cache)
      BY <1>4, <2>1, AppendRow DEF Commit, Tip
    <2>3. QED
      BY <1>4, <2>2 DEF Commit, CacheCoherent
  <1>5. ASSUME CommitsOne PROVE CacheCoherent'
    BY <1>4, <1>5 DEF CommitsOne
  <1>6. ASSUME NEW b \in Block, HandleAlternative(b) PROVE CacheCoherent'
    <2>1. ASSUME NEW s, AddAlt(b, s) \/ RefuseSwitch(b, s) PROVE CacheCoherent'
      BY <1>1, <2>1 DEF AddAlt, RefuseSwitch
    <2>2. ASSUME NEW s, BeginSwitch(b, s) PROVE CacheCoherent'
      BY <1>3, <2>2 DEF BeginSwitch
    <2>3. QED
      BY <1>6, <2>1, <2>2 DEF HandleAlternative
  <1>7. ASSUME PopToSplit \/ RejectLink \/ UnapplyLink \/ PopOne PROVE CacheCoherent'
    BY <1>3, <1>7 DEF PopToSplit, RejectLink, UnapplyLink, PopOne
  <1>8. ASSUME NEW n \in 1..Len(main), PopBlocks(n) PROVE CacheCoherent'
    BY <1>3, <1>8 DEF PopBlocks
  <1>9. ASSUME PopDone \/ UnapplyDone \/ PopBlocksDone \/ Restart PROVE CacheCoherent'
    BY <1>2, <1>9 DEF PopDone, UnapplyDone, PopBlocksDone, Restart
  <1>10. ASSUME \/ ApplyDone \/ RestoreFails \/ RestoreDone \/ PurgeLink \/ PurgeDone
                \/ DemoteBlock \/ DemoteDone \/ PromoteLink \/ SwitchDone \/ TakeOrphaned
         PROVE  CacheCoherent'
    BY <1>1, <1>10 DEF ApplyDone, RestoreFails, RestoreDone, PurgeLink, PurgeDone,
                       DemoteBlock, DemoteDone, PromoteLink, SwitchDone, TakeOrphaned
  <1>11. ASSUME Tick \/ UNCHANGED vars PROVE CacheCoherent'
    BY <1>11 DEF Tick, vars, CacheCoherent, Tip
  <1>12. ~ StorageError /\ ~ SetClockBack
    BY DEF Reliable, StorageError, SetClockBack, Intervene
  <1>13. ASSUME (\E b \in Block : AddToMain(b)) \/ ApplyLink \/ RestoreBlock
         PROVE  CacheCoherent'
    BY <1>5, <1>13, CommitSteps
  <1>14. QED
    BY <1>6, <1>7, <1>8, <1>9, <1>10, <1>11, <1>12, <1>13
    DEF Next, HandleBlock, Continue, Switch

LEMMA SoundInvInit == Init => SoundInv
  <1> SUFFICES ASSUME Init PROVE SoundInv
    OBVIOUS
  <1>1. TypeInv
    BY TypeInvInit
  <1>2. Tip(main) = GenesisRow /\ Len(main) = 1
    BY DEF Init, Tip
  <1>3. CacheCoherent
    BY <1>2 DEF Init, CacheCoherent
  <1>4. sw.now <= clock
    BY DEF Init, NoCall
  <1>5. main[1] = GenesisRow /\ Len(main) > 0
    BY <1>2 DEF Init
  <1>6. \A k \in 2..Len(main) : FALSE
    BY <1>2
  <1>7. MainValid
    BY <1>5, <1>6, ValidByRows DEF MainValid
  <1>8. QED
    BY <1>1, <1>3, <1>4, <1>7 DEF SoundInv

LEMMA SoundInvStep ==
    ASSUME Reliable, SoundInv, [Next]_vars
    PROVE  SoundInv'
  <1>1. TypeInv'
    BY TypeInvStep DEF SoundInv
  <1>2. CacheCoherent'
    BY CacheStep DEF SoundInv
  <1>3. clock \in Nat /\ clock' \in Nat /\ clock <= clock' /\ sw'.now <= clock'
    BY ClockStep DEF SoundInv
  <1>m. main \in Seq(Info) /\ main # << >> /\ Len(main) \in Nat /\ main' # << >>
    BY <1>1, TipRow DEF SoundInv, TypeInv, TypeOK
  <1>v. ValidChain(main, clock')
    BY <1>3, <1>m, ValidLater DEF SoundInv, MainValid
  <1>4. CASE main' = main
    BY <1>1, <1>2, <1>3, <1>4, <1>v DEF SoundInv, MainValid
  <1>5. CASE main' = Drop(main)
    <2>1. Len(main) > 1
      <3>1. Len(main') = Len(main) - 1 /\ main' \in Seq(Info)
        BY <1>5, <1>m, DropRows
      <3>2. Len(main') \in Nat /\ Len(main') # 0
        BY <1>m, <3>1, EmptySeq
      <3>3. QED
        BY <1>m, <3>1, <3>2
    <2>2. ValidChain(main', clock')
      BY <1>5, <1>m, <1>v, <2>1, ValidDrop
    <2>3. QED
      BY <1>1, <1>2, <1>3, <2>2 DEF SoundInv, MainValid
  <1>6. CASE CommitsOne
    <2>1. PICK b \in Block, now \in {clock, sw.now} :
             Accepts(b, main, cache, now) /\ Commit(b)
      BY <1>6 DEF CommitsOne
    <2>2. cache = Tip(main)
      BY <1>6 DEF CommitsOne, SoundInv, CacheCoherent
    <2>3. now \in Nat /\ now <= clock'
      BY <1>3 DEF SoundInv, TypeInv, TypeOK, Call
    <2>4. Accepts(b, main, Tip(main), clock')
      BY <1>3, <2>1, <2>2, <2>3, AcceptsLater
    <2>5. ValidChain(main', clock')
      BY <1>m, <1>v, <2>1, <2>2, <2>4, ValidAppend DEF Commit
    <2>6. QED
      BY <1>1, <1>2, <1>3, <2>5 DEF SoundInv, MainValid
  <1>7. QED
    BY <1>4, <1>5, <1>6, MainMoves DEF SoundInv

LEMMA SoundInvHolds ==
    ASSUME Reliable
    PROVE  Spec => []SoundInv
  <1>1. Init => SoundInv
    BY SoundInvInit
  <1>2. SoundInv /\ [Next]_vars => SoundInv'
    BY SoundInvStep
  <1>3. QED
    BY <1>1, <1>2, PTL DEF Spec

(* add_block, on its own and inside a switch that is being applied or undone:
   as long as the store works and the clock runs forwards, every block of the
   main chain has passed every check on top of the blocks below it, and the
   stored cumulative difficulties add up; crashes at any point included. *)
THEOREM MainValidHolds ==
    ASSUME Reliable
    PROVE  Spec => []MainValid
  <1>1. SoundInv => MainValid
    BY DEF SoundInv
  <1>2. QED
    BY <1>1, SoundInvHolds, PTL

(* reload_state is called wherever it has to be: as long as the store works,
   the cached ChainState describes the tip whenever a block may be checked. *)
THEOREM CacheCoherentHolds ==
    ASSUME Reliable
    PROVE  Spec => []CacheCoherent
  <1>1. SoundInv => CacheCoherent
    BY DEF SoundInv
  <1>2. QED
    BY <1>1, SoundInvHolds, PTL

-----------------------------------------------------------------------------
(* A switch is all or nothing. *)

SwitchPhases == Phases \ {"idle", "popblocks"}

(* The two chains agree up to the split point. *)
BelowSplit ==
    /\ sw.split + 1 <= Len(main) /\ sw.split + 1 <= Len(before)
    /\ \A k \in 1..(sw.split + 1) : main[k] = before[k]

(* What was popped is what the old chain had above its first n rows. *)
PoppedAbove(n) ==
    /\ Len(before) = n + Len(sw.popped)
    /\ \A k \in 1..Len(sw.popped) : sw.popped[k] = before[n + k]

(* The main chain is a piece of the old one. *)
OldRows ==
    /\ Len(main) <= Len(before)
    /\ \A k \in 1..Len(main) : main[k] = before[k]

(* The first n links sit on top of the split point, and nothing else. *)
LinksOn(n) ==
    /\ n <= Len(sw.chain) /\ Len(main) = sw.split + 1 + n
    /\ \A k \in 1..n : main[sw.split + 1 + k].id = sw.chain[k]

(* How main, popped and the chain at the start of the call fit together, phase
   by phase. *)
SwitchTrace ==
    /\ phase \in SwitchPhases => ValidChain(before, sw.now)
    /\ phase = "pop" => OldRows /\ PoppedAbove(Len(main))
    /\ phase \in SwitchPhases \ {"pop"} => BelowSplit /\ PoppedAbove(sw.split + 1)
    /\ phase = "apply" => LinksOn(sw.i - 1)
    /\ phase = "restore" => OldRows /\ Len(main) = sw.split + sw.j
    /\ phase = "purge" => main = before
    /\ phase \in {"demote", "promote"} => LinksOn(Len(sw.chain))

(* The next block to be put back passes add_block again and gets its old row:
   the rows below it are the ones it was checked on, and so is the time. *)
LEMMA NextOldBlock ==
    ASSUME TypeInv, CacheCoherent, SwitchTrace, phase = "restore", sw.j <= Len(sw.popped)
    PROVE  /\ Accepts(sw.popped[sw.j].id, main, cache, sw.now)
           /\ Len(main) + 1 <= Len(before)
           /\ sw.popped[sw.j].id \in Block
           /\ RowFor(sw.popped[sw.j].id, main, cache) = before[Len(main) + 1]
  <1>t. /\ main \in Seq(Info) /\ main # << >> /\ before \in Seq(Info)
        /\ sw.popped \in Seq(Info) /\ sw.split \in Nat /\ sw.j \in Nat /\ sw.j >= 1
    BY DEF TypeInv, TypeOK, Call, LoopBounds
  <1>l. Len(main) \in Nat /\ Len(main) >= 1 /\ Len(before) \in Nat /\ Len(sw.popped) \in Nat
    BY <1>t, TipRow, LenProperties
  <1>s. /\ ValidChain(before, sw.now) /\ OldRows /\ Len(main) = sw.split + sw.j
        /\ PoppedAbove(sw.split + 1)
    BY DEF SwitchTrace, SwitchPhases, Phases
  <1> DEFINE n == Len(main)
  <1>1. n + 1 \in 2..Len(before) /\ n + 1 = sw.split + 1 + sw.j /\ n + 1 <= Len(before)
    <2>1. Len(before) = sw.split + 1 + Len(sw.popped)
      BY <1>s DEF PoppedAbove
    <2>2. n + 1 = sw.split + 1 + sw.j
      BY <1>t, <1>s
    <2>3. n + 1 <= Len(before)
      BY <1>t, <1>l, <2>1, <2>2
    <2>4. QED
      BY <1>l, <2>2, <2>3
  <1>2. sw.popped[sw.j] = before[n + 1]
    <2>1. sw.j \in 1..Len(sw.popped)
      BY <1>t, <1>l
    <2>2. sw.popped[sw.j] = before[sw.split + 1 + sw.j]
      BY <1>s, <2>1 DEF PoppedAbove
    <2>3. QED
      BY <1>1, <2>2
  <1>3. RowChecked(before, n + 1, sw.now)
    BY <1>1, <1>s, ValidByRows
  <1>4. n + 1 - 1 = n
    BY <1>l
  <1>5. SubSeq(before, 1, n) = main
    <2>1. n <= Len(before) /\ n <= Len(main)
      BY <1>1, <1>l
    <2>2. \A k \in 1..n : before[k] = main[k]
      BY <1>s DEF OldRows
    <2>3. SubSeq(before, 1, n) = SubSeq(main, 1, n)
      BY <1>t, <1>l, <2>1, <2>2, SamePrefix
    <2>4. QED
      BY <1>t, <2>3, SubSeqFull
  <1>6. before[n] = cache
    <2>1. n \in 1..n
      BY <1>l
    <2>2. before[n] = main[n]
      BY <1>s, <2>1 DEF OldRows
    <2>3. QED
      BY <2>2 DEF CacheCoherent, Tip
  <1>7. before[n + 1].id \in Block
    <2>1. n + 1 \in 1..Len(before)
      BY <1>1, <1>l
    <2>2. before[n + 1] \in Info
      BY <1>t, <2>1, ElementOfSeq
    <2>3. QED
      BY <2>2 DEF Info
  <1>8. /\ Accepts(before[n + 1].id, main, cache, sw.now)
        /\ before[n + 1] = RowFor(before[n + 1].id, main, cache)
    <2>1. SubSeq(before, 1, (n + 1) - 1) = main /\ before[(n + 1) - 1] = cache
      BY <1>4, <1>5, <1>6
    <2>2. /\ Accepts(before[n + 1].id, SubSeq(before, 1, (n + 1) - 1), before[(n + 1) - 1], sw.now)
          /\ before[n + 1] = RowFor(before[n + 1].id, SubSeq(before, 1, (n + 1) - 1),
                                     before[(n + 1) - 1])
      BY <1>3 DEF RowChecked
    <2> HIDE DEF n
    <2>3. QED
      BY <2>1, <2>2
  <1>9. QED
    BY <1>1, <1>2, <1>7, <1>8

LEMMA SwitchTraceStep ==
    ASSUME Reliable, SoundInv, SwitchTrace, [Next]_vars
    PROVE  SwitchTrace'
  <1>t. /\ main \in Seq(Info) /\ main # << >> /\ before \in Seq(Info) /\ sw \in Call
        /\ sw.chain \in Seq(Block) /\ sw.popped \in Seq(Info) /\ sw.split \in Nat
        /\ sw.i \in Nat /\ sw.j \in Nat /\ cache \in Info
    BY DEF SoundInv, TypeInv, TypeOK, Call
  <1>l. /\ Len(main) \in Nat /\ Len(main) >= 1 /\ Len(before) \in Nat
        /\ Len(sw.popped) \in Nat /\ Len(sw.chain) \in Nat
    BY <1>t, TipRow, LenProperties
  <1>b. LoopBounds
    BY DEF SoundInv, TypeInv
  <1>p. ASSUME phase \in SwitchPhases \ {"pop"}
        PROVE  BelowSplit /\ PoppedAbove(sw.split + 1) /\ ValidChain(before, sw.now)
    BY <1>p DEF SwitchTrace
  (* Nothing is claimed outside a switch. *)
  <1>1. ASSUME phase' \notin SwitchPhases PROVE SwitchTrace'
    BY <1>1 DEF SwitchTrace, SwitchPhases, Phases
  <1>2. ASSUME UNCHANGED <<main, phase, sw, before>> PROVE SwitchTrace'
    BY <1>2 DEF SwitchTrace, BelowSplit, PoppedAbove, OldRows, LinksOn
  (* Only the loop counters and the phase change. *)
  <1>3. ASSUME UNCHANGED <<main, before>>,
               \/ UNCHANGED sw
               \/ \E x \in Nat : sw' = [sw EXCEPT !.j = x]
        PROVE  /\ sw'.i = sw.i /\ sw'.chain = sw.chain /\ sw'.split = sw.split
               /\ sw'.popped = sw.popped /\ sw'.now = sw.now
               /\ BelowSplit' <=> BelowSplit
               /\ PoppedAbove(sw.split + 1)' <=> PoppedAbove(sw.split + 1)
               /\ OldRows' <=> OldRows
               /\ LinksOn(Len(sw.chain))' <=> LinksOn(Len(sw.chain))
    <2>1. /\ sw'.i = sw.i /\ sw'.chain = sw.chain /\ sw'.split = sw.split
          /\ sw'.popped = sw.popped /\ sw'.now = sw.now
      BY <1>3, <1>t, CountersMove
    <2>2. QED
      BY <1>3, <2>1 DEF BelowSplit, PoppedAbove, OldRows, LinksOn
  <1>4. ASSUME NEW b \in Block, NEW s \in AltChainTo(b), BeginSwitch(b, s)
        PROVE  SwitchTrace'
    <2>1. /\ main' = main /\ before' = main /\ phase' = "pop"
          /\ sw'.popped = << >> /\ sw'.now = clock
      BY <1>4 DEF BeginSwitch, NoCall
    <2>2. ValidChain(before', sw'.now)
      BY <2>1 DEF SoundInv, MainValid
    <2>3. Len(sw'.popped) = 0
      BY <2>1
    <2>4. OldRows'
      BY <1>l, <2>1 DEF OldRows
    <2>5. PoppedAbove(Len(main))'
      BY <1>l, <2>1, <2>3 DEF PoppedAbove
    <2>6. QED
      BY <2>1, <2>2, <2>4, <2>5 DEF SwitchTrace
  <1>5. ASSUME PopToSplit PROVE SwitchTrace'
    <2> DEFINE t == <<Tip(main)>>
    <2>1. /\ phase = "pop" /\ phase' = "pop" /\ main' = Drop(main) /\ before' = before
          /\ sw' = [sw EXCEPT !.popped = t \o sw.popped]
      BY <1>5 DEF PopToSplit
    <2>2. sw'.popped = t \o sw.popped /\ sw'.now = sw.now
      BY <1>t, <2>1 DEF Call
    <2>3. OldRows /\ PoppedAbove(Len(main)) /\ ValidChain(before, sw.now)
      BY <2>1 DEF SwitchTrace, SwitchPhases, Phases
    <2>4. /\ Len(main') = Len(main) - 1
          /\ \A k \in 1..(Len(main) - 1) : main'[k] = main[k]
      BY <1>t, <2>1, DropRows
    <2>5. t \in Seq(Info) /\ Len(t) = 1 /\ t[1] = main[Len(main)]
      BY <1>t, TipRow DEF Tip
    <2> HIDE DEF t
    <2>6. /\ Len(sw'.popped) = 1 + Len(sw.popped)
          /\ \A k \in 1..(1 + Len(sw.popped)) :
                sw'.popped[k] = IF k <= 1 THEN t[k] ELSE sw.popped[k - 1]
      <3>1. /\ Len(t \o sw.popped) = Len(t) + Len(sw.popped)
            /\ \A k \in 1..(Len(t) + Len(sw.popped)) :
                  (t \o sw.popped)[k] = IF k <= Len(t) THEN t[k] ELSE sw.popped[k - Len(t)]
        BY <1>t, <2>5, ConcatProperties
      <3>2. QED
        BY <2>2, <2>5, <3>1
    <2>7. OldRows'
      <3>1. Len(main) - 1 <= Len(before)
        BY <1>l, <2>3 DEF OldRows
      <3>2. \A k \in 1..(Len(main) - 1) : k \in 1..Len(main)
        BY <1>l
      <3>3. \A k \in 1..(Len(main) - 1) : main'[k] = before[k]
        BY <2>3, <2>4, <3>2 DEF OldRows
      <3>4. QED
        BY <2>1, <2>4, <3>1, <3>3 DEF OldRows
    <2>8. PoppedAbove(Len(main))'
      <3>1. Len(before') = Len(main') + Len(sw'.popped)
        <4>1. Len(before) = Len(main) + Len(sw.popped)
          BY <2>3 DEF PoppedAbove
        <4>2. Len(before) = (Len(main) - 1) + (1 + Len(sw.popped))
          BY <1>l, <4>1
        <4>3. QED
          BY <2>1, <2>4, <2>6, <4>2
      <3>2. ASSUME NEW k \in 1..Len(sw'.popped)
            PROVE  sw'.popped[k] = before'[Len(main') + k]
        <4>1. CASE k = 1
          <5>1. sw'.popped[1] = main[Len(main)]
            BY <1>l, <2>5, <2>6
          <5>2. main[Len(main)] = before[Len(main)]
            BY <1>l, <2>3 DEF OldRows
          <5>3. Len(main') + 1 = Len(main)
            BY <1>l, <2>4
          <5>4. QED
            BY <2>1, <4>1, <5>1, <5>2, <5>3
        <4>2. CASE k > 1
          <5>1. k - 1 \in 1..Len(sw.popped) /\ ~ (k <= 1) /\ k \in 1..(1 + Len(sw.popped))
            BY <1>l, <2>6, <4>2
          <5>2. sw'.popped[k] = sw.popped[k - 1]
            BY <2>6, <5>1
          <5>3. sw.popped[k - 1] = before[Len(main) + (k - 1)]
            BY <2>3, <5>1 DEF PoppedAbove
          <5>4. Len(main') + k = Len(main) + (k - 1)
            BY <1>l, <2>4
          <5>5. QED
            BY <2>1, <5>2, <5>3, <5>4
        <4>3. QED
          BY <1>l, <2>6, <4>1, <4>2
      <3>3. QED
        BY <3>1, <3>2 DEF PoppedAbove
    <2>9. QED
      BY <2>1, <2>2, <2>3, <2>7, <2>8 DEF SwitchTrace
  <1>6. ASSUME PopDone PROVE SwitchTrace'
    <2>1. /\ phase = "pop" /\ phase' = "apply" /\ UNCHANGED <<main, before, sw>>
          /\ Len(main) <= sw.split + 1 /\ sw.split + 1 <= Len(main) /\ sw.i = 1
      BY <1>6, <1>b DEF PopDone, LoopBounds
    <2>2. Len(main) = sw.split + 1 /\ sw.i - 1 = 0
      BY <1>t, <1>l, <2>1
    <2>3. OldRows /\ PoppedAbove(Len(main)) /\ ValidChain(before, sw.now)
      BY <2>1 DEF SwitchTrace, SwitchPhases, Phases
    <2>4. BelowSplit /\ PoppedAbove(sw.split + 1)
      BY <2>2, <2>3 DEF OldRows, BelowSplit
    <2>5. LinksOn(sw.i - 1)
      BY <1>t, <1>l, <2>2 DEF LinksOn
    <2>6. BelowSplit' /\ PoppedAbove(sw.split + 1)' /\ LinksOn(sw.i - 1)'
      BY <2>1, <2>4, <2>5 DEF BelowSplit, PoppedAbove, LinksOn
    <2>7. QED
      BY <2>1, <2>3, <2>6 DEF SwitchTrace
  <1>7. ASSUME ApplyLink PROVE SwitchTrace'
    <2> DEFINE b == sw.chain[sw.i]
               r == RowFor(b, main, cache)
    <2>1. /\ phase = "apply" /\ phase' = "apply" /\ before' = before
          /\ sw.i <= Len(sw.chain) /\ main' = Append(main, r)
          /\ sw' = [sw EXCEPT !.i = sw.i + 1]
      BY <1>7 DEF ApplyLink, Commit
    <2>2. /\ sw'.i = sw.i + 1 /\ sw'.chain = sw.chain /\ sw'.split = sw.split
          /\ sw'.popped = sw.popped /\ sw'.now = sw.now
      <3>1. sw.i + 1 \in Nat
        BY <1>t
      <3>2. QED
        BY <1>t, <2>1, <3>1, CountersMove
    <2>3. Len(main) = sw.split + sw.i /\ sw.i >= 1 /\ sw.i \in 1..Len(sw.chain)
      BY <1>t, <1>l, <1>b, <2>1 DEF LoopBounds
    <2>4. BelowSplit /\ PoppedAbove(sw.split + 1) /\ ValidChain(before, sw.now)
      BY <1>p, <2>1 DEF SwitchPhases, Phases
    <2>5. LinksOn(sw.i - 1)
      BY <2>1 DEF SwitchTrace
    <2>6. b \in Block /\ r \in Info /\ r.id = b
      <3>1. b \in Block
        BY <1>t, <2>3, ElementOfSeq
      <3>2. QED
        BY <1>t, <3>1, RowForType DEF RowFor
    <2> HIDE DEF r, b
    <2>7. /\ Len(main') = Len(main) + 1
          /\ \A k \in 1..Len(main) : main'[k] = main[k]
          /\ main'[Len(main) + 1] = r
      BY <1>t, <2>1, <2>6, AppendRow
    <2>8. BelowSplit'
      <3>1. sw.split + 1 <= Len(main) + 1
        BY <1>t, <1>l, <2>3
      <3>2. \A k \in 1..(sw.split + 1) : k \in 1..Len(main)
        BY <1>t, <1>l, <2>3
      <3>3. QED
        BY <2>1, <2>2, <2>4, <2>7, <3>1, <3>2 DEF BelowSplit
    <2>9. PoppedAbove(sw.split + 1)'
      BY <2>1, <2>2, <2>4 DEF PoppedAbove
    <2>10. LinksOn(sw.i - 1)'
      <3>1. (sw.i + 1) - 1 = sw.i /\ Len(main) + 1 = sw.split + 1 + sw.i
        BY <1>t, <1>l, <2>3, SMTT(30)
      <3>2. ASSUME NEW k \in 1..sw.i PROVE main'[sw.split + 1 + k].id = sw.chain[k]
        <4>1. CASE k = sw.i
          BY <2>6, <2>7, <3>1, <4>1 DEF b
        <4>2. CASE k # sw.i
          <5>1. k \in 1..(sw.i - 1) /\ sw.split + 1 + k \in 1..Len(main)
            BY <1>t, <1>l, <2>3, <4>2
          <5>2. main[sw.split + 1 + k].id = sw.chain[k]
            BY <2>5, <5>1 DEF LinksOn
          <5>3. QED
            BY <2>7, <5>1, <5>2
        <4>3. QED
          BY <4>1, <4>2
      <3>3. sw'.i - 1 = sw.i
        BY <1>t, <2>2, <3>1
      <3>4. sw'.i - 1 <= Len(sw'.chain) /\ Len(main') = sw'.split + 1 + (sw'.i - 1)
        BY <2>1, <2>2, <2>7, <3>1, <3>3
      <3>5. \A k \in 1..(sw'.i - 1) : main'[sw'.split + 1 + k].id = sw'.chain[k]
        BY <2>2, <3>2, <3>3
      <3>6. QED
        BY <3>4, <3>5 DEF LinksOn
    <2>11. QED
      BY <2>1, <2>2, <2>4, <2>8, <2>9, <2>10 DEF SwitchTrace
  <1>8. ASSUME RejectLink PROVE SwitchTrace'
    <2>1. /\ phase = "apply" /\ phase' = "unapply" /\ UNCHANGED <<main, before>>
          /\ sw' = [sw EXCEPT !.j = 1]
      BY <1>8 DEF RejectLink
    <2>2. BelowSplit /\ PoppedAbove(sw.split + 1) /\ ValidChain(before, sw.now)
      BY <1>p, <2>1 DEF SwitchPhases, Phases
    <2>3. BelowSplit' /\ PoppedAbove(sw.split + 1)' /\ sw'.now = sw.now
      BY <1>3, <2>1, <2>2
    <2>4. QED
      BY <2>1, <2>2, <2>3 DEF SwitchTrace
  <1>9. ASSUME ApplyDone PROVE SwitchTrace'
    <2>1. /\ phase = "apply" /\ phase' = "demote" /\ UNCHANGED <<main, before>>
          /\ sw' = [sw EXCEPT !.j = 1] /\ sw.i > Len(sw.chain)
      BY <1>9 DEF ApplyDone
    <2>2. BelowSplit /\ PoppedAbove(sw.split + 1) /\ ValidChain(before, sw.now)
      BY <1>p, <2>1 DEF SwitchPhases, Phases
    <2>3. LinksOn(sw.i - 1) /\ sw.i >= 1
      BY <1>b, <2>1 DEF SwitchTrace, LoopBounds
    <2>4. sw.i - 1 = Len(sw.chain)
      <3>1. sw.i - 1 <= Len(sw.chain)
        BY <2>3 DEF LinksOn
      <3>2. QED
        BY <1>t, <1>l, <2>1, <3>1
    <2>5. LinksOn(Len(sw.chain))
      BY <2>3, <2>4
    <2>6. /\ BelowSplit' /\ PoppedAbove(sw.split + 1)' /\ LinksOn(Len(sw.chain))'
          /\ sw'.now = sw.now
      BY <1>3, <2>1, <2>2, <2>5
    <2>7. QED
      BY <2>1, <2>2, <2>6 DEF SwitchTrace
  <1>10. ASSUME UnapplyLink PROVE SwitchTrace'
    <2>1. /\ phase = "unapply" /\ phase' = "unapply" /\ before' = before
          /\ main' = Drop(main) /\ sw' = [sw EXCEPT !.j = sw.j + 1]
          /\ sw.j < sw.i /\ Len(main) + sw.j = sw.split + sw.i + 1
      BY <1>10, <1>b DEF UnapplyLink, LoopBounds
    <2>2. sw'.split = sw.split /\ sw'.popped = sw.popped /\ sw'.now = sw.now
      <3>1. sw.j + 1 \in Nat
        BY <1>t
      <3>2. QED
        BY <1>t, <2>1, <3>1, CountersMove
    <2>3. BelowSplit /\ PoppedAbove(sw.split + 1) /\ ValidChain(before, sw.now)
      BY <1>p, <2>1 DEF SwitchPhases, Phases
    <2>4. /\ Len(main') = Len(main) - 1
          /\ \A k \in 1..(Len(main) - 1) : main'[k] = main[k]
      BY <1>t, <2>1, DropRows
    <2>5. sw.split + 1 <= Len(main) - 1
      BY <1>t, <1>l, <2>1
    <2>6. \A k \in 1..(sw.split + 1) : k \in 1..(Len(main) - 1)
      BY <1>t, <1>l, <2>5
    <2>7. BelowSplit'
      BY <2>1, <2>2, <2>3, <2>4, <2>5, <2>6 DEF BelowSplit
    <2>8. PoppedAbove(sw.split + 1)'
      BY <2>1, <2>2, <2>3 DEF PoppedAbove
    <2>9. QED
      BY <2>1, <2>2, <2>3, <2>7, <2>8 DEF SwitchTrace
  <1>11. ASSUME UnapplyDone PROVE SwitchTrace'
    <2>1. /\ phase = "unapply" /\ phase' = "restore" /\ UNCHANGED <<main, before>>
          /\ sw' = [sw EXCEPT !.j = 1]
          /\ sw.j >= sw.i /\ sw.j <= sw.i /\ Len(main) + sw.j = sw.split + sw.i + 1
      BY <1>11, <1>b DEF UnapplyDone, LoopBounds
    <2>2. BelowSplit /\ PoppedAbove(sw.split + 1) /\ ValidChain(before, sw.now)
      BY <1>p, <2>1 DEF SwitchPhases, Phases
    <2>3. Len(main) = sw.split + 1
      BY <1>t, <1>l, <2>1
    <2>4. OldRows
      BY <2>2, <2>3 DEF BelowSplit, OldRows
    <2>5. /\ BelowSplit' /\ PoppedAbove(sw.split + 1)' /\ OldRows'
          /\ sw'.now = sw.now /\ sw'.split = sw.split
      BY <1>3, <2>1, <2>2, <2>4
    <2>6. sw'.j = 1
      BY <1>t, <2>1, CountersMove
    <2>7. Len(main') = sw'.split + sw'.j
      BY <2>1, <2>3, <2>5, <2>6
    <2>8. QED
      BY <2>1, <2>2, <2>5, <2>7 DEF SwitchTrace
  <1>12. ASSUME RestoreBlock PROVE SwitchTrace'
    <2> DEFINE r == RowFor(sw.popped[sw.j].id, main, cache)
    <2>1. /\ phase = "restore" /\ phase' = "restore" /\ before' = before
          /\ sw.j <= Len(sw.popped) /\ main' = Append(main, r)
          /\ sw' = [sw EXCEPT !.j = sw.j + 1]
      BY <1>12 DEF RestoreBlock, Commit
    <2>2. /\ sw'.j = sw.j + 1 /\ sw'.split = sw.split
          /\ sw'.popped = sw.popped /\ sw'.now = sw.now
      <3>1. sw.j + 1 \in Nat
        BY <1>t
      <3>2. QED
        BY <1>t, <2>1, <3>1, CountersMove
    <2>3. BelowSplit /\ PoppedAbove(sw.split + 1) /\ ValidChain(before, sw.now)
      BY <1>p, <2>1 DEF SwitchPhases, Phases
    <2>4. OldRows /\ Len(main) = sw.split + sw.j
      BY <2>1 DEF SwitchTrace
    <2>5. Len(main) + 1 <= Len(before) /\ r = before[Len(main) + 1] /\ r \in Info
      BY <1>t, <2>1, NextOldBlock, RowForType DEF SoundInv
    <2> HIDE DEF r
    <2>6. /\ Len(main') = Len(main) + 1
          /\ \A k \in 1..Len(main) : main'[k] = main[k]
          /\ main'[Len(main) + 1] = r
      BY <1>t, <2>1, <2>5, AppendRow
    <2>7. OldRows'
      <3>1. ASSUME NEW k \in 1..(Len(main) + 1) PROVE main'[k] = before[k]
        <4>1. CASE k = Len(main) + 1
          BY <2>5, <2>6, <4>1
        <4>2. CASE k # Len(main) + 1
          <5>1. k \in 1..Len(main)
            BY <1>l, <4>2
          <5>2. QED
            BY <2>4, <2>6, <5>1 DEF OldRows
        <4>3. QED
          BY <4>1, <4>2
      <3>2. QED
        BY <2>1, <2>5, <2>6, <3>1 DEF OldRows
    <2>8. BelowSplit'
      <3>1. sw.split + 1 <= Len(main) /\ sw.split + 1 <= Len(main) + 1
        BY <1>t, <1>l, <2>3 DEF BelowSplit
      <3>2. \A k \in 1..(sw.split + 1) : k \in 1..Len(main)
        BY <1>t, <1>l, <3>1
      <3>3. QED
        BY <2>1, <2>2, <2>3, <2>6, <3>1, <3>2 DEF BelowSplit
    <2>9. PoppedAbove(sw.split + 1)'
      BY <2>1, <2>2, <2>3 DEF PoppedAbove
    <2>10. Len(main') = sw'.split + sw'.j
      BY <1>t, <1>l, <2>2, <2>4, <2>6
    <2>11. QED
      BY <2>1, <2>2, <2>3, <2>7, <2>8, <2>9, <2>10 DEF SwitchTrace
  <1>13. ASSUME RestoreDone PROVE SwitchTrace'
    <2>1. /\ phase = "restore" /\ phase' = "purge" /\ UNCHANGED <<main, before>>
          /\ sw' = [sw EXCEPT !.j = sw.i] /\ sw.j > Len(sw.popped)
      BY <1>13 DEF RestoreDone
    <2>2. BelowSplit /\ PoppedAbove(sw.split + 1) /\ ValidChain(before, sw.now)
      BY <1>p, <2>1 DEF SwitchPhases, Phases
    <2>3. OldRows /\ Len(main) = sw.split + sw.j
      BY <2>1 DEF SwitchTrace
    <2>4. Len(main) = Len(before)
      <3>1. Len(before) = sw.split + 1 + Len(sw.popped) /\ Len(main) <= Len(before)
        BY <2>2, <2>3 DEF PoppedAbove, OldRows
      <3>2. QED
        BY <1>t, <1>l, <2>1, <2>3, <3>1
    <2>5. main = before
      BY <1>t, <2>3, <2>4, SeqEqual DEF OldRows
    <2>6. BelowSplit' /\ PoppedAbove(sw.split + 1)' /\ sw'.now = sw.now
      BY <1>3, <1>t, <2>1, <2>2
    <2>7. QED
      BY <2>1, <2>2, <2>5, <2>6 DEF SwitchTrace
  <1>14. ASSUME PurgeLink PROVE SwitchTrace'
    <2>1. /\ phase = "purge" /\ phase' = "purge" /\ UNCHANGED <<main, before>>
          /\ sw' = [sw EXCEPT !.j = sw.j + 1] /\ sw.j + 1 \in Nat
      BY <1>14, <1>t DEF PurgeLink
    <2>2. BelowSplit /\ PoppedAbove(sw.split + 1) /\ ValidChain(before, sw.now)
      BY <1>p, <2>1 DEF SwitchPhases, Phases
    <2>3. BelowSplit' /\ PoppedAbove(sw.split + 1)' /\ sw'.now = sw.now
      BY <1>3, <2>1, <2>2
    <2>4. QED
      BY <2>1, <2>2, <2>3 DEF SwitchTrace
  <1>15. ASSUME DemoteBlock \/ DemoteDone \/ PromoteLink PROVE SwitchTrace'
    <2>1. /\ phase \in {"demote", "promote"} /\ phase' \in {"demote", "promote"}
          /\ UNCHANGED <<main, before>>
          /\ sw' = [sw EXCEPT !.j = sw.j + 1] \/ sw' = [sw EXCEPT !.j = 1]
          /\ sw.j + 1 \in Nat
      BY <1>15, <1>t DEF DemoteBlock, DemoteDone, PromoteLink
    <2>2. BelowSplit /\ PoppedAbove(sw.split + 1) /\ ValidChain(before, sw.now)
      BY <1>p, <2>1 DEF SwitchPhases, Phases
    <2>3. LinksOn(Len(sw.chain))
      BY <2>1 DEF SwitchTrace
    <2>4. /\ BelowSplit' /\ PoppedAbove(sw.split + 1)' /\ LinksOn(Len(sw.chain))'
          /\ sw'.now = sw.now
      BY <1>3, <2>1, <2>2, <2>3
    <2>5. QED
      BY <2>1, <2>2, <2>4 DEF SwitchTrace
  <1>16. ASSUME \/ \E b \in Block : AddToMain(b)
                \/ \E b \in Block : \E s \in AltChainTo(b) : AddAlt(b, s) \/ RefuseSwitch(b, s)
                \/ RestoreFails \/ PurgeDone \/ SwitchDone
                \/ \E n \in 1..Len(main) : PopBlocks(n)
                \/ PopOne \/ PopBlocksDone \/ TakeOrphaned \/ Restart
         PROVE  SwitchTrace'
    <2>1. phase' \in {"idle", "popblocks"}
      BY <1>16 DEF AddToMain, AddAlt, RefuseSwitch, RestoreFails, PurgeDone, SwitchDone,
                   PopBlocks, PopOne, PopBlocksDone, TakeOrphaned, Restart
    <2>2. QED
      BY <1>1, <2>1 DEF SwitchPhases
  <1>17. ASSUME Tick \/ UNCHANGED vars PROVE SwitchTrace'
    BY <1>2, <1>17 DEF Tick, vars
  <1>18. ~ StorageError /\ ~ SetClockBack
    BY DEF Reliable, StorageError, SetClockBack, Intervene
  <1>19. QED
    BY <1>4, <1>5, <1>6, <1>7, <1>8, <1>9, <1>10, <1>11, <1>12, <1>13, <1>14, <1>15,
       <1>16, <1>17, <1>18
    DEF Next, HandleBlock, HandleAlternative, Continue, Switch

(* When the call returns, the chain is the old one or the whole new branch. *)
LEMMA ReturnsWhole ==
    ASSUME Reliable, ~ Restart, SoundInv, SwitchTrace, [Next]_vars,
           phase \notin {"idle", "popblocks"}, phase' = "idle"
    PROVE  \/ main' = before
           \/ /\ SubSeq(main', 1, sw.split + 1) = SubSeq(before, 1, sw.split + 1)
              /\ [k \in 1..(Len(main') - sw.split - 1) |-> main'[sw.split + 1 + k].id]
                    = sw.chain
  <1>t. /\ main \in Seq(Info) /\ before \in Seq(Info) /\ sw \in Call
        /\ sw.chain \in Seq(Block) /\ sw.split \in Nat
    BY DEF SoundInv, TypeInv, TypeOK, Call
  <1>l. Len(main) \in Nat /\ Len(sw.chain) \in Nat
    BY <1>t, LenProperties
  <1>1. ASSUME PurgeDone PROVE main' = before
    BY <1>1 DEF PurgeDone, SwitchTrace
  <1>2. ASSUME SwitchDone
        PROVE  /\ SubSeq(main', 1, sw.split + 1) = SubSeq(before, 1, sw.split + 1)
               /\ [k \in 1..(Len(main') - sw.split - 1) |-> main'[sw.split + 1 + k].id]
                     = sw.chain
    <2>1. main' = main /\ BelowSplit /\ LinksOn(Len(sw.chain))
      BY <1>2 DEF SwitchDone, SwitchTrace, SwitchPhases, Phases
    <2>2. SubSeq(main, 1, sw.split + 1) = SubSeq(before, 1, sw.split + 1)
      <3>1. sw.split + 1 \in Nat
        BY <1>t
      <3>2. QED
        BY <1>t, <2>1, <3>1, SamePrefix DEF BelowSplit
    <2>3. Len(main) - sw.split - 1 = Len(sw.chain)
      BY <1>t, <1>l, <2>1 DEF LinksOn
    <2>4. [k \in 1..Len(sw.chain) |-> main[sw.split + 1 + k].id] = sw.chain
      <3>1. sw.chain = [k \in 1..Len(sw.chain) |-> sw.chain[k]]
        BY <1>t, LenProperties
      <3>2. QED
        BY <2>1, <3>1 DEF LinksOn
    <2>5. QED
      BY <2>1, <2>2, <2>3, <2>4
  <1>3. ~ RestoreFails
    BY NextOldBlock DEF RestoreFails, SoundInv
  <1>4. ~ StorageError /\ ~ SetClockBack /\ ~ Restart
    BY DEF Reliable, StorageError, SetClockBack, Intervene
  <1>5. ~ (\E b \in Block : HandleBlock(b)) /\ ~ TakeOrphaned
    BY DEF HandleBlock, AddToMain, HandleAlternative, AddAlt, RefuseSwitch, BeginSwitch,
           TakeOrphaned
  <1>6. ~ (\E n \in 1..Len(main) : PopBlocks(n)) /\ ~ PopOne /\ ~ PopBlocksDone
    BY DEF PopBlocks, PopOne, PopBlocksDone
  <1>7. ~ Tick /\ ~ UNCHANGED vars
    BY DEF Tick, vars
  <1>8. /\ ~ PopToSplit /\ ~ PopDone /\ ~ ApplyLink /\ ~ RejectLink /\ ~ ApplyDone
        /\ ~ UnapplyLink /\ ~ UnapplyDone /\ ~ RestoreBlock /\ ~ RestoreDone
        /\ ~ PurgeLink /\ ~ DemoteBlock /\ ~ DemoteDone /\ ~ PromoteLink
    BY DEF PopToSplit, PopDone, ApplyLink, RejectLink, ApplyDone, UnapplyLink, UnapplyDone,
           RestoreBlock, RestoreDone, PurgeLink, DemoteBlock, DemoteDone, PromoteLink
  <1>9. PurgeDone \/ SwitchDone
    BY <1>3, <1>4, <1>5, <1>6, <1>7, <1>8 DEF Next, Continue, Switch
  <1>10. QED
    BY <1>1, <1>2, <1>9

(* switch_to_alternative is all or nothing: over a store that works and a clock
   that runs forwards, a switch that the process survives ends with the whole
   new branch on the split point, or with the old chain back row for row, whichever link is rejected and however long the two branches are; in
   particular "a failed reorganisation could not restore block" cannot happen. *)
THEOREM SwitchAllOrNothingHolds ==
    ASSUME Reliable
    PROVE  Spec => SwitchAllOrNothing
  <1>1. Init => SwitchTrace
    BY DEF Init, SwitchTrace, SwitchPhases
  <1>2. SoundInv /\ SwitchTrace /\ [Next]_vars => SwitchTrace'
    BY SwitchTraceStep
  <1>3. SoundInv /\ SwitchTrace /\ [Next]_vars =>
          [(phase \notin {"idle", "popblocks"} /\ phase' = "idle" /\ ~ Restart) =>
             \/ main' = before
             \/ /\ SubSeq(main', 1, sw.split + 1) = SubSeq(before, 1, sw.split + 1)
                /\ [k \in 1..(Len(main') - sw.split - 1) |-> main'[sw.split + 1 + k].id]
                      = sw.chain]_vars
    BY ReturnsWhole
  <1>4. QED
    BY <1>1, <1>2, <1>3, SoundInvHolds, PTL DEF Spec, SwitchAllOrNothing
=============================================================================
