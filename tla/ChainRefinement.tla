-------------------------- MODULE ChainRefinement --------------------------
(***************************************************************************)
(* What a switch does to the rest of the chain's promises, for every tree  *)
(* of blocks and every history: checkpoints stay, the alternative store    *)
(* stays sound, no transaction is lost, work is gained; and from these,    *)
(* that Chain implements Ledger.                                           *)
(***************************************************************************)
EXTENDS ChainProofs, NaturalsInduction, WellFoundedInduction

(* Every non-empty set of naturals has a least element: what the inductions
   below rest on. *)
LEMMA LeastNatural ==
    ASSUME NEW T \in SUBSET Nat, T # {}
    PROVE  \E x \in T : \A y \in T : x <= y
  <1> DEFINE R == OpToRel(<, Nat)
  <1>1. IsWellFoundedOn(R, Nat)
    BY NatLessThanWellFounded, Zenon
  <1>2. \A x, y \in Nat : x < y => <<x, y>> \in R
    BY DEF OpToRel
  <1> HIDE DEF R
  <1>3. PICK x \in T : \A y \in T : ~ (<<y, x>> \in R)
    BY <1>1, WFMin
  <1>4. \A y \in T : ~ (y < x)
    BY <1>2, <1>3
  <1>5. QED
    BY <1>4

-----------------------------------------------------------------------------
(* Checkpoints stay. *)

(* No block at a height above the split is covered by a checkpoint. *)
AboveCheckpoints(h) == \A n \in Nat : n >= h => ~ Trusted(n)

(* Rows lie at their block's height; alternative blocks, and so the blocks a
   switch takes off, lie above every checkpoint. *)
HeightInv ==
    /\ \A k \in DOMAIN main : Height[main[k].id] = k - 1
    /\ \A x \in DOMAIN alts : ~ Trusted(Height[x])
    /\ phase \in SwitchPhases => AboveCheckpoints(sw.split + 1)
    /\ \A k \in DOMAIN sw.popped : ~ Trusted(Height[sw.popped[k].id])

LEMMA NotTrustedAbove ==
    ASSUME NEW h \in Nat, ~ Trusted(h)
    PROVE  AboveCheckpoints(h)
  <1>1. \A c \in Checkpoints : Height[c] \in Nat
    BY TreeAssumption, CheckpointAssumption
  <1>2. QED
    BY <1>1 DEF AboveCheckpoints, Trusted

(* The block after the tip has the height of its row. *)
LEMMA CommitHeight ==
    ASSUME TypeInv, HeightInv, NEW b \in Block, Accepts(b, main, cache, clock) \/ Accepts(b, main, cache, sw.now)
    PROVE  Height[b] = Len(main) /\ Len(main) \in Nat
  <1>1. main \in Seq(Info) /\ main # << >>
    BY DEF TypeInv, TypeOK
  <1>2. Len(main) \in DOMAIN main /\ Len(main) \in Nat
    BY <1>1, TipRow
  <1>3. b # Genesis /\ Prev[b] = main[Len(main)].id
    BY DEF Accepts, Tip
  <1>4. Height[b] = Height[Prev[b]] + 1
    BY <1>3, TreeAssumption
  <1>5. Height[main[Len(main)].id] = Len(main) - 1
    BY <1>2 DEF HeightInv
  <1>6. QED
    BY <1>2, <1>3, <1>4, <1>5

(* The links lead from a row of the main chain; the first lies right above
   it, and all of them above every checkpoint. *)
LEMMA LinkHeights ==
    ASSUME TypeInv, HeightInv, NEW b \in Block, NEW s \in AltChainTo(b), AltAcceptable(b, s)
    PROVE  AboveCheckpoints(SplitHeight(s) + 1) /\ ~ Trusted(Height[b])
  <1>t. TypeOK
    BY DEF TypeInv
  <1>1. /\ s \in Seq(Block) /\ Len(s) \in Nat /\ Len(s) >= 1
        /\ s[Len(s)] = b /\ b # Genesis /\ Prev[b] \in Block
        /\ SplitHeight(s) \in Nat /\ SplitHeight(s) + 1 \in DOMAIN main
        /\ main[SplitHeight(s) + 1].id = Prev[s[1]]
        /\ Len(s) > 1 => s[Len(s) - 1] \in DOMAIN alts
    BY <1>t, AltChainLinks
  <1>2. Attaches(s, b)
    BY DEF AltChainTo
  <1>3. s[1] \in Block /\ s[1] # Genesis
    <2>1. 1 \in 1..Len(s)
      BY <1>1
    <2>2. QED
      BY <1>1, <1>2, <2>1, ElementOfSeq DEF Attaches
  <1>4. Height[s[1]] = SplitHeight(s) + 1
    <2>1. Height[Prev[s[1]]] = (SplitHeight(s) + 1) - 1
      BY <1>1 DEF HeightInv
    <2>2. Height[s[1]] = Height[Prev[s[1]]] + 1
      BY <1>3, TreeAssumption
    <2>3. QED
      BY <1>1, <2>1, <2>2
  <1>5. CASE Len(s) = 1
    <2>1. ~ Trusted(SplitHeight(s) + 1)
      BY <1>5 DEF AltAcceptable, AltHeightAllowed
    <2>2. b = s[1]
      BY <1>1, <1>5
    <2>3. SplitHeight(s) + 1 \in Nat
      BY <1>1
    <2>4. QED
      BY <1>4, <2>1, <2>2, <2>3, NotTrustedAbove
  <1>6. CASE Len(s) > 1
    <2>1. s[1] \in DOMAIN alts
      <3>1. 1 \in 1..(Len(s) - 1)
        BY <1>1, <1>6
      <3>2. QED
        BY <1>2, <3>1 DEF Attaches
    <2>2. ~ Trusted(SplitHeight(s) + 1) /\ SplitHeight(s) + 1 \in Nat
      BY <1>1, <1>4, <2>1 DEF HeightInv
    <2>3. Prev[b] = s[Len(s) - 1]
      <3>1. Len(s) - 1 \in 1..(Len(s) - 1) /\ (Len(s) - 1) + 1 = Len(s)
        BY <1>1, <1>6
      <3>2. QED
        BY <1>1, <1>2, <3>1 DEF Attaches
    <2>4. ~ Trusted(Height[Prev[b]]) /\ Height[Prev[b]] \in Nat
      BY <1>1, <1>6, <2>3, TreeAssumption DEF HeightInv
    <2>5. Height[b] = Height[Prev[b]] + 1
      BY <1>1, TreeAssumption
    <2>6. ~ Trusted(Height[b])
      BY <2>4, <2>5, NotTrustedAbove DEF AboveCheckpoints
    <2>7. QED
      BY <2>2, <2>6, NotTrustedAbove
  <1>7. QED
    BY <1>1, <1>5, <1>6, OneOrMore

LEMMA HeightInvInit == Init => HeightInv
  <1> SUFFICES ASSUME Init PROVE HeightInv
    OBVIOUS
  <1>1. main = << GenesisRow >> /\ DOMAIN main = 1..1 /\ sw.popped = << >> /\ DOMAIN alts = {}
    BY DEF Init, NoCall
  <1>2. \A k \in DOMAIN main : Height[main[k].id] = k - 1
    BY <1>1, TreeAssumption DEF GenesisRow
  <1>3. QED
    BY <1>1, <1>2 DEF HeightInv, Init, SwitchPhases

(* A row added has its block's height. *)
LEMMA CommitKeepsHeights ==
    ASSUME TypeInv, HeightInv, CommitsOne
    PROVE  \A k \in DOMAIN main' : Height[main'[k].id] = k - 1
  <1>1. PICK b \in Block : /\ Accepts(b, main, cache, clock) \/ Accepts(b, main, cache, sw.now)
                           /\ Commit(b)
    BY DEF CommitsOne
  <1>2. Height[b] = Len(main) /\ Len(main) \in Nat
    BY <1>1, CommitHeight
  <1>3. RowFor(b, main, cache) \in Info /\ RowFor(b, main, cache).id = b
    BY RowForType DEF RowFor, TypeInv, TypeOK
  <1>4. main \in Seq(Info) /\ DOMAIN main = 1..Len(main)
    BY TipRow DEF TypeInv, TypeOK
  <1>5. /\ DOMAIN main' = 1..(Len(main) + 1)
        /\ \A k \in 1..Len(main) : main'[k] = main[k]
        /\ main'[Len(main) + 1].id = b
    BY <1>1, <1>3, <1>4, AppendRow DEF Commit
  <1>6. ASSUME NEW k \in 1..(Len(main) + 1) PROVE Height[main'[k].id] = k - 1
    <2>1. CASE k = Len(main) + 1
      BY <1>2, <1>5, <2>1
    <2>2. CASE k # Len(main) + 1
      <3>1. k \in 1..Len(main)
        BY <1>2, <2>2
      <3>2. QED
        BY <1>4, <1>5, <3>1 DEF HeightInv
    <2>3. QED
      BY <2>1, <2>2
  <1>7. QED
    BY <1>5, <1>6

LEMMA MainHeights ==
    ASSUME TypeInv, HeightInv, [Next]_vars
    PROVE  \A k \in DOMAIN main' : Height[main'[k].id] = k - 1
  <1>1. CASE main' = main
    BY <1>1 DEF HeightInv
  <1>2. CASE main' = Drop(main)
    <2>1. main \in Seq(Info) /\ main # << >> /\ DOMAIN main = 1..Len(main) /\ Len(main) \in Nat
      BY TipRow DEF TypeInv, TypeOK
    <2>2. /\ DOMAIN main' = 1..(Len(main) - 1)
          /\ \A k \in 1..(Len(main) - 1) : main'[k] = main[k]
      BY <1>2, <2>1, DropRows
    <2>3. QED
      BY <2>1, <2>2 DEF HeightInv
  <1>3. CASE CommitsOne
    BY <1>3, CommitKeepsHeights
  <1>4. QED
    BY <1>1, <1>2, <1>3, MainMoves

(* Every step but those of an idle node leaves the split alone, and only
   PopToSplit adds to what was popped. *)
LEMMA HeightInvStep ==
    ASSUME TypeInv, HeightInv, [Next]_vars
    PROVE  HeightInv'
  <1> DEFINE Others == /\ \A x \in DOMAIN alts' : ~ Trusted(Height[x])
                       /\ phase' \in SwitchPhases => AboveCheckpoints(sw'.split + 1)
                       /\ \A k \in DOMAIN sw'.popped : ~ Trusted(Height[sw'.popped[k].id])
  <1>t. /\ sw \in Call /\ sw.popped \in Seq(Info) /\ sw.chain \in Seq(Block) /\ sw.split \in Nat
        /\ main \in Seq(Info) /\ main # << >> /\ sw.i \in Nat /\ sw.j \in Nat
    BY DEF TypeInv, TypeOK, Call
  <1>l. /\ Len(main) \in Nat /\ Len(main) >= 1 /\ DOMAIN main = 1..Len(main)
        /\ Len(main) \in DOMAIN main
    BY <1>t, TipRow
  <1>n. NoCall.popped = << >> /\ DOMAIN NoCall.popped = {}
    BY DEF NoCall
  <1>1. ASSUME UNCHANGED alts, UNCHANGED <<phase, sw>> PROVE Others
    BY <1>1 DEF HeightInv
  <1>2. ASSUME DOMAIN alts' \subseteq DOMAIN alts, phase \in SwitchPhases, NEW x \in Nat,
               sw' = sw \/ sw' = [sw EXCEPT !.i = x] \/ sw' = [sw EXCEPT !.j = x]
        PROVE  Others
    <2>1. sw'.popped = sw.popped /\ sw'.split = sw.split
      BY <1>2, <1>t, CountersMove
    <2>2. QED
      BY <1>2, <2>1 DEF HeightInv
  <1>3. ASSUME DOMAIN alts' \subseteq DOMAIN alts, phase' \in {"idle", "popblocks"},
               DOMAIN sw'.popped = {}
        PROVE  Others
    BY <1>3 DEF HeightInv, SwitchPhases
  <1>4. ASSUME NEW b \in Block, NEW s \in AltChainTo(b),
               AddAlt(b, s) \/ RefuseSwitch(b, s) \/ BeginSwitch(b, s)
        PROVE  Others
    <2>1. AboveCheckpoints(SplitHeight(s) + 1) /\ ~ Trusted(Height[b])
      BY <1>4, LinkHeights DEF AddAlt, RefuseSwitch, BeginSwitch
    <2>2. DOMAIN alts' = DOMAIN alts \cup {b}
      BY <1>4 DEF AddAlt, RefuseSwitch, BeginSwitch, StoreAlt
    <2>3. \A x \in DOMAIN alts' : ~ Trusted(Height[x])
      BY <2>1, <2>2 DEF HeightInv
    <2>4. CASE BeginSwitch(b, s)
      <3>1. sw'.popped = << >> /\ sw'.split = SplitHeight(s)
        BY <2>4 DEF BeginSwitch, NoCall
      <3>2. DOMAIN sw'.popped = {}
        BY <3>1
      <3>3. QED
        BY <2>1, <2>3, <3>1, <3>2
    <2>5. CASE AddAlt(b, s) \/ RefuseSwitch(b, s)
      <3>1. phase' = "idle" /\ sw' = sw
        BY <2>5 DEF AddAlt, RefuseSwitch
      <3>2. QED
        BY <2>3, <3>1 DEF HeightInv, SwitchPhases
    <2>6. QED
      BY <1>4, <2>4, <2>5
  <1>5. ASSUME PopToSplit PROVE Others
    <2> DEFINE t == <<Tip(main)>>
    <2>1. /\ phase = "pop" /\ phase' = "pop" /\ alts' = alts /\ Len(main) > sw.split + 1
          /\ sw' = [sw EXCEPT !.popped = t \o sw.popped]
      BY <1>5 DEF PopToSplit
    <2>2. sw'.popped = t \o sw.popped /\ sw'.split = sw.split
      BY <1>t, <2>1 DEF Call
    <2>3. AboveCheckpoints(sw.split + 1)
      BY <2>1 DEF HeightInv, SwitchPhases, Phases
    <2>4. ~ Trusted(Height[Tip(main).id])
      <3>1. Height[Tip(main).id] = Len(main) - 1
        BY <1>l DEF HeightInv, Tip
      <3>2. Len(main) - 1 \in Nat /\ Len(main) - 1 >= sw.split + 1
        BY <1>t, <1>l, <2>1
      <3>3. QED
        BY <2>3, <3>1, <3>2 DEF AboveCheckpoints
    <2>5. t \in Seq(Info) /\ Len(t) = 1 /\ t[1] = Tip(main)
      BY <1>t, TipRow
    <2> HIDE DEF t
    <2>6. ASSUME NEW k \in DOMAIN sw'.popped PROVE ~ Trusted(Height[sw'.popped[k].id])
      <3>1. /\ Len(t \o sw.popped) = Len(t) + Len(sw.popped)
            /\ t \o sw.popped \in Seq(Info)
            /\ \A i \in 1..(Len(t) + Len(sw.popped)) :
                  (t \o sw.popped)[i] = IF i <= Len(t) THEN t[i] ELSE sw.popped[i - Len(t)]
        BY <1>t, <2>5, ConcatProperties
      <3>2. k \in 1..(1 + Len(sw.popped)) /\ Len(sw.popped) \in Nat
        BY <1>t, <2>2, <2>5, <3>1, LenProperties
      <3>3. CASE k = 1
        BY <2>2, <2>4, <2>5, <3>1, <3>2, <3>3
      <3>4. CASE k # 1
        <4>1. k - 1 \in 1..Len(sw.popped) /\ ~ (k <= 1)
          BY <3>2, <3>4
        <4>2. sw'.popped[k] = sw.popped[k - 1]
          BY <2>2, <2>5, <3>1, <3>2, <4>1
        <4>3. k - 1 \in DOMAIN sw.popped
          BY <1>t, <4>1, LenProperties
        <4>4. QED
          BY <4>2, <4>3 DEF HeightInv
      <3>5. QED
        BY <3>3, <3>4
    <2>7. QED
      BY <2>1, <2>2, <2>3, <2>6 DEF HeightInv
  <1>6. ASSUME DemoteBlock PROVE Others
    <2>1. /\ phase = "demote" /\ sw.j <= Len(sw.popped) /\ sw' = [sw EXCEPT !.j = sw.j + 1]
          /\ DOMAIN alts' = DOMAIN alts \cup {sw.popped[sw.j].id} /\ sw.j >= 1
      BY <1>6 DEF DemoteBlock, TypeInv, LoopBounds
    <2>2. sw.j \in DOMAIN sw.popped /\ sw.j + 1 \in Nat
      BY <1>t, <2>1, LenProperties
    <2>3. sw'.popped = sw.popped /\ sw'.split = sw.split
      BY <1>t, <2>1, <2>2, CountersMove
    <2>4. phase \in SwitchPhases
      BY <2>1 DEF SwitchPhases, Phases
    <2>5. QED
      BY <2>1, <2>2, <2>3, <2>4 DEF HeightInv
  <1>7. ASSUME \/ PopDone \/ ApplyLink \/ RejectLink \/ ApplyDone \/ UnapplyLink \/ UnapplyDone
               \/ RestoreBlock \/ RestoreDone \/ PurgeLink \/ DemoteDone \/ PromoteLink
        PROVE  Others
    <2>1. /\ DOMAIN alts' \subseteq DOMAIN alts /\ phase \in SwitchPhases
          /\ \/ sw' = sw
             \/ \E x \in {1, sw.i + 1, sw.j + 1, sw.i} :
                  sw' = [sw EXCEPT !.i = x] \/ sw' = [sw EXCEPT !.j = x]
      BY <1>7 DEF PopDone, ApplyLink, RejectLink, ApplyDone, UnapplyLink, UnapplyDone,
           RestoreBlock, RestoreDone, PurgeLink, DemoteDone, PromoteLink, RemoveAlt,
           SwitchPhases, Phases
    <2>2. {1, sw.i + 1, sw.j + 1, sw.i} \subseteq Nat
      BY <1>t
    <2>3. QED
      BY <1>2, <2>1, <2>2
  <1>8. ASSUME RestoreFails \/ PurgeDone \/ SwitchDone \/ PopBlocksDone \/ Restart PROVE Others
    <2>1. /\ DOMAIN alts' \subseteq DOMAIN alts /\ phase' = "idle" /\ sw' = NoCall
      BY <1>8 DEF RestoreFails, PurgeDone, SwitchDone, PopBlocksDone, Restart
    <2>2. QED
      BY <1>3, <1>n, <2>1
  <1>9. ASSUME NEW n \in 1..Len(main), PopBlocks(n) PROVE Others
    <2>1. sw'.popped = << >> /\ phase' = "popblocks" /\ alts' = alts
      BY <1>9 DEF PopBlocks, NoCall
    <2>2. QED
      BY <1>3, <2>1
  <1>10. ASSUME PopOne PROVE Others
    <2>1. sw' = [sw EXCEPT !.i = sw.i - 1] /\ phase' = "popblocks" /\ alts' = alts
      BY <1>10 DEF PopOne
    <2>2. sw'.popped = sw.popped
      BY <1>t, <2>1 DEF Call
    <2>3. QED
      BY <2>1, <2>2 DEF HeightInv, SwitchPhases
  <1>11. ASSUME StorageError PROVE Others
    <2>1. CASE phase = "apply"
      <3>1. sw' = [sw EXCEPT !.j = 1] /\ alts' = alts /\ phase \in SwitchPhases
        BY <1>11, <2>1 DEF StorageError, SwitchPhases, Phases
      <3>2. QED
        BY <1>2, <3>1
    <2>2. CASE phase # "apply"
      <3>1. sw' = NoCall /\ alts' = alts /\ phase' = "idle"
        BY <1>11, <2>2 DEF StorageError
      <3>2. QED
        BY <1>3, <1>n, <3>1
    <2>3. QED
      BY <2>1, <2>2
  <1>12. ASSUME \/ \E b \in Block : AddToMain(b)
                \/ TakeOrphaned \/ Tick \/ SetClockBack \/ UNCHANGED vars
         PROVE  Others
    <2>1. UNCHANGED <<alts, phase, sw>>
      BY <1>12 DEF AddToMain, TakeOrphaned, Tick, SetClockBack, vars
    <2>2. QED
      BY <1>1, <2>1
  <1>13. Others
    BY <1>4, <1>5, <1>6, <1>7, <1>8, <1>9, <1>10, <1>11, <1>12
    DEF Next, HandleBlock, HandleAlternative, Continue, Switch
  <1>14. QED
    BY <1>13, MainHeights DEF HeightInv

(* Only three actions take rows off the main chain. *)
LEMMA MainStaysOrGrows ==
    ASSUME TypeInv, [Next]_vars, ~ PopToSplit, ~ UnapplyLink, ~ PopOne
    PROVE  main' = main \/ CommitsOne
  <1>1. ASSUME (\E b \in Block : AddToMain(b)) \/ ApplyLink \/ RestoreBlock
        PROVE  CommitsOne
    BY <1>1, CommitSteps
  <1>2. ASSUME NEW b \in Block, HandleAlternative(b) PROVE main' = main
    BY <1>2 DEF HandleAlternative, AddAlt, RefuseSwitch, BeginSwitch
  <1>3. ASSUME \/ PopDone \/ RejectLink \/ ApplyDone \/ UnapplyDone
               \/ RestoreFails \/ RestoreDone \/ PurgeLink \/ PurgeDone
               \/ DemoteBlock \/ DemoteDone \/ PromoteLink \/ SwitchDone
               \/ PopBlocksDone \/ TakeOrphaned \/ Restart \/ StorageError
               \/ Tick \/ SetClockBack \/ (\E n \in 1..Len(main) : PopBlocks(n))
               \/ UNCHANGED vars
        PROVE  main' = main
    BY <1>3 DEF PopDone, RejectLink, ApplyDone, UnapplyDone, RestoreFails, RestoreDone,
           PurgeLink, PurgeDone, DemoteBlock, DemoteDone, PromoteLink, SwitchDone,
           PopBlocksDone, TakeOrphaned, Restart, StorageError, Tick, SetClockBack,
           PopBlocks, vars
  <1>4. QED
    BY <1>1, <1>2, <1>3 DEF Next, HandleBlock, Continue, Switch

(* Nothing but a pop takes rows off, and a pop of a switch takes off a row
   above the split. *)
LEMMA CheckpointsStayStep ==
    ASSUME TypeInv, HeightInv, [Next]_vars, phase # "popblocks"
    PROVE  Checkpoints \cap Ids(main) \subseteq Ids(main')
  <1>t. /\ main \in Seq(Info) /\ main # << >> /\ sw.split \in Nat /\ sw.i \in Nat /\ sw.j \in Nat
    BY DEF TypeInv, TypeOK, Call
  <1>l. Len(main) \in Nat /\ Len(main) >= 1 /\ DOMAIN main = 1..Len(main)
    BY <1>t, TipRow
  <1>1. ASSUME main' = Drop(main), AboveCheckpoints(sw.split + 1), Len(main) > sw.split + 1
        PROVE  Checkpoints \cap Ids(main) \subseteq Ids(main')
    <2> SUFFICES ASSUME NEW c \in Checkpoints, NEW k \in DOMAIN main, main[k].id = c
                 PROVE  c \in Ids(main')
      BY DEF Ids
    <2>1. Height[c] = k - 1 /\ k \in 1..Len(main)
      BY <1>l DEF HeightInv
    <2>2. Trusted(k - 1)
      <3>1. k - 1 <= Height[c]
        BY <1>l, <2>1
      <3>2. QED
        BY <3>1 DEF Trusted
    <2>3. k # Len(main)
      <3> SUFFICES ASSUME k = Len(main) PROVE FALSE
        OBVIOUS
      <3>1. k - 1 \in Nat /\ k - 1 >= sw.split + 1
        BY <1>1, <1>l, <1>t
      <3>2. QED
        BY <1>1, <2>2, <3>1 DEF AboveCheckpoints
    <2>4. k \in 1..(Len(main) - 1)
      BY <1>l, <2>1, <2>3
    <2>5. k \in DOMAIN main' /\ main'[k] = main[k]
      BY <1>1, <1>t, <2>4, DropRows
    <2>6. QED
      BY <2>5 DEF Ids
  <1>2. ASSUME PopToSplit PROVE Checkpoints \cap Ids(main) \subseteq Ids(main')
    <2>1. main' = Drop(main) /\ phase = "pop" /\ Len(main) > sw.split + 1
      BY <1>2 DEF PopToSplit
    <2>2. AboveCheckpoints(sw.split + 1)
      BY <2>1 DEF HeightInv, SwitchPhases, Phases
    <2>3. QED
      BY <1>1, <2>1, <2>2
  <1>3. ASSUME UnapplyLink PROVE Checkpoints \cap Ids(main) \subseteq Ids(main')
    <2>1. /\ main' = Drop(main) /\ phase = "unapply" /\ sw.j < sw.i
          /\ Len(main) + sw.j = sw.split + sw.i + 1
      BY <1>3 DEF UnapplyLink, TypeInv, LoopBounds
    <2>2. AboveCheckpoints(sw.split + 1)
      BY <2>1 DEF HeightInv, SwitchPhases, Phases
    <2>3. Len(main) > sw.split + 1
      BY <1>t, <1>l, <2>1
    <2>4. QED
      BY <1>1, <2>1, <2>2, <2>3
  <1>4. ASSUME CommitsOne PROVE Ids(main) \subseteq Ids(main')
    <2>1. PICK b \in Block : Commit(b)
      BY <1>4 DEF CommitsOne
    <2>2. RowFor(b, main, cache) \in Info
      BY RowForType DEF TypeInv, TypeOK
    <2>3. /\ DOMAIN main' = 1..(Len(main) + 1)
          /\ \A k \in 1..Len(main) : main'[k] = main[k]
      BY <1>t, <2>1, <2>2, AppendRow DEF Commit
    <2>4. \A k \in DOMAIN main : k \in DOMAIN main' /\ main'[k] = main[k]
      BY <1>l, <2>3
    <2>5. QED
      BY <2>4 DEF Ids
  <1>5. ASSUME main' = main PROVE Ids(main) \subseteq Ids(main')
    BY <1>5
  <1>6. ~ PopOne
    BY DEF PopOne
  <1>7. ASSUME ~ PopToSplit, ~ UnapplyLink PROVE main' = main \/ CommitsOne
    BY <1>6, <1>7, MainStaysOrGrows
  <1>8. QED
    BY <1>2, <1>3, <1>4, <1>5, <1>7
(* add_block and is_alternative_block_allowed: whatever else happens to the
   node, restarts, failing store operations and a clock set back included, a
   checkpointed block that is on the main chain stays there, unless an operator
   pops it: no step of any switch takes it off. *)
THEOREM CheckpointsStayHolds == Spec => CheckpointsStay
  <1>1. Init => TypeInv /\ HeightInv
    BY TypeInvInit, HeightInvInit
  <1>2. TypeInv /\ HeightInv /\ [Next]_vars => TypeInv' /\ HeightInv'
    BY TypeInvStep, HeightInvStep
  <1>3. TypeInv /\ HeightInv /\ [Next]_vars =>
          [phase # "popblocks" => Checkpoints \cap Ids(main) \subseteq Ids(main')]_vars
    BY CheckpointsStayStep
  <1>4. QED
    BY <1>1, <1>2, <1>3, PTL DEF Spec, CheckpointsStay

-----------------------------------------------------------------------------
(* The alternative store. *)

(* The alternative blocks are off the chain that stands, but for the links that
   have just joined it and are still to be promoted. *)
AltTrace ==
    /\ phase \in {"idle", "popblocks"} => DOMAIN alts \cap Ids(main) = {}
    /\ phase \in SwitchPhases => \A k \in DOMAIN sw.chain : sw.chain[k] \notin Ids(before)
    /\ phase \in {"pop", "apply", "unapply", "restore", "purge"} =>
          DOMAIN alts \cap Ids(before) = {}
    /\ phase = "demote" =>
          \A x \in DOMAIN alts \cap Ids(main) : \E k \in DOMAIN sw.chain : x = sw.chain[k]
    /\ phase = "promote" =>
          \A x \in DOMAIN alts \cap Ids(main) : \E k \in DOMAIN sw.chain : x = sw.chain[k] /\ k >= sw.j

(* When alt_txs survives as long as alt_blocks does. *)
BodiesKept == "crash" \in Allowed => ~ KeepAlt

LEMMA SameStores ==
    ASSUME BodiesKept, DOMAIN alts = altTxs, [Next]_vars
    PROVE  DOMAIN alts' = altTxs'
  <1>1. ASSUME \/ \E b \in Block : \E s \in AltChainTo(b) :
                     AddAlt(b, s) \/ RefuseSwitch(b, s) \/ BeginSwitch(b, s)
        PROVE  DOMAIN alts' = altTxs'
    BY <1>1 DEF AddAlt, RefuseSwitch, BeginSwitch, StoreAlt
  <1>2. ASSUME PurgeLink \/ PromoteLink PROVE DOMAIN alts' = altTxs'
    BY <1>2 DEF PurgeLink, PromoteLink, RemoveAlt
  <1>3. ASSUME DemoteBlock PROVE DOMAIN alts' = altTxs'
    BY <1>3 DEF DemoteBlock
  <1>4. ASSUME Restart PROVE DOMAIN alts' = altTxs'
    BY <1>4 DEF Restart, Intervene, BodiesKept
  <1>5. ASSUME \/ \E b \in Block : AddToMain(b)
               \/ PopToSplit \/ PopDone \/ ApplyLink \/ RejectLink \/ ApplyDone \/ UnapplyLink
               \/ UnapplyDone \/ RestoreBlock \/ RestoreFails \/ RestoreDone \/ PurgeDone
               \/ DemoteDone \/ SwitchDone \/ PopOne \/ PopBlocksDone
               \/ \E n \in 1..Len(main) : PopBlocks(n)
               \/ TakeOrphaned \/ StorageError \/ Tick \/ SetClockBack \/ UNCHANGED vars
        PROVE  DOMAIN alts' = altTxs'
    <2>1. UNCHANGED <<alts, altTxs>>
      BY <1>5 DEF AddToMain, PopToSplit, PopDone, ApplyLink, RejectLink, ApplyDone, UnapplyLink,
               UnapplyDone, RestoreBlock, RestoreFails, RestoreDone, PurgeDone,
               DemoteDone, SwitchDone, PopOne, PopBlocksDone, PopBlocks,
               TakeOrphaned, StorageError, Tick, SetClockBack, vars
    <2>2. QED
      BY <2>1
  <1>6. QED
    BY <1>1, <1>2, <1>3, <1>4, <1>5 DEF Next, HandleBlock, HandleAlternative, Continue, Switch

(* No block is on a valid chain twice. *)
LEMMA DistinctIds ==
    ASSUME NEW s \in Seq(Info), NEW now, ValidChain(s, now),
           NEW k \in 1..Len(s), NEW l \in 1..Len(s), k < l
    PROVE  s[k].id # s[l].id
  <1>1. Len(s) \in Nat
    BY LenProperties
  <1>2. l \in 2..Len(s) /\ l - 1 \in 0..Len(s) /\ k \in 1..(l - 1)
    BY <1>1
  <1>3. s[l].id \notin Ids(SubSeq(s, 1, l - 1))
    BY <1>2, ValidByRows DEF RowChecked, Accepts
  <1>4. k \in DOMAIN SubSeq(s, 1, l - 1) /\ SubSeq(s, 1, l - 1)[k] = s[k]
    BY <1>2, PrefixRows
  <1>5. QED
    BY <1>3, <1>4 DEF Ids

(* Once every link is on, each row is an old one below the split or a link. *)
LEMMA NewRows ==
    ASSUME TypeInv, SwitchTrace, phase \in {"demote", "promote"} \/ (phase = "apply" /\ sw.i > Len(sw.chain)),
           NEW k \in DOMAIN main
    PROVE  \/ k \in 1..(sw.split + 1) /\ k \in DOMAIN before /\ main[k] = before[k]
           \/ \E l \in DOMAIN sw.chain : main[k].id = sw.chain[l]
  <1>t. /\ main \in Seq(Info) /\ main # << >> /\ before \in Seq(Info) /\ sw.split \in Nat
        /\ sw.chain \in Seq(Block) /\ sw.i \in Nat
    BY DEF TypeInv, TypeOK, Call
  <1>l. /\ Len(main) \in Nat /\ DOMAIN main = 1..Len(main) /\ DOMAIN before = 1..Len(before)
        /\ Len(before) \in Nat /\ Len(sw.chain) \in Nat /\ DOMAIN sw.chain = 1..Len(sw.chain)
    BY <1>t, LenProperties
  <1>1. BelowSplit
    BY DEF SwitchTrace, SwitchPhases, Phases
  <1>2. LinksOn(Len(sw.chain))
    <2>1. CASE phase = "apply"
      <3>1. LinksOn(sw.i - 1) /\ sw.i > Len(sw.chain)
        BY <2>1 DEF SwitchTrace
      <3>2. sw.i - 1 <= Len(sw.chain)
        BY <3>1 DEF LinksOn
      <3>3. sw.i - 1 = Len(sw.chain)
        BY <1>t, <1>l, <3>1, <3>2
      <3>4. QED
        BY <3>1, <3>3
    <2>2. CASE phase # "apply"
      BY <2>2 DEF SwitchTrace
    <2>3. QED
      BY <2>1, <2>2
  <1>3. CASE k <= sw.split + 1
    <2>1. k \in 1..(sw.split + 1) /\ k \in 1..Len(before)
      BY <1>t, <1>l, <1>1, <1>3 DEF BelowSplit
    <2>2. QED
      BY <1>1, <1>l, <2>1 DEF BelowSplit
  <1>4. CASE k > sw.split + 1
    <2>1. k - (sw.split + 1) \in 1..Len(sw.chain) /\ k = sw.split + 1 + (k - (sw.split + 1))
      BY <1>t, <1>l, <1>2, <1>4, SMTT(30) DEF LinksOn
    <2>2. QED
      BY <1>2, <1>l, <2>1 DEF LinksOn
  <1>5. QED
    BY <1>t, <1>l, <1>3, <1>4

LEMMA AltTraceStep ==
    ASSUME Reliable, BodiesKept, SoundInv, SwitchTrace, AltTrace, [Next]_vars
    PROVE  AltTrace'
  <1>i. TypeInv
    BY DEF SoundInv
  <1>t. /\ main \in Seq(Info) /\ main # << >> /\ before \in Seq(Info) /\ sw \in Call
        /\ sw.chain \in Seq(Block) /\ sw.popped \in Seq(Info) /\ sw.split \in Nat
        /\ sw.i \in Nat /\ sw.j \in Nat /\ cache \in Info
    BY <1>i DEF TypeInv, TypeOK, Call
  <1>l. /\ Len(main) \in Nat /\ DOMAIN main = 1..Len(main) /\ DOMAIN before = 1..Len(before)
        /\ Len(before) \in Nat /\ Len(sw.chain) \in Nat /\ DOMAIN sw.chain = 1..Len(sw.chain)
        /\ Len(sw.popped) \in Nat
    BY <1>t, LenProperties
  <1>1. ASSUME NEW b \in Block, AddToMain(b) PROVE AltTrace'
    <2>1. /\ phase = "idle" /\ phase' = "idle" /\ alts' = alts /\ b \notin DOMAIN alts
          /\ main' = Append(main, RowFor(b, main, cache))
      BY <1>1 DEF AddToMain, HaveBlock, Commit
    <2>2. RowFor(b, main, cache) \in Info /\ RowFor(b, main, cache).id = b
      BY <1>t, RowForType DEF RowFor
    <2>3. /\ DOMAIN main' = 1..(Len(main) + 1)
          /\ \A k \in 1..Len(main) : main'[k] = main[k]
          /\ main'[Len(main) + 1] = RowFor(b, main, cache)
      BY <1>t, <2>1, <2>2, AppendRow
    <2>4. \A k \in DOMAIN main' : k \in DOMAIN main \/ k = Len(main) + 1
      BY <1>l, <2>3
    <2>5. Ids(main') \subseteq Ids(main) \cup {b}
      BY <1>l, <2>2, <2>3, <2>4 DEF Ids
    <2>6. QED
      BY <2>1, <2>5 DEF AltTrace, SwitchPhases
  <1>2. ASSUME NEW b \in Block, NEW s \in AltChainTo(b),
               AddAlt(b, s) \/ RefuseSwitch(b, s)
        PROVE  AltTrace'
    <2>1. /\ phase = "idle" /\ phase' = "idle" /\ main' = main
          /\ DOMAIN alts' = DOMAIN alts \cup {b} /\ b \notin Ids(main)
      BY <1>2 DEF AddAlt, RefuseSwitch, AltAcceptable, HaveBlock, StoreAlt
    <2>2. QED
      BY <2>1 DEF AltTrace, SwitchPhases
  <1>3. ASSUME NEW b \in Block, NEW s \in AltChainTo(b), BeginSwitch(b, s)
        PROVE  AltTrace'
    <2>1. /\ phase = "idle" /\ phase' = "pop" /\ main' = main /\ before' = main
          /\ DOMAIN alts' = DOMAIN alts \cup {b} /\ b \notin Ids(main) /\ sw'.chain = s
      BY <1>3 DEF BeginSwitch, AltAcceptable, HaveBlock, StoreAlt, NoCall
    <2>2. /\ Attaches(s, b) /\ s \in Seq(Block) /\ Len(s) \in Nat /\ s[Len(s)] = b
      BY <1>i, AltChainLinks DEF AltChainTo, TypeInv
    <2>3. ASSUME NEW k \in DOMAIN s PROVE s[k] \notin Ids(main)
      <3>1. k \in 1..Len(s)
        BY <2>2, LenProperties
      <3>2. CASE k = Len(s)
        BY <2>1, <2>2, <3>2
      <3>3. CASE k # Len(s)
        <4>1. k \in 1..(Len(s) - 1)
          BY <2>2, <3>1, <3>3
        <4>2. QED
          BY <2>2, <4>1 DEF Attaches
      <3>4. QED
        BY <3>2, <3>3
    <2>4. QED
      BY <2>1, <2>3 DEF AltTrace
  <1>4. ASSUME \/ PopToSplit \/ PopDone \/ ApplyLink \/ RejectLink \/ UnapplyLink \/ UnapplyDone
               \/ RestoreBlock \/ RestoreDone \/ PurgeLink
        PROVE  AltTrace'
    <2>1. /\ phase \in {"pop", "apply", "unapply", "restore", "purge"}
          /\ phase' \in {"pop", "apply", "unapply", "restore", "purge"}
          /\ DOMAIN alts' \subseteq DOMAIN alts /\ before' = before
      BY <1>4 DEF PopToSplit, PopDone, ApplyLink, RejectLink, UnapplyLink, UnapplyDone,
                  RestoreBlock, RestoreDone, PurgeLink, RemoveAlt
    <2>2. sw'.chain = sw.chain
      BY <1>4, <1>t DEF PopToSplit, PopDone, ApplyLink, RejectLink, UnapplyLink, UnapplyDone,
                  RestoreBlock, RestoreDone, PurgeLink, Call
    <2>3. QED
      BY <2>1, <2>2 DEF AltTrace, SwitchPhases, Phases
  <1>5. ASSUME ApplyDone PROVE AltTrace'
    <2>1. /\ phase = "apply" /\ phase' = "demote" /\ UNCHANGED <<main, before, alts>>
          /\ sw' = [sw EXCEPT !.j = 1] /\ sw.i > Len(sw.chain)
      BY <1>5 DEF ApplyDone
    <2>2. sw'.chain = sw.chain
      BY <1>t, <2>1, CountersMove
    <2>3. DOMAIN alts \cap Ids(before) = {}
      BY <2>1 DEF AltTrace
    <2>4. ASSUME NEW x \in DOMAIN alts \cap Ids(main)
          PROVE  \E k \in DOMAIN sw.chain : x = sw.chain[k]
      <3>1. PICK k \in DOMAIN main : x = main[k].id
        BY DEF Ids
      <3>2. k \in DOMAIN before => main[k] # before[k]
        BY <2>3, <3>1 DEF Ids
      <3>3. QED
        BY <1>i, <2>1, <3>1, <3>2, NewRows
    <2>5. QED
      BY <2>1, <2>2, <2>4 DEF AltTrace, SwitchPhases, Phases
  <1>6. ASSUME DemoteBlock PROVE AltTrace'
    <2> DEFINE p == sw.popped[sw.j].id
    <2>1. /\ phase = "demote" /\ phase' = "demote" /\ UNCHANGED <<main, before>>
          /\ DOMAIN alts' = DOMAIN alts \cup {p}
          /\ sw' = [sw EXCEPT !.j = sw.j + 1] /\ sw.j <= Len(sw.popped) /\ sw.j >= 1
      BY <1>6, <1>i DEF DemoteBlock, TypeInv, LoopBounds
    <2>2. sw'.chain = sw.chain
      BY <1>t, <2>1 DEF Call
    <2> DEFINE q == sw.split + 1 + sw.j
    <2>3. q \in 1..Len(before) /\ p = before[q].id /\ ValidChain(before, sw.now)
      <3>1. PoppedAbove(sw.split + 1) /\ ValidChain(before, sw.now)
        BY <2>1 DEF SwitchTrace, SwitchPhases, Phases
      <3>2. sw.j \in 1..Len(sw.popped)
        BY <1>t, <1>l, <2>1
      <3>3. Len(before) = sw.split + 1 + Len(sw.popped) /\ sw.popped[sw.j] = before[q]
        BY <3>1, <3>2 DEF PoppedAbove
      <3>4. q \in 1..Len(before)
        BY <1>t, <1>l, <3>2, <3>3
      <3>5. QED
        BY <3>1, <3>3, <3>4
    <2>4. p \in Ids(before)
      BY <1>l, <2>3 DEF Ids
    <2>5. p \notin Ids(main)
      <3> SUFFICES ASSUME NEW k \in DOMAIN main, main[k].id = p PROVE FALSE
        BY DEF Ids
      <3>1. \A c \in DOMAIN sw.chain : sw.chain[c] # p
        BY <2>1, <2>4 DEF AltTrace, SwitchPhases, Phases
      <3>2. k \in 1..(sw.split + 1) /\ k \in DOMAIN before /\ main[k] = before[k]
        BY <1>i, <2>1, <3>1, NewRows
      <3>3. k < q /\ k \in 1..Len(before)
        BY <1>l, <1>t, <2>1, <3>2
      <3> HIDE DEF p, q
      <3>4. QED
        BY <1>t, <2>3, <3>2, <3>3, DistinctIds
    <2> HIDE DEF p, q
    <2>6. QED
      BY <2>1, <2>2, <2>5 DEF AltTrace, SwitchPhases, Phases
  <1>7. ASSUME DemoteDone PROVE AltTrace'
    <2>1. /\ phase = "demote" /\ phase' = "promote" /\ UNCHANGED <<main, before, alts>>
          /\ sw' = [sw EXCEPT !.j = 1]
      BY <1>7 DEF DemoteDone
    <2>2. sw'.chain = sw.chain /\ sw'.j = 1
      BY <1>t, <2>1 DEF Call
    <2>3. \A k \in DOMAIN sw.chain : k >= 1
      BY <1>l
    <2>4. QED
      BY <2>1, <2>2, <2>3 DEF AltTrace, SwitchPhases, Phases
  <1>8. ASSUME PromoteLink PROVE AltTrace'
    <2>1. /\ phase = "promote" /\ phase' = "promote" /\ UNCHANGED <<main, before>>
          /\ DOMAIN alts' = DOMAIN alts \ {sw.chain[sw.j]}
          /\ sw' = [sw EXCEPT !.j = sw.j + 1]
      BY <1>8 DEF PromoteLink, RemoveAlt
    <2>2. sw'.chain = sw.chain /\ sw'.j = sw.j + 1
      BY <1>t, <2>1 DEF Call
    <2>3. ASSUME NEW x \in DOMAIN alts' \cap Ids(main)
          PROVE  \E k \in DOMAIN sw.chain : x = sw.chain[k] /\ k >= sw.j + 1
      <3>1. PICK k \in DOMAIN sw.chain : x = sw.chain[k] /\ k >= sw.j
        BY <2>1 DEF AltTrace
      <3>2. k # sw.j
        BY <2>1, <3>1
      <3>3. k >= sw.j + 1
        BY <1>l, <1>t, <3>1, <3>2
      <3>4. QED
        BY <3>1, <3>3
    <2>4. QED
      BY <2>1, <2>2, <2>3 DEF AltTrace, SwitchPhases, Phases
  <1>9. ASSUME SwitchDone PROVE AltTrace'
    <2>1. /\ phase = "promote" /\ phase' = "idle" /\ UNCHANGED <<main, alts>>
          /\ sw.j > Len(sw.chain)
      BY <1>9 DEF SwitchDone
    <2>2. \A k \in DOMAIN sw.chain : ~ (k >= sw.j)
      BY <1>l, <1>t, <2>1
    <2>3. DOMAIN alts \cap Ids(main) = {}
      BY <2>1, <2>2 DEF AltTrace
    <2>4. QED
      BY <2>1, <2>3 DEF AltTrace, SwitchPhases
  <1>10. ASSUME PurgeDone PROVE AltTrace'
    <2>1. /\ phase = "purge" /\ phase' = "idle" /\ UNCHANGED <<main, alts>> /\ main = before
      BY <1>10 DEF PurgeDone, SwitchTrace
    <2>2. QED
      BY <2>1 DEF AltTrace, SwitchPhases
  <1>11. ~ RestoreFails /\ ~ StorageError /\ ~ SetClockBack
    BY NextOldBlock DEF RestoreFails, SoundInv, Reliable, StorageError, SetClockBack, Intervene
  <1>12. ASSUME Restart PROVE AltTrace'
    <2>1. DOMAIN alts' = {} /\ phase' = "idle"
      BY <1>12 DEF Restart, Intervene, BodiesKept
    <2>2. QED
      BY <2>1 DEF AltTrace, SwitchPhases
  <1>13. ASSUME PopOne PROVE AltTrace'
    <2>1. phase = "popblocks" /\ phase' = "popblocks" /\ main' = Drop(main) /\ alts' = alts
      BY <1>13 DEF PopOne
    <2>2. \A k \in DOMAIN main' : k \in DOMAIN main /\ main'[k] = main[k]
      BY <1>t, <1>l, <2>1, DropRows, SMTT(30)
    <2>3. Ids(main') \subseteq Ids(main)
      BY <2>2 DEF Ids
    <2>4. QED
      BY <2>1, <2>3 DEF AltTrace, SwitchPhases
  <1>14. ASSUME (\E n \in 1..Len(main) : PopBlocks(n)) \/ PopBlocksDone PROVE AltTrace'
    <2>1. /\ phase \in {"idle", "popblocks"} /\ phase' \in {"idle", "popblocks"}
          /\ UNCHANGED <<main, alts>>
      BY <1>14 DEF PopBlocks, PopBlocksDone
    <2>2. QED
      BY <2>1 DEF AltTrace, SwitchPhases
  <1>15. ASSUME TakeOrphaned \/ Tick \/ UNCHANGED vars PROVE AltTrace'
    <2>1. UNCHANGED <<main, alts, phase, sw, before>>
      BY <1>15 DEF TakeOrphaned, Tick, vars
    <2>2. QED
      BY <2>1 DEF AltTrace
  <1>16. QED
    BY <1>1, <1>2, <1>3, <1>4, <1>5, <1>6, <1>7, <1>8, <1>9, <1>10, <1>11, <1>12, <1>13,
       <1>14, <1>15
    DEF Next, HandleBlock, HandleAlternative, Continue, Switch

(* handle_alternative_block and switch_to_alternative: over a store that works
   and with a clock that runs forwards, blocks and their transactions enter and
   leave the alternative store together, and between calls none of them is on
   the main chain, as long as a restart drops both halves of it. *)
THEOREM AltStoreSoundHolds ==
    ASSUME Reliable, BodiesKept
    PROVE  Spec => []AltStoreSound
  <1> DEFINE Inv == SwitchTrace /\ AltTrace /\ DOMAIN alts = altTxs
  <1>1. Init => Inv
    <2> SUFFICES ASSUME Init PROVE Inv
      OBVIOUS
    <2>1. DOMAIN alts = {} /\ altTxs = {} /\ phase = "idle"
      BY DEF Init
    <2>2. QED
      BY <2>1 DEF SwitchTrace, AltTrace, SwitchPhases
  <1>2. SoundInv /\ Inv /\ [Next]_vars => Inv'
    BY SwitchTraceStep, AltTraceStep, SameStores
  <1>3. Inv => AltStoreSound
    BY DEF AltTrace, AltStoreSound
  <1>4. QED
    BY <1>1, <1>2, <1>3, SoundInvHolds, PTL DEF Spec

-----------------------------------------------------------------------------
(* No transaction is lost. *)

(* pop_blocks hands over the transactions of each block it takes off. *)
PopTrace ==
    phase = "popblocks" => /\ TxsIn(before) \subseteq TxsIn(main) \cup orphaned
                           /\ OldRows

LEMMA PopTraceStep ==
    ASSUME Reliable, TypeInv, PopTrace, [Next]_vars
    PROVE  PopTrace'
  <1>t. main \in Seq(Info) /\ main # << >> /\ before \in Seq(Info)
    BY DEF TypeInv, TypeOK
  <1>l. /\ Len(main) \in Nat /\ Len(main) >= 1 /\ DOMAIN main = 1..Len(main)
        /\ Len(before) \in Nat
    BY <1>t, TipRow, LenProperties
  <1>1. ASSUME NEW n \in 1..Len(main), PopBlocks(n) PROVE PopTrace'
    <2>1. main' = main /\ before' = main
      BY <1>1 DEF PopBlocks
    <2>2. QED
      BY <1>l, <2>1 DEF PopTrace, OldRows
  <1>2. ASSUME PopOne PROVE PopTrace'
    <2>1. /\ phase = "popblocks" /\ main' = Drop(main) /\ before' = before
          /\ orphaned' = orphaned \cup TxSet(Tip(main).id)
      BY <1>2 DEF PopOne
    <2>2. /\ Len(main') = Len(main) - 1
          /\ DOMAIN main' = 1..(Len(main) - 1)
          /\ \A k \in 1..(Len(main) - 1) : main'[k] = main[k]
      BY <1>t, <2>1, DropRows
    <2>3. \A k \in DOMAIN main : k = Len(main) \/ (k \in DOMAIN main' /\ main'[k] = main[k])
      BY <1>l, <2>2
    <2>4. TxsIn(main) \subseteq TxsIn(main') \cup TxSet(Tip(main).id)
      BY <2>3 DEF TxsIn, Tip
    <2>5. OldRows'
      BY <1>l, <2>1, <2>2 DEF PopTrace, OldRows
    <2>6. QED
      BY <2>1, <2>4, <2>5 DEF PopTrace
  <1>3. ASSUME \/ (\E b \in Block : HandleBlock(b)) \/ Switch \/ PopBlocksDone \/ TakeOrphaned
               \/ Restart
        PROVE  PopTrace'
    <2>1. phase' # "popblocks"
      BY <1>3 DEF HandleBlock, HandleAlternative, AddToMain, AddAlt, RefuseSwitch, BeginSwitch,
           Switch, PopToSplit, PopDone, ApplyLink, RejectLink, ApplyDone, UnapplyLink,
           UnapplyDone, RestoreBlock, RestoreFails, RestoreDone, PurgeLink, PurgeDone,
           DemoteBlock, DemoteDone, PromoteLink, SwitchDone, PopBlocksDone, TakeOrphaned,
           Restart
    <2>2. QED
      BY <2>1 DEF PopTrace
  <1>4. ASSUME Tick \/ UNCHANGED vars PROVE PopTrace'
    BY <1>4 DEF Tick, vars, PopTrace, OldRows
  <1>5. ~ StorageError /\ ~ SetClockBack
    BY DEF Reliable, StorageError, SetClockBack, Intervene
  <1>6. QED
    BY <1>1, <1>2, <1>3, <1>4, <1>5 DEF Next, Continue

(* Which actions end a call. *)
LEMMA CallEnds ==
    ASSUME Reliable, ~ Restart, SoundInv, SwitchTrace, [Next]_vars,
           phase # "idle", phase' = "idle"
    PROVE  PurgeDone \/ SwitchDone \/ PopBlocksDone
  <1>1. ~ RestoreFails
    BY NextOldBlock DEF RestoreFails, SoundInv
  <1>2. ~ StorageError /\ ~ SetClockBack
    BY DEF Reliable, StorageError, SetClockBack, Intervene
  <1>3. ~ (\E b \in Block : HandleBlock(b)) /\ ~ TakeOrphaned
    BY DEF HandleBlock, AddToMain, HandleAlternative, AddAlt, RefuseSwitch, BeginSwitch,
           TakeOrphaned
  <1>4. ~ (\E n \in 1..Len(main) : PopBlocks(n)) /\ ~ PopOne
    BY DEF PopBlocks, PopOne
  <1>5. ~ Tick /\ ~ UNCHANGED vars
    BY DEF Tick, vars
  <1>6. /\ ~ PopToSplit /\ ~ PopDone /\ ~ ApplyLink /\ ~ RejectLink /\ ~ ApplyDone
        /\ ~ UnapplyLink /\ ~ UnapplyDone /\ ~ RestoreBlock /\ ~ RestoreDone
        /\ ~ PurgeLink /\ ~ DemoteBlock /\ ~ DemoteDone /\ ~ PromoteLink
    BY DEF PopToSplit, PopDone, ApplyLink, RejectLink, ApplyDone, UnapplyLink, UnapplyDone,
           RestoreBlock, RestoreDone, PurgeLink, DemoteBlock, DemoteDone, PromoteLink
  <1>7. QED
    BY <1>1, <1>2, <1>3, <1>4, <1>5, <1>6 DEF Next, Continue, Switch

(* In a switch past its pops, each row of the old chain is still there, below
   the split, or was popped. *)
LEMMA OldRowsKept ==
    ASSUME TypeInv, BelowSplit, PoppedAbove(sw.split + 1), NEW k \in DOMAIN before
    PROVE  \/ k \in DOMAIN main /\ main[k] = before[k]
           \/ \E l \in DOMAIN sw.popped : sw.popped[l] = before[k]
  <1>t. /\ main \in Seq(Info) /\ before \in Seq(Info) /\ sw.popped \in Seq(Info)
        /\ sw.split \in Nat
    BY DEF TypeInv, TypeOK, Call
  <1>l. /\ Len(main) \in Nat /\ DOMAIN main = 1..Len(main)
        /\ Len(before) \in Nat /\ DOMAIN before = 1..Len(before)
        /\ Len(sw.popped) \in Nat /\ DOMAIN sw.popped = 1..Len(sw.popped)
    BY <1>t, LenProperties
  <1>1. CASE k <= sw.split + 1
    <2>1. k \in 1..(sw.split + 1) /\ k \in 1..Len(main)
      BY <1>t, <1>l, <1>1 DEF BelowSplit
    <2>2. QED
      BY <1>l, <2>1 DEF BelowSplit
  <1>2. CASE k > sw.split + 1
    <2>1. k - (sw.split + 1) \in 1..Len(sw.popped) /\ k = sw.split + 1 + (k - (sw.split + 1))
      BY <1>t, <1>l, <1>2 DEF PoppedAbove
    <2>2. QED
      BY <1>l, <2>1 DEF PoppedAbove
  <1>3. QED
    BY <1>t, <1>l, <1>1, <1>2

LEMMA CallKeepsTxs ==
    ASSUME Reliable, ~ Restart, SoundInv, SwitchTrace, PopTrace, [Next]_vars,
           phase # "idle", phase' = "idle"
    PROVE  TxsIn(before) \subseteq TxsIn(main') \cup orphaned'
  <1>1. ASSUME PurgeDone PROVE TxsIn(before) \subseteq TxsIn(main')
    BY <1>1 DEF PurgeDone, SwitchTrace
  <1>2. ASSUME PopBlocksDone PROVE TxsIn(before) \subseteq TxsIn(main') \cup orphaned'
    BY <1>2 DEF PopBlocksDone, PopTrace
  <1>3. ASSUME SwitchDone PROVE TxsIn(before) \subseteq TxsIn(main') \cup orphaned'
    <2>1. /\ main' = main /\ orphaned' = orphaned \cup (TxsIn(sw.popped) \ TxsIn(main))
          /\ BelowSplit /\ PoppedAbove(sw.split + 1)
      BY <1>3 DEF SwitchDone, SwitchTrace, SwitchPhases, Phases
    <2>2. \A k \in DOMAIN before : \/ k \in DOMAIN main /\ main[k] = before[k]
                                   \/ \E l \in DOMAIN sw.popped : sw.popped[l] = before[k]
      BY <2>1, OldRowsKept DEF SoundInv
    <2>3. TxsIn(before) \subseteq TxsIn(main) \cup TxsIn(sw.popped)
      BY <2>2 DEF TxsIn
    <2>4. QED
      BY <2>1, <2>3
  <1>4. QED
    BY <1>1, <1>2, <1>3, CallEnds

(* switch_to_alternative and pop_blocks hand over every transaction they take
   off: when the call returns, over a store that works, each is on the main
   chain or in orphaned_txs, whatever the calls and crashes before it. *)
THEOREM NoTxLostHolds ==
    ASSUME Reliable
    PROVE  Spec => NoTxLost
  <1>1. Init => SwitchTrace /\ PopTrace
    BY DEF Init, SwitchTrace, SwitchPhases, PopTrace
  <1>2. SoundInv /\ SwitchTrace /\ PopTrace /\ [Next]_vars => SwitchTrace' /\ PopTrace'
    BY SwitchTraceStep, PopTraceStep DEF SoundInv
  <1>3. SoundInv /\ SwitchTrace /\ PopTrace /\ [Next]_vars =>
          [(phase # "idle" /\ phase' = "idle" /\ ~ Restart) =>
              TxsIn(before) \subseteq TxsIn(main') \cup orphaned']_vars
    BY CallKeepsTxs
  <1>4. QED
    BY <1>1, <1>2, <1>3, SoundInvHolds, PTL DEF Spec, NoTxLost

-----------------------------------------------------------------------------
(* Work.  Chain defines it by recursion along Prev; it is well defined because
   heights go down along Prev, which takes an induction over heights. *)

(* What b adds to the work of its parent. *)
Adds(b) == DifficultyAfter(Prev[b], Height[b])

UpTo(n) == {b \in Block : Height[b] <= n}

(* One step of the recursion, from the values g of the blocks before. *)
Unfold(g, b) == IF b = Genesis THEN 1 ELSE g[Prev[b]] + Adds(b)

(* The functions that satisfy the recursion up to height n. *)
WorkUpTo(n) == {g \in [UpTo(n) -> Nat] : \A b \in UpTo(n) : g[b] = Unfold(g, b)}

LEMMA Parents ==
    ASSUME NEW b \in Block, b # Genesis
    PROVE  /\ Prev[b] \in Block /\ Height[b] \in Nat /\ Height[Prev[b]] \in Nat
           /\ Height[b] = Height[Prev[b]] + 1 /\ Adds(b) \in Nat /\ Adds(b) > 0
  <1>1. /\ Prev[b] \in Block /\ Height[b] \in Nat /\ Height[Prev[b]] \in Nat
        /\ Height[b] = Height[Prev[b]] + 1
    BY TreeAssumption
  <1>2. RequiredVersion(Height[b]) \in Version
    BY DEF RequiredVersion, Version
  <1>3. Adds(b) \in Nat \ {0}
    BY <1>1, <1>2, WorkAssumption DEF Adds, DifficultyAfter
  <1>4. QED
    BY <1>1, <1>3

LEMMA WorkUpToExists ==
    ASSUME NEW n \in Nat
    PROVE  WorkUpTo(n) # {}
  <1> DEFINE T == {m \in Nat : WorkUpTo(m) = {}}
  <1> SUFFICES ASSUME T # {} PROVE FALSE
    OBVIOUS
  <1>1. PICK m \in T : \A k \in T : m <= k
    <2>1. T \in SUBSET Nat
      OBVIOUS
    <2> HIDE DEF T
    <2>2. QED
      BY <2>1, LeastNatural
  <1>2. CASE m = 0
    <2> DEFINE g == [b \in UpTo(0) |-> 1]
    <2>1. \A b \in UpTo(0) : b = Genesis
      BY Parents DEF UpTo
    <2>2. g \in [UpTo(0) -> Nat]
      OBVIOUS
    <2>3. \A b \in UpTo(0) : g[b] = Unfold(g, b)
      BY <2>1 DEF Unfold
    <2>4. g \in WorkUpTo(0)
      BY <2>2, <2>3 DEF WorkUpTo
    <2>5. QED
      BY <1>1, <1>2, <2>4
  <1>3. CASE m # 0
    <2>1. m - 1 \in Nat /\ ~ (m <= m - 1)
      BY <1>3
    <2>2. WorkUpTo(m - 1) # {}
      BY <1>1, <2>1
    <2>3. PICK g \in WorkUpTo(m - 1) : TRUE
      BY <2>2
    <2>4. g \in [UpTo(m - 1) -> Nat] /\ \A b \in UpTo(m - 1) : g[b] = Unfold(g, b)
      BY <2>3 DEF WorkUpTo
    <2> DEFINE h == [b \in UpTo(m) |-> Unfold(g, b)]
    <2>5. ASSUME NEW b \in UpTo(m), b # Genesis
          PROVE  Prev[b] \in UpTo(m - 1) /\ Prev[b] \in UpTo(m)
      BY <2>5, <2>1, Parents DEF UpTo
    <2>6. h \in [UpTo(m) -> Nat]
      <3>1. ASSUME NEW b \in UpTo(m) PROVE Unfold(g, b) \in Nat
        <4>1. CASE b = Genesis
          BY <4>1 DEF Unfold
        <4>2. CASE b # Genesis
          <5>1. g[Prev[b]] \in Nat /\ Adds(b) \in Nat
            BY <2>4, <2>5, <4>2, Parents DEF UpTo
          <5>2. QED
            BY <4>2, <5>1 DEF Unfold
        <4>3. QED
          BY <4>1, <4>2
      <3>2. QED
        BY <3>1
    <2>7. ASSUME NEW b \in UpTo(m) PROVE h[b] = Unfold(h, b)
      <3>1. CASE b = Genesis
        BY <3>1 DEF Unfold
      <3>2. CASE b # Genesis
        <4>1. h[Prev[b]] = Unfold(g, Prev[b])
          BY <2>5, <3>2
        <4>2. g[Prev[b]] = Unfold(g, Prev[b])
          BY <2>4, <2>5, <3>2
        <4>3. h[b] = Unfold(g, b)
          OBVIOUS
        <4> HIDE DEF h
        <4>4. QED
          BY <3>2, <4>1, <4>2, <4>3 DEF Unfold
      <3>3. QED
        BY <3>1, <3>2
    <2> HIDE DEF h
    <2>8. h \in WorkUpTo(m)
      BY <2>6, <2>7 DEF WorkUpTo
    <2>9. QED
      BY <1>1, <2>8
  <1>4. QED
    BY <1>2, <1>3

LEMMA WorkUpToAgree ==
    ASSUME NEW n \in Nat, NEW m \in Nat, n <= m, NEW g \in WorkUpTo(n), NEW h \in WorkUpTo(m),
           NEW b \in UpTo(n)
    PROVE  g[b] = h[b]
  <1> DEFINE D == {x \in UpTo(n) : g[x] # h[x]}
             T == {Height[x] : x \in D}
  <1> SUFFICES ASSUME D # {} PROVE FALSE
    OBVIOUS
  <1>1. T \in SUBSET Nat /\ T # {}
    BY TreeAssumption DEF UpTo
  <1>2. PICK k \in T : \A l \in T : k <= l
    <2> HIDE DEF T
    <2>1. QED
      BY <1>1, LeastNatural
  <1>3. PICK x \in D : k = Height[x]
    BY <1>2
  <1>4. /\ \A c \in UpTo(n) : g[c] = Unfold(g, c)
        /\ \A c \in UpTo(m) : h[c] = Unfold(h, c)
    BY DEF WorkUpTo
  <1>5. x \in UpTo(m)
    BY <1>3, TreeAssumption DEF UpTo
  <1>6. CASE x = Genesis
    BY <1>3, <1>4, <1>5, <1>6 DEF Unfold
  <1>7. CASE x # Genesis
    <2>1. /\ Prev[x] \in Block /\ Height[Prev[x]] \in Nat
          /\ Height[x] = Height[Prev[x]] + 1 /\ Height[x] <= n
      BY <1>3, <1>7, Parents DEF UpTo
    <2>2. Prev[x] \in UpTo(n) /\ ~ (k <= Height[Prev[x]])
      BY <1>3, <2>1 DEF UpTo
    <2>3. Prev[x] \notin D
      BY <1>2, <2>2
    <2>4. g[Prev[x]] = h[Prev[x]]
      BY <2>2, <2>3
    <2>5. QED
      BY <1>3, <1>4, <1>5, <1>7, <2>4 DEF Unfold
  <1>8. QED
    BY <1>6, <1>7

(* The recursion of Work has a solution, and Work is one. *)
LEMMA WorkSolves ==
    /\ Work \in [Block -> Nat]
    /\ Work[Genesis] = 1
    /\ \A b \in Block \ {Genesis} : Work[b] = Work[Prev[b]] + Adds(b)
  <1> DEFINE pick(n) == CHOOSE g : g \in WorkUpTo(n)
             w == [b \in Block |-> pick(Height[b])[b]]
  <1>1. \A n \in Nat : pick(n) \in WorkUpTo(n)
    BY WorkUpToExists
  <1> HIDE DEF pick
  <1>2. \A b \in Block : Height[b] \in Nat /\ b \in UpTo(Height[b])
    BY TreeAssumption DEF UpTo
  <1>3. ASSUME NEW b \in Block PROVE w[b] \in Nat /\ w[b] = Unfold(pick(Height[b]), b)
    <2>1. pick(Height[b]) \in WorkUpTo(Height[b]) /\ b \in UpTo(Height[b])
      BY <1>1, <1>2
    <2>2. QED
      BY <2>1 DEF WorkUpTo
  <1>4. ASSUME NEW b \in Block PROVE w[b] = Unfold(w, b)
    <2>1. CASE b = Genesis
      BY <1>3, <2>1 DEF Unfold
    <2>2. CASE b # Genesis
      <3>1. /\ Prev[b] \in Block /\ Height[b] \in Nat /\ Height[Prev[b]] \in Nat
            /\ Height[Prev[b]] <= Height[b]
        BY <2>2, Parents
      <3>2. pick(Height[Prev[b]])[Prev[b]] = pick(Height[b])[Prev[b]]
        BY <1>1, <1>2, <3>1, WorkUpToAgree
      <3>3. w[Prev[b]] = pick(Height[b])[Prev[b]]
        BY <3>1, <3>2
      <3>4. w[b] = pick(Height[b])[Prev[b]] + Adds(b)
        BY <1>3, <2>2 DEF Unfold
      <3> HIDE DEF w
      <3>5. QED
        BY <2>2, <3>3, <3>4 DEF Unfold
    <2>3. QED
      BY <2>1, <2>2
  <1>5. w = [b \in Block |-> IF b = Genesis THEN 1
                             ELSE w[Prev[b]] + DifficultyAfter(Prev[b], Height[b])]
    <2>1. w = [b \in Block |-> w[b]]
      OBVIOUS
    <2> HIDE DEF w
    <2>2. QED
      BY <1>4, <2>1 DEF Unfold, Adds
  <1>6. Work = [b \in Block |-> IF b = Genesis THEN 1
                                ELSE Work[Prev[b]] + DifficultyAfter(Prev[b], Height[b])]
    <2> HIDE DEF w
    <2>1. \E f : f = [b \in Block |-> IF b = Genesis THEN 1
                                ELSE f[Prev[b]] + DifficultyAfter(Prev[b], Height[b])]
      BY <1>5
    <2>2. QED
      BY <2>1, Zenon DEF Work
  <1>7. \A b \in Block : Work[b] = Unfold(Work, b)
    BY <1>6 DEF Unfold, Adds
  <1>8. Work \in [Block -> Nat]
    <2> SUFFICES ASSUME {b \in Block : Work[b] \notin Nat} # {} PROVE FALSE
      BY <1>6
    <2> DEFINE D == {b \in Block : Work[b] \notin Nat}
               T == {Height[b] : b \in D}
    <2>1. T \in SUBSET Nat /\ T # {}
      BY TreeAssumption
    <2>2. PICK k \in T : \A l \in T : k <= l
      <3> HIDE DEF T
      <3>1. QED
        BY <2>1, LeastNatural
    <2>3. PICK b \in D : k = Height[b]
      BY <2>2
    <2>4. b # Genesis
      BY <1>7, <2>3 DEF Unfold
    <2>5. /\ Prev[b] \in Block /\ Height[Prev[b]] \in Nat /\ Adds(b) \in Nat
          /\ Height[b] = Height[Prev[b]] + 1
      BY <2>3, <2>4, Parents
    <2>6. Prev[b] \notin D
      <3>1. ~ (k <= Height[Prev[b]])
        BY <2>3, <2>5
      <3>2. QED
        BY <2>2, <3>1
    <2>7. Work[b] = Work[Prev[b]] + Adds(b)
      BY <1>7, <2>3, <2>4 DEF Unfold
    <2>8. QED
      BY <2>3, <2>5, <2>6, <2>7
  <1>9. QED
    BY <1>7, <1>8, TreeAssumption DEF Unfold

-----------------------------------------------------------------------------
(* A switch gains work. *)

(* Every height asks for the difficulty by the same algorithm: alt_difficulty
   takes the one of the main chain's current version, add_block the one of the
   block's height, and a reorganisation across a hard fork may see the two
   differ. *)
OneAlgorithm ==
    ForkHeight = 0 \/ \A p \in Block : NextDifficulty[p]["old"] = NextDifficulty[p]["new"]

LEMMA SameDifficulty ==
    ASSUME OneAlgorithm, NEW p \in Block, NEW h \in Nat, NEW n \in Nat
    PROVE  DifficultyAfter(p, h) = DifficultyAfter(p, n)
  BY DEF OneAlgorithm, DifficultyAfter, RequiredVersion

(* The stored work of each block, on the main chain, popped or alternative, is
   the work of the chain that ends in it. *)
RowsWeighed(s) == \A k \in DOMAIN s : s[k].cd = Work[s[k].id]

WorkInv ==
    /\ RowsWeighed(main)
    /\ RowsWeighed(sw.popped)
    /\ \A x \in DOMAIN alts : alts[x] = Work[x]
    /\ phase \in SwitchPhases => /\ sw.chain # << >>
                                 /\ Work[Tip(sw.chain)] > Tip(before).cd

(* The row add_block commits carries the work of its block. *)
LEMMA CommitWeighed ==
    ASSUME OneAlgorithm, SoundInv, RowsWeighed(main), CommitsOne
    PROVE  RowsWeighed(main')
  <1>1. PICK b \in Block : /\ Accepts(b, main, cache, clock) \/ Accepts(b, main, cache, sw.now)
                           /\ Commit(b)
    BY DEF CommitsOne
  <1>2. main \in Seq(Info) /\ main # << >> /\ cache \in Info /\ TypeInv
    BY DEF SoundInv, TypeInv, TypeOK
  <1>3. Len(main) \in Nat /\ Len(main) \in DOMAIN main /\ DOMAIN main = 1..Len(main)
    BY <1>2, TipRow
  <1>4. cache = Tip(main)
    BY DEF SoundInv, CacheCoherent, CommitsOne
  <1>5. cache.cd = Work[cache.id] /\ cache.id \in Block
    BY <1>2, <1>3, <1>4 DEF RowsWeighed, Tip, Info
  <1>6. b # Genesis /\ Prev[b] = cache.id
    BY <1>1, <1>4 DEF Accepts
  <1>7. Work[b] = cache.cd + DifficultyAfter(cache.id, Len(main))
    <2>1. DifficultyAfter(cache.id, Height[b]) = DifficultyAfter(cache.id, Len(main))
      BY <1>3, <1>5, <1>6, SameDifficulty, TreeAssumption
    <2>2. QED
      BY <1>5, <1>6, <2>1, WorkSolves DEF Adds
  <1>8. RowFor(b, main, cache) \in Info /\ RowFor(b, main, cache).cd = Work[b]
        /\ RowFor(b, main, cache).id = b
    BY <1>2, <1>7, RowForType DEF RowFor
  <1>9. /\ DOMAIN main' = 1..(Len(main) + 1)
        /\ \A k \in 1..Len(main) : main'[k] = main[k]
        /\ main'[Len(main) + 1] = RowFor(b, main, cache)
    BY <1>1, <1>2, <1>8, AppendRow DEF Commit
  <1>10. \A k \in DOMAIN main' : k \in DOMAIN main \/ k = Len(main) + 1
    BY <1>3, <1>9
  <1>11. QED
    BY <1>3, <1>8, <1>9, <1>10 DEF RowsWeighed

LEMMA MainWeighed ==
    ASSUME OneAlgorithm, SoundInv, RowsWeighed(main), [Next]_vars
    PROVE  RowsWeighed(main')
  <1>1. main \in Seq(Info) /\ main # << >> /\ TypeInv
    BY DEF SoundInv, TypeInv, TypeOK
  <1>2. CASE main' = Drop(main)
    <2>1. \A k \in DOMAIN main' : k \in DOMAIN main /\ main'[k] = main[k]
      BY <1>1, <1>2, DropRows, TipRow
    <2>2. QED
      BY <2>1 DEF RowsWeighed
  <1>3. QED
    BY <1>1, <1>2, MainMoves, CommitWeighed

(* The work found for an alternative block is its work. *)
LEMMA AltWeighed ==
    ASSUME OneAlgorithm, SoundInv, WorkInv, NEW b \in Block, NEW s \in AltChainTo(b)
    PROVE  AltWork(b, s) = Work[b]
  <1>t. TypeOK
    BY DEF SoundInv, TypeInv
  <1>1. /\ s \in Seq(Block) /\ Len(s) \in Nat /\ Len(s) >= 1
        /\ s[Len(s)] = b /\ b # Genesis /\ Prev[b] \in Block
        /\ SplitHeight(s) \in Nat /\ SplitHeight(s) + 1 \in DOMAIN main
        /\ main[SplitHeight(s) + 1].id = Prev[s[1]]
        /\ Len(s) > 1 => s[Len(s) - 1] \in DOMAIN alts
    BY <1>t, AltChainLinks
  <1>2. AltDifficulty(b) = Adds(b)
    <2>1. Len(main) \in Nat /\ Height[b] \in Nat
      BY <1>t, LenProperties, TreeAssumption DEF TypeOK
    <2>2. DifficultyAfter(Prev[b], Len(main)) = DifficultyAfter(Prev[b], Height[b])
      BY <1>1, <2>1, SameDifficulty
    <2>3. QED
      BY <2>2 DEF AltDifficulty, Adds, DifficultyAfter
  <1>3. Work[b] = Adds(b) + Work[Prev[b]]
    <2>1. Work[Prev[b]] \in Nat /\ Adds(b) \in Nat /\ Work[b] = Work[Prev[b]] + Adds(b)
      BY <1>1, WorkSolves, Parents
    <2>2. QED
      BY <2>1
  <1>4. CASE Len(s) = 1
    <2>1. main[SplitHeight(s) + 1].cd = Work[Prev[b]]
      BY <1>1, <1>4 DEF WorkInv, RowsWeighed
    <2>2. QED
      BY <1>2, <1>3, <1>4, <2>1 DEF AltWork
  <1>5. CASE Len(s) > 1
    <2>1. Attaches(s, b)
      BY DEF AltChainTo
    <2>2. Len(s) - 1 \in 1..(Len(s) - 1) /\ (Len(s) - 1) + 1 = Len(s) /\ Len(s) # 1
      BY <1>1, <1>5
    <2>3. Prev[b] = s[Len(s) - 1]
      BY <1>1, <2>1, <2>2 DEF Attaches
    <2>4. alts[s[Len(s) - 1]] = Work[Prev[b]]
      BY <1>1, <1>5, <2>3 DEF WorkInv
    <2>5. QED
      BY <1>2, <1>3, <2>2, <2>4 DEF AltWork
  <1>6. QED
    BY <1>1, <1>4, <1>5, OneOrMore

LEMMA WorkInvInit == Init => WorkInv
  <1> SUFFICES ASSUME Init PROVE WorkInv
    OBVIOUS
  <1>1. main = << GenesisRow >> /\ DOMAIN main = 1..1 /\ sw.popped = << >> /\ DOMAIN alts = {}
    BY DEF Init, NoCall
  <1>2. RowsWeighed(main)
    BY <1>1, WorkSolves DEF RowsWeighed, GenesisRow
  <1>3. RowsWeighed(sw.popped)
    BY <1>1 DEF RowsWeighed
  <1>4. QED
    BY <1>1, <1>2, <1>3 DEF WorkInv, Init, SwitchPhases

LEMMA WorkInvStep ==
    ASSUME Reliable, OneAlgorithm, SoundInv, WorkInv, [Next]_vars
    PROVE  WorkInv'
  <1> DEFINE Others == /\ RowsWeighed(sw'.popped)
                       /\ \A x \in DOMAIN alts' : alts'[x] = Work[x]
                       /\ phase' \in SwitchPhases => /\ sw'.chain # << >>
                                                     /\ Work[Tip(sw'.chain)] > Tip(before').cd
  <1>i. TypeInv /\ TypeOK
    BY DEF SoundInv, TypeInv
  <1>t. /\ sw \in Call /\ sw.popped \in Seq(Info) /\ sw.chain \in Seq(Block) /\ sw.split \in Nat
        /\ main \in Seq(Info) /\ main # << >> /\ sw.i \in Nat /\ sw.j \in Nat
    BY <1>i DEF TypeOK, Call
  <1>l. /\ Len(main) \in Nat /\ Len(main) >= 1 /\ DOMAIN main = 1..Len(main)
        /\ Len(main) \in DOMAIN main
    BY <1>t, TipRow
  <1>n. NoCall.popped = << >> /\ RowsWeighed(<< >>)
    BY DEF NoCall, RowsWeighed
  <1>1. ASSUME UNCHANGED <<alts, phase, sw, before>> PROVE Others
    BY <1>1 DEF WorkInv, RowsWeighed, Tip
  (* A step inside a switch that forgets alternative blocks at most. *)
  <1>2. ASSUME DOMAIN alts' \subseteq DOMAIN alts, \A x \in DOMAIN alts' : alts'[x] = alts[x],
               phase \in SwitchPhases, before' = before, NEW x \in Nat,
               sw' = sw \/ sw' = [sw EXCEPT !.i = x] \/ sw' = [sw EXCEPT !.j = x]
        PROVE  Others
    <2>1. sw'.popped = sw.popped /\ sw'.chain = sw.chain
      BY <1>2, <1>t, CountersMove
    <2>2. QED
      BY <1>2, <2>1 DEF WorkInv
  (* The call ends, or was none of a switch. *)
  <1>3. ASSUME DOMAIN alts' \subseteq DOMAIN alts, \A x \in DOMAIN alts' : alts'[x] = alts[x],
               phase' \in {"idle", "popblocks"}, sw'.popped = << >> \/ sw'.popped = sw.popped
        PROVE  Others
    BY <1>3, <1>n DEF WorkInv, SwitchPhases
  <1>4. ASSUME NEW b \in Block, NEW s \in AltChainTo(b),
               AddAlt(b, s) \/ RefuseSwitch(b, s) \/ BeginSwitch(b, s)
        PROVE  Others
    <2>1. AltWork(b, s) = Work[b]
      BY AltWeighed
    <2>2. /\ DOMAIN alts' = DOMAIN alts \cup {b} /\ phase = "idle"
          /\ \A x \in DOMAIN alts' : alts'[x] = IF x = b THEN AltWork(b, s) ELSE alts[x]
      BY <1>4 DEF AddAlt, RefuseSwitch, BeginSwitch, StoreAlt
    <2>3. \A x \in DOMAIN alts' : alts'[x] = Work[x]
      BY <2>1, <2>2 DEF WorkInv
    <2>4. CASE BeginSwitch(b, s)
      <3>1. /\ sw'.popped = << >> /\ sw'.chain = s /\ before' = main
            /\ AltWork(b, s) > cache.cd
        BY <2>4 DEF BeginSwitch, NoCall, Heavier
      <3>2. s \in Seq(Block) /\ Len(s) \in Nat /\ Len(s) >= 1 /\ Tip(s) = b
        BY <1>i, AltChainLinks DEF Tip
      <3>3. s # << >>
        BY <3>2
      <3>4. cache = Tip(main)
        BY <2>2 DEF SoundInv, CacheCoherent
      <3>5. QED
        BY <1>n, <2>1, <2>3, <3>1, <3>2, <3>3, <3>4
    <2>5. CASE AddAlt(b, s) \/ RefuseSwitch(b, s)
      <3>1. phase' = "idle" /\ sw' = sw
        BY <2>5 DEF AddAlt, RefuseSwitch
      <3>2. QED
        BY <2>3, <3>1 DEF WorkInv, SwitchPhases
    <2>6. QED
      BY <1>4, <2>4, <2>5
  <1>5. ASSUME PopToSplit PROVE Others
    <2> DEFINE t == <<Tip(main)>>
    <2>1. /\ phase = "pop" /\ phase' = "pop" /\ UNCHANGED <<alts, before>>
          /\ sw' = [sw EXCEPT !.popped = t \o sw.popped]
      BY <1>5 DEF PopToSplit
    <2>2. sw'.popped = t \o sw.popped /\ sw'.chain = sw.chain
      BY <1>t, <2>1 DEF Call
    <2>3. Tip(main).cd = Work[Tip(main).id]
      BY <1>l DEF WorkInv, RowsWeighed, Tip
    <2>4. t \in Seq(Info) /\ Len(t) = 1 /\ t[1] = Tip(main)
      BY <1>t, TipRow
    <2> HIDE DEF t
    <2>5. ASSUME NEW k \in DOMAIN sw'.popped PROVE sw'.popped[k].cd = Work[sw'.popped[k].id]
      <3>1. /\ Len(t \o sw.popped) = Len(t) + Len(sw.popped)
            /\ t \o sw.popped \in Seq(Info)
            /\ \A i \in 1..(Len(t) + Len(sw.popped)) :
                  (t \o sw.popped)[i] = IF i <= Len(t) THEN t[i] ELSE sw.popped[i - Len(t)]
        BY <1>t, <2>4, ConcatProperties
      <3>2. k \in 1..(1 + Len(sw.popped)) /\ Len(sw.popped) \in Nat
        BY <1>t, <2>2, <2>4, <3>1, LenProperties
      <3>3. CASE k = 1
        BY <2>2, <2>3, <2>4, <3>1, <3>2, <3>3
      <3>4. CASE k # 1
        <4>1. k - 1 \in 1..Len(sw.popped) /\ ~ (k <= 1)
          BY <3>2, <3>4
        <4>2. sw'.popped[k] = sw.popped[k - 1]
          BY <2>2, <2>4, <3>1, <3>2, <4>1
        <4>3. k - 1 \in DOMAIN sw.popped
          BY <1>t, <4>1, LenProperties
        <4>4. QED
          BY <4>2, <4>3 DEF WorkInv, RowsWeighed
      <3>5. QED
        BY <3>3, <3>4
    <2>6. phase \in SwitchPhases
      BY <2>1 DEF SwitchPhases, Phases
    <2>7. QED
      BY <2>1, <2>2, <2>5, <2>6 DEF WorkInv, RowsWeighed
  <1>6. ASSUME DemoteBlock PROVE Others
    <2> DEFINE p == sw.popped[sw.j]
    <2>1. /\ phase = "demote" /\ sw.j <= Len(sw.popped) /\ sw' = [sw EXCEPT !.j = sw.j + 1]
          /\ DOMAIN alts' = DOMAIN alts \cup {p.id} /\ sw.j >= 1 /\ before' = before
          /\ \A x \in DOMAIN alts' : alts'[x] = IF x = p.id THEN p.cd ELSE alts[x]
      BY <1>6, <1>i DEF DemoteBlock, TypeInv, LoopBounds
    <2>2. sw.j \in DOMAIN sw.popped /\ sw.j + 1 \in Nat
      BY <1>t, <2>1, LenProperties
    <2>3. sw'.popped = sw.popped /\ sw'.chain = sw.chain
      BY <1>t, <2>1, <2>2, CountersMove
    <2>4. phase \in SwitchPhases
      BY <2>1 DEF SwitchPhases, Phases
    <2>5. p.cd = Work[p.id]
      BY <2>2 DEF WorkInv, RowsWeighed
    <2> HIDE DEF p
    <2>6. QED
      BY <2>1, <2>3, <2>4, <2>5 DEF WorkInv
  <1>7. ASSUME \/ PopDone \/ ApplyLink \/ RejectLink \/ ApplyDone \/ UnapplyLink \/ UnapplyDone
               \/ RestoreBlock \/ RestoreDone \/ PurgeLink \/ DemoteDone \/ PromoteLink
        PROVE  Others
    <2>1. /\ DOMAIN alts' \subseteq DOMAIN alts /\ \A x \in DOMAIN alts' : alts'[x] = alts[x]
          /\ phase \in SwitchPhases /\ before' = before
          /\ \/ sw' = sw
             \/ \E x \in {1, sw.i + 1, sw.j + 1, sw.i} :
                  sw' = [sw EXCEPT !.i = x] \/ sw' = [sw EXCEPT !.j = x]
      BY <1>7 DEF PopDone, ApplyLink, RejectLink, ApplyDone, UnapplyLink, UnapplyDone,
           RestoreBlock, RestoreDone, PurgeLink, DemoteDone, PromoteLink, RemoveAlt,
           SwitchPhases, Phases
    <2>2. {1, sw.i + 1, sw.j + 1, sw.i} \subseteq Nat
      BY <1>t
    <2>3. QED
      BY <1>2, <2>1, <2>2
  <1>8. ASSUME RestoreFails \/ PurgeDone \/ SwitchDone \/ PopBlocksDone \/ Restart PROVE Others
    <2>1. /\ DOMAIN alts' \subseteq DOMAIN alts /\ \A x \in DOMAIN alts' : alts'[x] = alts[x]
          /\ phase' = "idle" /\ sw' = NoCall
      BY <1>8 DEF RestoreFails, PurgeDone, SwitchDone, PopBlocksDone, Restart
    <2>2. QED
      BY <1>3, <1>n, <2>1
  <1>9. ASSUME PopOne \/ \E n \in 1..Len(main) : PopBlocks(n) PROVE Others
    <2>1. phase' = "popblocks" /\ alts' = alts
      BY <1>9 DEF PopBlocks, PopOne
    <2>2. sw'.popped = << >> \/ sw'.popped = sw.popped
      BY <1>9, <1>t DEF PopBlocks, PopOne, NoCall, Call
    <2>3. QED
      BY <1>3, <2>1, <2>2
  <1>10. ASSUME \/ \E b \in Block : AddToMain(b)
                \/ TakeOrphaned \/ Tick \/ UNCHANGED vars
         PROVE  Others
    <2>1. UNCHANGED <<alts, phase, sw, before>>
      BY <1>10 DEF AddToMain, TakeOrphaned, Tick, vars
    <2>2. QED
      BY <1>1, <2>1
  <1>11. ~ StorageError /\ ~ SetClockBack
    BY DEF Reliable, StorageError, SetClockBack, Intervene
  <1>12. Others
    BY <1>4, <1>5, <1>6, <1>7, <1>8, <1>9, <1>10, <1>11
    DEF Next, HandleBlock, HandleAlternative, Continue, Switch
  <1>13. RowsWeighed(main')
    BY MainWeighed DEF WorkInv
  <1>14. QED
    BY <1>12, <1>13 DEF WorkInv, RowsWeighed, Tip

(* Once all the links are on, the tip is the last of them. *)
LEMMA LinksOnTip ==
    ASSUME TypeInv, SwitchTrace, sw.chain # << >>,
           phase \in {"demote", "promote"} \/ (phase = "apply" /\ sw.i > Len(sw.chain))
    PROVE  Tip(main).id = Tip(sw.chain)
  <1>t. sw.chain \in Seq(Block) /\ sw.split \in Nat /\ sw.i \in Nat
    BY DEF TypeInv, TypeOK, Call
  <1>l. Len(sw.chain) \in Nat /\ Len(sw.chain) >= 1
    BY <1>t, EmptySeq
  <1>1. LinksOn(Len(sw.chain))
    <2>1. CASE phase = "apply"
      <3>1. LinksOn(sw.i - 1) /\ sw.i > Len(sw.chain)
        BY <2>1 DEF SwitchTrace
      <3>2. sw.i - 1 <= Len(sw.chain)
        BY <3>1 DEF LinksOn
      <3>3. sw.i - 1 = Len(sw.chain)
        BY <1>t, <1>l, <3>1, <3>2
      <3>4. QED
        BY <3>1, <3>3
    <2>2. CASE phase # "apply"
      BY <2>2 DEF SwitchTrace
    <2>3. QED
      BY <2>1, <2>2
  <1>2. Len(main) = sw.split + 1 + Len(sw.chain) /\ Len(sw.chain) \in 1..Len(sw.chain)
    BY <1>1, <1>l DEF LinksOn
  <1>3. QED
    BY <1>1, <1>2 DEF LinksOn, Tip

LEMMA GainsWork ==
    ASSUME SoundInv, SwitchTrace, WorkInv,
           phase \in {"demote", "promote"} \/ (phase = "apply" /\ sw.i > Len(sw.chain))
    PROVE  Tip(main).cd > Tip(before).cd
  <1>1. TypeInv /\ main \in Seq(Info) /\ main # << >>
    BY DEF SoundInv, TypeInv, TypeOK
  <1>2. sw.chain # << >> /\ Work[Tip(sw.chain)] > Tip(before).cd
    BY DEF WorkInv, SwitchPhases, Phases
  <1>3. Tip(main).cd = Work[Tip(main).id]
    BY <1>1, TipRow DEF WorkInv, RowsWeighed, Tip
  <1>4. QED
    BY <1>1, <1>2, <1>3, LinksOnTip

(* "switch only on strictly more work": the comparison is made before a link is
   checked and between numbers that were stored at different times, through
   other switches, pops and restarts; still, where one difficulty algorithm is
   in force, the tip a switch ends on has more work than the one it gave up. *)
THEOREM ReorgGainsWorkHolds ==
    ASSUME Reliable, OneAlgorithm
    PROVE  Spec => []ReorgGainsWork
  <1>1. Init => SwitchTrace /\ WorkInv
    BY WorkInvInit DEF Init, SwitchTrace, SwitchPhases
  <1>2. SoundInv /\ SwitchTrace /\ WorkInv /\ [Next]_vars => SwitchTrace' /\ WorkInv'
    BY SwitchTraceStep, WorkInvStep
  <1>3. SoundInv /\ SwitchTrace /\ WorkInv => ReorgGainsWork
    BY GainsWork DEF ReorgGainsWork
  <1>4. QED
    BY <1>1, <1>2, <1>3, SoundInvHolds, PTL DEF Spec

-----------------------------------------------------------------------------
(* Chain implements Ledger. *)

(* The ledger's rules are the chain's. *)
LEMMA LedgerRules ==
    /\ \A s : L!Tip(s) = Tip(s) /\ L!Ids(s) = Ids(s)
    /\ \A b, s, c : L!RowFor(b, s, c) = RowFor(b, s, c)
    /\ \A b, s, c, now : L!Accepts(b, s, c, now) <=> Accepts(b, s, c, now)
  <1>1. \A s : L!Tip(s) = Tip(s) /\ L!Ids(s) = Ids(s)
    BY DEF L!Tip, Tip, L!Ids, Ids
  <1>2. \A p, h : L!DifficultyAfter(p, h) = DifficultyAfter(p, h)
    BY DEF L!DifficultyAfter, DifficultyAfter, L!RequiredVersion, RequiredVersion
  <1>3. \A h : L!Trusted(h) <=> Trusted(h)
    BY DEF L!Trusted, Trusted
  <1>4. \A b, h : L!CheckpointHolds(b, h) <=> CheckpointHolds(b, h)
    BY DEF L!CheckpointHolds, CheckpointHolds
  <1>5. \A s : L!TxsIn(s) = TxsIn(s) /\ L!SpentIn(s) = SpentIn(s)
    <2>1. \A b : L!TxSet(b) = TxSet(b)
      BY DEF L!TxSet, TxSet
    <2>2. \A b : L!BlockImages(b) = BlockImages(b)
      BY <2>1 DEF L!BlockImages, BlockImages
    <2>3. QED
      BY <2>1, <2>2 DEF L!TxsIn, TxsIn, L!SpentIn, SpentIn
  <1>6. \A b, s : L!TransactionsFresh(b, s) <=> TransactionsFresh(b, s)
    BY <1>5 DEF L!TransactionsFresh, TransactionsFresh
  <1>7. \A b, s, c, now : L!Accepts(b, s, c, now) <=> Accepts(b, s, c, now)
    BY <1>1, <1>2, <1>3, <1>4, <1>6 DEF L!Accepts, Accepts
  <1>8. \A b, s, c : L!RowFor(b, s, c) = RowFor(b, s, c)
    BY <1>2 DEF L!RowFor, RowFor
  <1>9. QED
    BY <1>1, <1>7, <1>8

LEMMA LedgerValid ==
    ASSUME NEW s, NEW now, ValidChain(s, now)
    PROVE  L!ValidChain(s, now)
  BY LedgerRules DEF L!ValidChain, ValidChain

(* A switch past its pops still has every checkpoint the old chain had. *)
LEMMA SwitchKeepsCheckpoints ==
    ASSUME TypeInv, HeightInv, BelowSplit, PoppedAbove(sw.split + 1)
    PROVE  Checkpoints \cap Ids(before) \subseteq Ids(main)
  <1> SUFFICES ASSUME NEW c \in Checkpoints, NEW k \in DOMAIN before, before[k].id = c
               PROVE  c \in Ids(main)
    BY DEF Ids
  <1>1. Trusted(Height[c])
    <2>1. Height[c] \in Nat
      BY CheckpointAssumption, TreeAssumption
    <2>2. QED
      BY <2>1 DEF Trusted
  <1>2. \A l \in DOMAIN sw.popped : sw.popped[l].id # c
    BY <1>1 DEF HeightInv
  <1>3. k \in DOMAIN main /\ main[k] = before[k]
    BY <1>2, OldRowsKept
  <1>4. QED
    BY <1>3 DEF Ids

(* A pop is under way only where an operator may ask for one. *)
PopAllowed == phase = "popblocks" => "pop" \in Allowed

LEMMA PopAllowedStep ==
    ASSUME PopAllowed, [Next]_vars
    PROVE  PopAllowed'
  <1>1. ASSUME NEW n \in 1..Len(main), PopBlocks(n) PROVE "pop" \in Allowed
    BY <1>1 DEF PopBlocks, Intervene
  <1>2. ASSUME phase' = "popblocks" PROVE phase = "popblocks" \/ \E n \in 1..Len(main) : PopBlocks(n)
    BY <1>2 DEF Next, HandleBlock, HandleAlternative, AddToMain, AddAlt, RefuseSwitch, BeginSwitch,
           Switch, PopToSplit, PopDone, ApplyLink, RejectLink, ApplyDone, UnapplyLink,
           UnapplyDone, RestoreBlock, RestoreFails, RestoreDone, PurgeLink, PurgeDone,
           DemoteBlock, DemoteDone, PromoteLink, SwitchDone, Continue, PopOne, PopBlocksDone,
           TakeOrphaned, Restart, StorageError, Tick, SetClockBack, vars
  <1>3. QED
    BY <1>1, <1>2 DEF PopAllowed

(* At every moment of a switch the chain has the checkpoints it began with. *)
KeptTrace == phase \in SwitchPhases => Checkpoints \cap Ids(before) \subseteq Ids(main)

LEMMA KeptTraceStep ==
    ASSUME TypeInv, HeightInv, KeptTrace, [Next]_vars
    PROVE  KeptTrace'
  <1>1. ASSUME phase \in SwitchPhases, before' = before PROVE KeptTrace'
    <2>1. phase # "popblocks"
      BY <1>1 DEF SwitchPhases
    <2>2. Checkpoints \cap Ids(main) \subseteq Ids(main')
      BY <2>1, CheckpointsStayStep
    <2>3. QED
      BY <1>1, <2>2 DEF KeptTrace
  <1>2. ASSUME NEW b \in Block, HandleBlock(b) PROVE KeptTrace'
    <2>1. phase' \notin SwitchPhases \/ (before' = main /\ main' = main)
      BY <1>2 DEF HandleBlock, AddToMain, HandleAlternative, AddAlt, RefuseSwitch, BeginSwitch,
                  SwitchPhases
    <2>2. QED
      BY <2>1 DEF KeptTrace
  <1>3. ASSUME Switch PROVE KeptTrace'
    <2>1. phase \in SwitchPhases /\ before' = before
      BY <1>3 DEF Switch, PopToSplit, PopDone, ApplyLink, RejectLink, ApplyDone, UnapplyLink,
           UnapplyDone, RestoreBlock, RestoreFails, RestoreDone, PurgeLink, PurgeDone,
           DemoteBlock, DemoteDone, PromoteLink, SwitchDone, SwitchPhases, Phases
    <2>2. QED
      BY <1>1, <2>1
  <1>4. ASSUME \/ \E n \in 1..Len(main) : PopBlocks(n)
               \/ PopOne \/ PopBlocksDone \/ TakeOrphaned \/ Restart
        PROVE  KeptTrace'
    <2>1. phase' \notin SwitchPhases
      BY <1>4 DEF PopBlocks, PopOne, PopBlocksDone, TakeOrphaned, Restart, SwitchPhases
    <2>2. QED
      BY <2>1 DEF KeptTrace
  <1>5. ASSUME StorageError \/ Tick \/ SetClockBack \/ UNCHANGED vars PROVE KeptTrace'
    <2>1. before' = before /\ (phase \in SwitchPhases \/ phase' \notin SwitchPhases)
      BY <1>5 DEF StorageError, Tick, SetClockBack, vars, SwitchPhases, Phases
    <2>2. QED
      BY <1>1, <2>1 DEF KeptTrace
  <1>6. QED
    BY <1>2, <1>3, <1>4, <1>5 DEF Next, Continue

RefinementInv ==
    SoundInv /\ SwitchTrace /\ PopTrace /\ HeightInv /\ WorkInv /\ PopAllowed /\ KeptTrace

(* Each step of the chain is a step of the ledger, or none. *)
LEMMA LedgerStep ==
    ASSUME Reliable, RefinementInv, [Next]_vars
    PROVE  [L!LedgerNext]_<<Visible, clock, used>>
  <1>i. SoundInv /\ SwitchTrace /\ PopTrace /\ HeightInv /\ WorkInv /\ TypeInv /\ KeptTrace
    BY DEF RefinementInv, SoundInv
  <1>t. /\ main \in Seq(Info) /\ main # << >> /\ before \in Seq(Info) /\ clock \in Nat
        /\ sw.split \in Nat
    BY <1>i DEF TypeInv, TypeOK, Call
  <1>l. Len(main) \in Nat /\ Len(main) >= 1 /\ Len(before) \in Nat
    BY <1>t, TipRow, LenProperties
  <1>1. ASSUME NEW b \in Block, AddToMain(b) PROVE L!Extend
    <2>1. /\ phase = "idle" /\ phase' = "idle" /\ clock' = clock /\ used' = used
          /\ Accepts(b, main, cache, clock) /\ main' = Append(main, RowFor(b, main, cache))
      BY <1>1 DEF AddToMain, Commit
    <2>2. cache = Tip(main)
      BY <1>i, <2>1 DEF SoundInv, CacheCoherent
    <2>3. Visible = main /\ Visible' = main'
      BY <2>1 DEF Visible, Settled
    <2>4. /\ L!Accepts(b, Visible, L!Tip(Visible), clock)
          /\ Visible' = Append(Visible, L!RowFor(b, Visible, L!Tip(Visible)))
      BY <2>1, <2>2, <2>3, LedgerRules
    <2>5. QED
      BY <2>1, <2>4 DEF L!Extend
  <1>2. ASSUME ApplyDone PROVE L!Reorganise
    <2>1. /\ phase = "apply" /\ phase' = "demote" /\ UNCHANGED <<main, before, clock, used>>
          /\ sw.i > Len(sw.chain)
      BY <1>2 DEF ApplyDone
    <2>2. Visible = before /\ Visible' = main
      BY <2>1 DEF Visible, Settled
    <2>3. ValidChain(main, clock)
      BY <1>i DEF SoundInv, MainValid
    <2>4. Tip(main).cd > Tip(before).cd
      BY <1>i, <2>1, GainsWork
    <2>5. Checkpoints \cap Ids(before) \subseteq Ids(main)
      <3>1. BelowSplit /\ PoppedAbove(sw.split + 1)
        BY <1>i, <2>1 DEF SwitchTrace, SwitchPhases, Phases
      <3>2. QED
        BY <1>i, <3>1, SwitchKeepsCheckpoints
    <2>6. /\ L!ValidChain(Visible', clock) /\ L!Tip(Visible').cd > L!Tip(Visible).cd
          /\ Checkpoints \cap L!Ids(Visible) \subseteq L!Ids(Visible')
      BY <2>2, <2>3, <2>4, <2>5, LedgerRules, LedgerValid
    <2>7. QED
      BY <2>1, <2>6 DEF L!Reorganise
  <1>p. ASSUME phase = "popblocks", Visible' = main PROVE "pop" \in Allowed /\ L!Shortened
    <2>1. Visible = before
      BY <1>p DEF Visible, Settled
    <2>2. Len(main) <= Len(before) /\ \A k \in 1..Len(main) : main[k] = before[k]
      BY <1>i, <1>p DEF PopTrace, OldRows
    <2>3. main = SubSeq(before, 1, Len(main))
      <3>1. SubSeq(main, 1, Len(main)) = SubSeq(before, 1, Len(main))
        <4>1. Len(main) <= Len(main)
          BY <1>l
        <4>2. QED
          BY <1>t, <1>l, <2>2, <4>1, SamePrefix
      <3>2. QED
        BY <1>t, <3>1, SubSeqFull
    <2>4. Len(main) \in 1..Len(before)
      BY <1>l, <2>2
    <2>5. "pop" \in Allowed
      BY <1>p DEF PopAllowed, RefinementInv
    <2>6. QED
      BY <1>p, <2>1, <2>3, <2>4, <2>5 DEF L!Shortened
  <1>3. ASSUME PopBlocksDone PROVE L!Truncate
    <2>1. phase = "popblocks" /\ phase' = "idle" /\ UNCHANGED <<main, clock, used>>
      BY <1>3 DEF PopBlocksDone
    <2>2. Visible' = main
      BY <2>1 DEF Visible, Settled
    <2>3. QED
      BY <1>p, <2>1, <2>2 DEF L!Truncate
  <1>4. ASSUME Tick PROVE L!TimePasses
    <2>1. clock' = clock + 1 /\ UNCHANGED <<main, before, phase, used>>
      BY <1>4 DEF Tick
    <2>2. Visible' = Visible
      BY <2>1 DEF Visible, Settled
    <2>3. clock' > clock
      BY <1>t, <2>1
    <2>4. QED
      BY <2>1, <2>2, <2>3 DEF L!TimePasses
  (* A crash, in a call or between two, and the beginning of a pop. *)
  <1>r. ASSUME Restart \/ \E n \in 1..Len(main) : PopBlocks(n) PROVE L!Interrupt
    <2>1. used' = used + 1 /\ UNCHANGED <<main, clock>> /\ Visible' = main
      BY <1>r DEF Restart, PopBlocks, Intervene, Visible, Settled
    <2>2. L!ValidChain(Visible', clock)
      BY <1>i, <2>1, LedgerValid DEF SoundInv, MainValid
    <2>3. CASE phase = "popblocks"
      BY <1>p, <2>1, <2>2, <2>3 DEF L!Interrupt
    <2>4. CASE phase # "popblocks"
      <3>1. Checkpoints \cap Ids(Visible) \subseteq Ids(main)
        <4>1. CASE Visible = main
          BY <4>1
        <4>2. CASE Visible # main
          <5>1. Visible = before /\ phase \in SwitchPhases
            BY <1>i, <2>4, <4>2 DEF Visible, Settled, SwitchPhases, TypeInv, TypeOK
          <5>2. QED
            BY <1>i, <5>1 DEF KeptTrace
        <4>3. QED
          BY <4>1, <4>2
      <3>2. Checkpoints \cap L!Ids(Visible) \subseteq L!Ids(Visible')
        BY <2>1, <3>1, LedgerRules
      <3>3. QED
        BY <2>1, <2>2, <3>2 DEF L!Interrupt
    <2>5. QED
      BY <2>3, <2>4
  (* The steps the ledger does not see. *)
  <1>5. ASSUME \/ \E b \in Block : HandleAlternative(b)
               \/ TakeOrphaned \/ UNCHANGED vars
        PROVE  UNCHANGED <<Visible, clock, used>>
    BY <1>5 DEF HandleAlternative, AddAlt, RefuseSwitch, BeginSwitch, TakeOrphaned,
                vars, Visible, Settled
  <1>6. ASSUME \/ PopToSplit \/ PopDone \/ ApplyLink \/ RejectLink \/ UnapplyLink \/ UnapplyDone
               \/ RestoreBlock \/ RestoreDone \/ PurgeLink \/ PopOne
        PROVE  UNCHANGED <<Visible, clock, used>>
    <2>1. /\ ~ Settled /\ ~ Settled' /\ UNCHANGED <<before, clock, used>>
      BY <1>6 DEF PopToSplit, PopDone, ApplyLink, RejectLink, UnapplyLink, UnapplyDone,
                  RestoreBlock, RestoreDone, PurgeLink, PopOne, Settled
    <2>2. QED
      BY <2>1 DEF Visible
  <1>7. ASSUME DemoteBlock \/ DemoteDone \/ PromoteLink \/ SwitchDone
        PROVE  UNCHANGED <<Visible, clock, used>>
    <2>1. Settled /\ Settled' /\ UNCHANGED <<main, clock, used>>
      BY <1>7 DEF DemoteBlock, DemoteDone, PromoteLink, SwitchDone, Settled
    <2>2. QED
      BY <2>1 DEF Visible
  <1>8. ASSUME PurgeDone PROVE UNCHANGED <<Visible, clock, used>>
    <2>1. phase = "purge" /\ phase' = "idle" /\ UNCHANGED <<main, clock, used>>
      BY <1>8 DEF PurgeDone
    <2>2. main = before
      BY <1>i, <2>1 DEF SwitchTrace
    <2>3. QED
      BY <2>1, <2>2 DEF Visible, Settled
  <1>9. ~ RestoreFails
    BY <1>i, NextOldBlock DEF RestoreFails, SoundInv
  <1>10. ~ StorageError /\ ~ SetClockBack
    BY DEF Reliable, StorageError, SetClockBack, Intervene
  <1>11. \/ L!Extend \/ L!Reorganise \/ L!Truncate \/ L!Interrupt \/ L!TimePasses
         \/ UNCHANGED <<Visible, clock, used>>
    BY <1>1, <1>2, <1>3, <1>4, <1>r, <1>5, <1>6, <1>7, <1>8, <1>9, <1>10
    DEF Next, HandleBlock, Continue, Switch
  <1>12. QED
    BY <1>11 DEF L!LedgerNext

(* Whoever takes the chain lock sees a ledger that grows by checked blocks, that
   a reorganisation replaces in one step by a valid one with more work that keeps
   every checkpoint, that only an operator's pop_blocks shortens, and that a crash
   at any moment of a call leaves valid and with its checkpoints: for every tree
   of blocks, over a store that works, with a clock that runs forwards and one
   difficulty algorithm in force. *)
THEOREM ChainImplementsLedger ==
    ASSUME Reliable, OneAlgorithm
    PROVE  Spec => ImplementsLedger
  <1>1. Init => SwitchTrace /\ PopTrace /\ HeightInv /\ WorkInv /\ PopAllowed /\ KeptTrace
    BY WorkInvInit, HeightInvInit DEF Init, SwitchTrace, SwitchPhases, PopTrace, PopAllowed,
                                          KeptTrace
  <1>2. RefinementInv /\ [Next]_vars
          => SwitchTrace' /\ PopTrace' /\ HeightInv' /\ WorkInv' /\ PopAllowed' /\ KeptTrace'
    BY SwitchTraceStep, PopTraceStep, HeightInvStep, WorkInvStep, PopAllowedStep, KeptTraceStep
    DEF SoundInv, RefinementInv
  <1>3. Init => L!LedgerInit
    BY DEF Init, L!LedgerInit, Visible, Settled, GenesisRow
  <1>4. RefinementInv /\ [Next]_vars => [L!LedgerNext]_<<Visible, clock, used>>
    BY LedgerStep
  <1>5. RefinementInv <=> /\ SoundInv /\ SwitchTrace /\ PopTrace /\ HeightInv /\ WorkInv
                          /\ PopAllowed /\ KeptTrace
    BY DEF RefinementInv
  <1>6. QED
    BY <1>1, <1>2, <1>3, <1>4, <1>5, SoundInvHolds, PTL DEF Spec, ImplementsLedger, L!LedgerSpec
=============================================================================
