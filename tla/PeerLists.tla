----------------------------- MODULE PeerLists ------------------------------
(***************************************************************************)
(* `AddressBook` (addressbook.rs): the addresses a node knows.  A list is  *)
(* a sequence in the order `trim` and `pick` go by, the least recently     *)
(* seen first; what strangers mention counts as never seen, so the gray    *)
(* list is that hearsay in order of arrival, and then the peers that the   *)
(* white list had no room for any more, as [addr, seen] records.           *)
(* Ports, ids and seeds kept with an address are left out.                 *)
(***************************************************************************)
EXTENDS Naturals, Sequences, FiniteSets, SequencesExt

CONSTANTS
    Addr,        \* the addresses of the world, all of them listable
    HostOf,      \* HostOf[a]: the host an address is a port of
    WhiteLimit,  \* WHITE_LIMIT
    GrayLimit    \* GRAY_LIMIT

ASSUME ListsAssumption == {WhiteLimit, GrayLimit} \subseteq Nat \ {0}

White(book) == Range(book.white)
Gray(book) == {e.addr : e \in Range(book.gray)}

EmptyBook == [white |-> << >>, gray |-> << >>, anchors |-> {}, bans |-> {}]

(* `trim`: the front goes. *)
Newest(s, n) == SubSeq(s, IF Len(s) > n THEN Len(s) - n + 1 ELSE 1, Len(s))

(* What of a sequence is in S, in its order. *)
Retained(s, S) ==
    LET kept[n \in 0..Len(s)] ==
            IF n = 0 THEN << >>
            ELSE IF s[n] \in S THEN Append(kept[n - 1], s[n]) ELSE kept[n - 1]
    IN  kept[Len(s)]

(* The hearsay of a gray list, or what this node has seen. *)
Heard(gray, seen) == Retained(gray, {e \in Range(gray) : e.seen = seen})

(* `add_gray`.  Ignored if white; gray already, it keeps its place. *)
AddGray(book, a, seen) ==
    IF a \in White(book) \cup Gray(book) THEN book
    ELSE [book EXCEPT !.gray =
             Newest(IF seen THEN Append(@, [addr |-> a, seen |-> TRUE])
                    ELSE Append(Heard(@, FALSE), [addr |-> a, seen |-> FALSE])
                           \o Heard(@, TRUE), GrayLimit)]

RemoveGray(book, a) ==
    [book EXCEPT !.gray = Retained(@, {e \in Range(@) : e.addr # a})]

(* `add_white`.  White already, it moves to the end if this node has just
   seen it.  New, it takes the place of the other ports of its host, and what
   the list has no room for goes back to the gray list. *)
AddWhite(book, a, trusted) ==
    LET known == RemoveGray(book, a)
        full == Append(Retained(book.white, {b \in Addr : HostOf[b] # HostOf[a]}), a)
        listed == [known EXCEPT !.white = Newest(full, WhiteLimit)]
    IN IF a \in White(book)
       THEN [known EXCEPT !.white =
                IF trusted THEN Append(Retained(@, Addr \ {a}), a) ELSE @]
       ELSE IF Len(full) > WhiteLimit THEN AddGray(listed, full[1], TRUE) ELSE listed

(* A list added to the gray one, or to the white one, in its order. *)
GrayAll(book, list, seen) ==
    LET added[k \in 0..Len(list)] ==
            IF k = 0 THEN book ELSE AddGray(added[k - 1], list[k], seen)
    IN  added[Len(list)]

WhiteAll(book, list) ==
    LET added[k \in 0..Len(list)] ==
            IF k = 0 THEN book ELSE AddWhite(added[k - 1], list[k], TRUE)
    IN  added[Len(list)]

Admitted(book, shunned) == {a \in Addr : HostOf[a] \notin shunned \cup book.bans}

(* `merge_peerlist`: what a peer mentions is hearsay, and neither hosts that
   could not be reached lately nor banned ones are listed. *)
MergePeerlist(book, list, shunned) ==
    GrayAll(book, Retained(list, Admitted(book, shunned)), FALSE)

(* `pick`: of a host's entries in the list only the most recent can be
   chosen, and only if it is usable.  (One peer per /24 is preferred; here
   every address is in a network of its own.) *)
Pick(list, usable) ==
    {list[k] : k \in {i \in DOMAIN list :
        /\ list[i] \in usable
        /\ \A j \in DOMAIN list : j > i => HostOf[list[j]] # HostOf[list[i]]}}

GrayAddrs(book) == [k \in DOMAIN book.gray |-> book.gray[k].addr]

(* Addresses of one age, in their own order. *)
InOrder(s) == CHOOSE r \in [DOMAIN s -> Range(s)] : IsInjective(r)

(* `from_bytes` of `to_bytes`.  The lists are written by age and read back
   oldest first, each address added anew; hearsay is all of one age. *)
ReadBack(book) ==
    LET addrs(gray) == [k \in DOMAIN gray |-> gray[k].addr]
        white == WhiteAll([EmptyBook EXCEPT !.anchors = book.anchors, !.bans = book.bans],
                          book.white)
        mentioned == GrayAll(white, InOrder(addrs(Heard(book.gray, FALSE))), FALSE)
    IN  GrayAll(mentioned, addrs(Heard(book.gray, TRUE)), TRUE)
=============================================================================
