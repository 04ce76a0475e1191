--------------------------- MODULE VlanFilter_proofs ---------------------------
(***************************************************************************)
(* What the vlan filter has come to when the options are read, for any     *)
(* number of options, any lists and any size of the array.                 *)
(***************************************************************************)
EXTENDS VlanFilter, TLAPS

Items == [vlans : SUBSET Vlans, flag : BOOLEAN]

\* The flag of the first option: it has an item at least, or the program ends.
FirstFlag == IF mentions = <<>> THEN flag ELSE mentions[1].flag

\* What is not named has the opposite of it, from the first option on.
Default ==
    /\ ~gotVlanFilter => mentions = <<>> /\ \A v \in Vlans : ~vlanFilter[v]
    /\ gotVlanFilter =>
          \A v \in Vlans \ {MaxVlan} : Naming(v) = {} => vlanFilter[v] = ~FirstFlag

Order ==
    /\ pc = "list" => gotVlanFilter /\ (items > 0 => mentions # <<>>)
    /\ pc \in {"options", "running"} /\ gotVlanFilter => mentions # <<>>

Inv ==
    /\ items \in Nat /\ flag \in BOOLEAN /\ gotVlanFilter \in BOOLEAN
    /\ vlanFilter \in [Vlans -> BOOLEAN]
    /\ mentions \in Seq(Items)
    /\ pc \in {"options", "list", "running", "exited"}
    /\ LastMentionWins /\ Default /\ Order

\* The invariant holds at the start.
LEMMA InitInv == Init => Inv
<1> SUFFICES ASSUME Init PROVE Inv
    OBVIOUS
<1>1. mentions = <<>> /\ ~gotVlanFilter /\ vlanFilter = [v \in Vlans |-> FALSE]
      BY DEF Init
<1>2. \A v \in Vlans : Naming(v) = {}
      BY <1>1 DEF Naming
<1>3. LastMentionWins
      BY <1>2 DEF LastMentionWins
<1>4. Default /\ Order
      BY <1>1 DEF Init, Default, Order
<1>5. mentions \in Seq(Items) /\ vlanFilter \in [Vlans -> BOOLEAN]
      BY <1>1
<1> QED BY <1>3, <1>4, <1>5 DEF Init, Inv

\* A number that is accepted is one of the array's, and so is a range.
LEMMA ReadOK ==
    ASSUME NEW number \in Numbers, Accepted(number)
    PROVE  Read(number) \in Vlans
<1>1. number \in Nat /\ Word \in Nat \ {0} /\ MaxVlan \in Nat
      BY FilterAssumption
<1>2. number % Word \in Nat
      BY <1>1
<1>3. number % Word <= MaxVlan
      BY DEF Accepted, Read
<1> QED BY <1>1, <1>2, <1>3 DEF Read, Vlans

\* An item names a set of vlans, and they get the flag of its option.
NamesVlans(set) ==
    /\ pc = "list" /\ pc' = pc
    /\ vlanFilter' = [v \in Vlans |-> IF v \in set THEN flag ELSE vlanFilter[v]]
    /\ items' = items + 1
    /\ mentions' = Append(mentions, [vlans |-> set, flag |-> flag])
    /\ UNCHANGED <<gotVlanFilter, flag>>

\* An item that is accepted names vlans of the array.
LEMMA ItemNames ==
    ASSUME Item, ~Exit(20)
    PROVE  \E set \in SUBSET Vlans : NamesVlans(set)
<1>1. PICK first \in Numbers, last \in Numbers :
        \/ /\ Accepted(first)
           /\ Mention({Read(first)})
           /\ mentions' = Append(mentions, [vlans |-> {Read(first)}, flag |-> flag])
        \/ /\ Accepted(first) /\ Accepted(last)
           /\ Mention(VlanRange(Read(first), Read(last)))
           /\ mentions' = Append(mentions, [vlans |-> Read(first) .. Read(last) \cup {Read(first)},
                                            flag |-> flag])
      BY DEF Item
<1>2. pc = "list"
      BY DEF Item
<1>3. CASE /\ Accepted(first) /\ Mention({Read(first)})
           /\ mentions' = Append(mentions, [vlans |-> {Read(first)}, flag |-> flag])
      BY <1>2, <1>3, ReadOK DEF Mention, NamesVlans
<1>4. CASE /\ Accepted(first) /\ Accepted(last)
           /\ Mention(VlanRange(Read(first), Read(last)))
           /\ mentions' = Append(mentions, [vlans |-> Read(first) .. Read(last) \cup {Read(first)},
                                            flag |-> flag])
  <2>1. VlanRange(Read(first), Read(last)) \in SUBSET Vlans
        BY <1>4, ReadOK, FilterAssumption DEF VlanRange, Vlans
  <2>2. VlanRange(Read(first), Read(last)) = Read(first) .. Read(last) \cup {Read(first)}
        BY DEF VlanRange
  <2> QED BY <1>2, <1>4, <2>1, <2>2 DEF Mention, NamesVlans
<1> QED BY <1>1, <1>3, <1>4

\* One more item, and what it names.
LEMMA ItemAppended ==
    ASSUME Inv, NEW set \in SUBSET Vlans, NamesVlans(set)
    PROVE  /\ mentions' \in Seq(Items) /\ mentions' # <<>> /\ mentions \in Seq(Items)
           /\ Len(mentions) \in Nat /\ DOMAIN mentions = 1 .. Len(mentions)
           /\ DOMAIN mentions' = 1 .. Len(mentions) + 1
           /\ mentions'[Len(mentions) + 1] = [vlans |-> set, flag |-> flag]
           /\ \A i \in DOMAIN mentions : mentions'[i] = mentions[i]
<1>1. /\ [vlans |-> set, flag |-> flag] \in Items
      /\ mentions \in Seq(Items)
      /\ mentions' = Append(mentions, [vlans |-> set, flag |-> flag])
      BY DEF Inv, Items, NamesVlans
<1> QED BY <1>1

\* One more mention is the last one of the vlans it names.
LEMMA NamingAppend ==
    ASSUME Inv, NEW set \in SUBSET Vlans, NamesVlans(set), NEW v \in Vlans
    PROVE  Naming(v)' = Naming(v) \cup (IF v \in set THEN {Len(mentions) + 1} ELSE {})
<1> DEFINE k == Len(mentions) + 1
<1>1. /\ DOMAIN mentions' = DOMAIN mentions \cup {k}
      /\ mentions'[k].vlans = set
      /\ \A i \in DOMAIN mentions : mentions'[i] = mentions[i]
  <2>1. 1 .. k = (1 .. Len(mentions)) \cup {k}
        BY ItemAppended
  <2>2. mentions'[k] = [vlans |-> set, flag |-> flag]
        BY ItemAppended
  <2>3. DOMAIN mentions = 1 .. Len(mentions) /\ DOMAIN mentions' = 1 .. k
        BY ItemAppended
  <2>4. \A i \in DOMAIN mentions : mentions'[i] = mentions[i]
        BY ItemAppended
  <2> HIDE DEF k
  <2> QED BY <2>1, <2>2, <2>3, <2>4
<1>2. Naming(v)' = {i \in DOMAIN mentions' : v \in mentions'[i].vlans}
      BY DEF Naming
<1> HIDE DEF k
<1>3. \A i : i \in Naming(v)' <=> i \in Naming(v) \/ (v \in set /\ i = k)
  <2>1. \A i : i \in Naming(v)' <=>
              (i \in DOMAIN mentions \/ i = k) /\ v \in mentions'[i].vlans
        BY <1>1, <1>2
  <2>2. \A i : i \in Naming(v) <=> i \in DOMAIN mentions /\ v \in mentions[i].vlans
        BY DEF Naming
  <2>3. k \notin DOMAIN mentions
        BY ItemAppended DEF k
  <2> QED BY <1>1, <2>1, <2>2, <2>3
<1>4. Naming(v)' = Naming(v) \cup (IF v \in set THEN {k} ELSE {})
      BY <1>3
<1> QED BY <1>4 DEF k

\* An item keeps the invariant.
LEMMA ItemInv == ASSUME Inv, NEW set \in SUBSET Vlans, NamesVlans(set) PROVE Inv'
<1>1. /\ items' \in Nat /\ vlanFilter' \in [Vlans -> BOOLEAN] /\ mentions' \in Seq(Items)
      /\ mentions' # <<>> /\ Len(mentions) \in Nat /\ mentions \in Seq(Items)
  <2>1. items' \in Nat /\ vlanFilter' \in [Vlans -> BOOLEAN]
        BY DEF Inv, NamesVlans
  <2> QED BY <2>1, ItemAppended
<1>2. LastMentionWins'
  <2> SUFFICES ASSUME NEW v \in Vlans, Naming(v)' # {}
               PROVE  \E i \in Naming(v)' : /\ \A j \in Naming(v)' : j <= i
                                            /\ vlanFilter'[v] = mentions'[i].flag
      BY DEF LastMentionWins
  <2>1. CASE v \in set
    <3>1. Naming(v)' = Naming(v) \cup {Len(mentions) + 1}
          BY <2>1, NamingAppend
    <3>2. \A j \in Naming(v) : j <= Len(mentions) + 1
          BY <1>1 DEF Naming
    <3>3. vlanFilter'[v] = mentions'[Len(mentions) + 1].flag
          BY <2>1, ItemAppended DEF NamesVlans
    <3> QED BY <1>1, <3>1, <3>2, <3>3
  <2>2. CASE v \notin set
    <3>1. Naming(v)' = Naming(v)
          BY <2>2, NamingAppend
    <3>2. PICK i \in Naming(v) : /\ \A j \in Naming(v) : j <= i
                                 /\ vlanFilter[v] = mentions[i].flag
          BY <3>1 DEF Inv, LastMentionWins
    <3>3. mentions'[i] = mentions[i]
          BY <3>2, ItemAppended DEF Naming
    <3>4. vlanFilter'[v] = vlanFilter[v]
          BY <2>2 DEF NamesVlans
    <3> QED BY <3>1, <3>2, <3>3, <3>4
  <2> QED BY <2>1, <2>2
<1>3. FirstFlag' = FirstFlag
  <2>1. CASE mentions = <<>>
    <3>1. mentions'[1] = [vlans |-> set, flag |-> flag]
          BY <2>1 DEF NamesVlans
    <3> QED BY <2>1, <3>1, <1>1 DEF FirstFlag
  <2>2. CASE mentions # <<>>
    <3>1. 1 \in DOMAIN mentions
          BY <2>2, <1>1
    <3>2. mentions'[1] = mentions[1]
          BY <3>1, ItemAppended
    <3> QED BY <2>2, <3>2, <1>1 DEF FirstFlag
  <2> QED BY <2>1, <2>2
<1>4. Default'
  <2>1. gotVlanFilter /\ gotVlanFilter'
        BY DEF Inv, Order, NamesVlans
  <2>2. ASSUME NEW v \in Vlans \ {MaxVlan}, Naming(v)' = {}
        PROVE  vlanFilter'[v] = ~FirstFlag'
    <3>1. v \notin set /\ Naming(v) = {}
          BY <2>2, NamingAppend
    <3>2. vlanFilter'[v] = vlanFilter[v]
          BY <3>1 DEF NamesVlans
    <3>3. vlanFilter[v] = ~FirstFlag
          BY <2>1, <3>1 DEF Inv, Default
    <3> QED BY <1>3, <3>2, <3>3
  <2> QED BY <2>1, <2>2 DEF Default
<1>5. Order'
      BY <1>1 DEF Inv, Order, NamesVlans
<1> QED BY <1>1, <1>2, <1>4, <1>5 DEF Inv, NamesVlans

\* The first option makes the default, another one leaves the array alone.
LEMMA OptionInv == ASSUME Inv, Option PROVE Inv'
<1>1. PICK include \in BOOLEAN :
        /\ flag' = include
        /\ vlanFilter' = [v \in Vlans |-> vlanFilter[v]
                                            \/ (StartsExcluding(include) /\ v < MaxVlan)]
      BY DEF Option
<1>2. /\ gotVlanFilter' = TRUE /\ items' = 0 /\ pc' = "list" /\ mentions' = mentions
      /\ pc = "options"
      BY DEF Option
<1>3. \A v : Naming(v)' = Naming(v)
      BY <1>2 DEF Naming
<1>4. vlanFilter' \in [Vlans -> BOOLEAN]
      BY <1>1 DEF Inv
<1>5. CASE gotVlanFilter
  <2>1. mentions # <<>> /\ FirstFlag' = FirstFlag
        BY <1>2, <1>5 DEF Inv, Order, FirstFlag
  <2>2. vlanFilter' = vlanFilter
    <3>1. \A v \in Vlans : vlanFilter'[v] = vlanFilter[v]
          BY <1>1, <1>5 DEF Inv, StartsExcluding
    <3> QED BY <1>4, <3>1 DEF Inv
  <2> QED BY <1>1, <1>2, <1>3, <1>5, <2>1, <2>2 DEF Inv, LastMentionWins, Default, Order
<1>6. CASE ~gotVlanFilter
  <2>1. mentions = <<>> /\ \A v \in Vlans : ~vlanFilter[v]
        BY <1>6 DEF Inv, Default
  <2>2. FirstFlag' = include
        BY <1>1, <1>2, <2>1 DEF FirstFlag
  <2>3. \A v \in Vlans : Naming(v) = {}
        BY <2>1 DEF Naming
  <2>4. \A v \in Vlans \ {MaxVlan} : vlanFilter'[v] = ~include
        BY <1>1, <1>6, <2>1, FilterAssumption DEF StartsExcluding, Vlans
  <2> QED BY <1>1, <1>2, <1>3, <1>4, <2>1, <2>2, <2>3, <2>4
          DEF Inv, LastMentionWins, Default, Order
<1> QED BY <1>5, <1>6 DEF Inv

\* Ends of lists and exits keep it.
LEMMA OthersInv ==
    ASSUME Inv, Exit(19) \/ Exit(20) \/ EndList \/ Run \/ UNCHANGED vars
    PROVE  Inv'
<1>1. UNCHANGED <<gotVlanFilter, vlanFilter, flag, items, mentions>>
      BY DEF Exit, EndList, Run, vars
<1>2. \/ pc' = "exited"
      \/ pc = "list" /\ items > 0 /\ pc' = "options"
      \/ pc = "options" /\ pc' = "running"
      \/ pc' = pc
      BY DEF Exit, EndList, Run, vars
<1>3. /\ \A v : Naming(v)' = Naming(v)
      /\ FirstFlag' = FirstFlag
      BY <1>1 DEF Naming, FirstFlag
<1> QED BY <1>1, <1>2, <1>3 DEF Inv, LastMentionWins, Default, Order

\* Every step keeps the invariant.
LEMMA NextInv == ASSUME Inv, [Next]_vars PROVE Inv'
<1>1. CASE Option
      BY <1>1, OptionInv
<1>2. CASE Item
  <2>1. CASE Exit(20)
        BY <2>1, OthersInv
  <2>2. CASE ~Exit(20)
        BY <1>2, <2>2, ItemNames, ItemInv
  <2> QED BY <2>1, <2>2
<1>3. CASE BadItem \/ EndList \/ Run \/ UNCHANGED vars
      BY <1>3, OthersInv DEF BadItem
<1> QED BY <1>1, <1>2, <1>3 DEF Next

\* The invariant holds in every state.
LEMMA InvCorrect == Spec => []Inv
<1>1. Init => Inv
      BY InitInv
<1>2. Inv /\ [Next]_vars => Inv'
      BY NextInv
<1> QED BY <1>1, <1>2, PTL DEF Spec

(***************************************************************************)
(* The theorems.                                                           *)
(***************************************************************************)

\* However include and exclude lists are mixed on a command line, the last item
\* that names a vlan decides what parseVlanFilter leaves for it.
THEOREM LastMentionCorrect == Spec => []LastMentionWins
<1>1. Inv => LastMentionWins
      BY DEF Inv
<1> QED BY <1>1, InvCorrect, PTL

\* The first option decides for all vlans no item names, but the array's last.
THEOREM DefaultCorrect == Spec => []DefaultFromFirstOption
<1>1. Inv => DefaultFromFirstOption
  <2> SUFFICES ASSUME Inv, pc = "running", mentions # <<>>,
                      NEW v \in Vlans \ {MaxVlan}, Naming(v) = {}
               PROVE  vlanFilter[v] = ~mentions[1].flag
      BY DEF DefaultFromFirstOption
  <2>1. gotVlanFilter
        BY DEF Inv, Default
  <2>2. FirstFlag = mentions[1].flag
        BY DEF FirstFlag
  <2>3. vlanFilter[v] = ~FirstFlag
        BY <2>1 DEF Inv, Default
  <2> QED BY <2>2, <2>3
<1> QED BY <1>1, InvCorrect, PTL

=============================================================================
