------------------------------ MODULE VlanFilter ------------------------------
(***************************************************************************)
(* The vlan filter: the options +v and -v (process_command_line), each     *)
(* with a list of vlans and ranges (parseVlanFilter).  The options of a    *)
(* command line are taken from left to right, the numbers of a list too.   *)
(***************************************************************************)
EXTENDS Naturals, FiniteSets, Sequences

CONSTANTS
    MaxVlan,      \* FILTER_MAX_VLAN: the array has one more entry
    Numbers,      \* the numbers that lists are made of
    Word,         \* 2^32: a number is kept in a word
    MaxOptions,   \* bound: options on the command line
    MaxItems      \* bound: items of a list

ASSUME FilterAssumption ==
    MaxVlan \in Nat /\ Numbers \subseteq Nat /\ Word \in Nat \ {0}
      /\ MaxOptions \in Nat /\ MaxItems \in Nat

Vlans == 0 .. MaxVlan

VARIABLES
    pc,             \* "options", "list", "running", "exited"
    gotVlanFilter,  \* whether there was such an option
    vlanFilter,     \* the array of flags
    flag,           \* of the current option: include or exclude
    options,        \* options begun
    items,          \* items of the list taken
    mentions,       \* the vlans that items gave, with the flag, in order
    exitCode

vars == <<pc, gotVlanFilter, vlanFilter, flag, options, items, mentions, exitCode>>

Init ==
    /\ pc = "options" /\ gotVlanFilter = FALSE
    /\ vlanFilter = [v \in Vlans |-> FALSE]
    /\ flag = FALSE /\ options = 0 /\ items = 0 /\ mentions = <<>>
    /\ exitCode = 0

\* An exclude list that comes first makes the default YES; the loop stops short
\* of the last entry.  Mutants: any exclude list does; none does.
StartsExcluding_Always(include) == ~include
StartsExcluding_Never(include) == FALSE
StartsExcluding(include) == ~include /\ ~gotVlanFilter

Option ==
    /\ pc = "options" /\ options < MaxOptions
    /\ \E include \in BOOLEAN :
          /\ flag' = include
          /\ vlanFilter' = [v \in Vlans |-> vlanFilter[v]
                                              \/ (StartsExcluding(include) /\ v < MaxVlan)]
    /\ gotVlanFilter' = TRUE
    /\ options' = options + 1 /\ items' = 0
    /\ pc' = "list"
    /\ UNCHANGED <<mentions, exitCode>>

Exit(code) ==
    /\ pc' = "exited" /\ exitCode' = code
    /\ UNCHANGED <<gotVlanFilter, vlanFilter, flag, options, items, mentions>>

\* strtol into a word, and testVlan.
Read(number) == number % Word
Accepted(number) == Read(number) <= MaxVlan

\* A range the wrong way round only names its first vlan.
VlanRange(first, last) == {first} \cup (first .. last)

Mention(set) ==
    /\ vlanFilter' = [v \in Vlans |-> IF v \in set THEN flag ELSE vlanFilter[v]]
    /\ items' = items + 1
    /\ UNCHANGED <<pc, gotVlanFilter, flag, options, exitCode>>

Item ==
    /\ pc = "list" /\ items < MaxItems
    /\ \E first \in Numbers, last \in Numbers :
          \/ /\ Accepted(first)
             /\ Mention({Read(first)})
             /\ mentions' = Append(mentions, [vlans |-> {Read(first)}, flag |-> flag])
          \/ /\ Accepted(first) /\ Accepted(last)
             /\ Mention(VlanRange(Read(first), Read(last)))
             /\ mentions' = Append(mentions, [vlans |-> Read(first) .. Read(last) \cup {Read(first)},
                                              flag |-> flag])
          \/ (~Accepted(first) \/ ~Accepted(last)) /\ Exit(20)

\* A list that is empty, or ends with a separator, or in which no number comes
\* where one must.
BadItem == pc = "list" /\ Exit(19)

EndList ==
    /\ pc = "list" /\ items > 0
    /\ pc' = "options"
    /\ UNCHANGED <<gotVlanFilter, vlanFilter, flag, options, items, mentions, exitCode>>

Run ==
    /\ pc = "options" /\ pc' = "running"
    /\ UNCHANGED <<gotVlanFilter, vlanFilter, flag, options, items, mentions, exitCode>>

Next == Option \/ Item \/ BadItem \/ EndList \/ Run

Spec == Init /\ [][Next]_vars

\* sampleFilterOK.
sampleFilterOK(in_vlan, out_vlan) ==
    ~gotVlanFilter \/ vlanFilter[in_vlan] \/ vlanFilter[out_vlan]

(***************************************************************************)
(* Properties.                                                             *)
(***************************************************************************)

TypeOK ==
    /\ pc \in {"options", "list", "running", "exited"}
    /\ gotVlanFilter \in BOOLEAN /\ vlanFilter \in [Vlans -> BOOLEAN] /\ flag \in BOOLEAN
    /\ options \in 0 .. MaxOptions /\ items \in 0 .. MaxItems
    /\ mentions \in Seq([vlans : SUBSET Vlans, flag : BOOLEAN])
    /\ exitCode \in {0, 19, 20}

\* What the filter says of a vlan is what the last item that names it says,
\* whatever options came before, ...
Naming(v) == {i \in DOMAIN mentions : v \in mentions[i].vlans}
LastMentionWins ==
    \A v \in Vlans : Naming(v) # {} =>
        \E i \in Naming(v) :
            /\ \A j \in Naming(v) : j <= i
            /\ vlanFilter[v] = mentions[i].flag

\* ... and of a vlan no item names, the opposite of what the first option says.
DefaultFromFirstOption ==
    pc = "running" /\ mentions # <<>> =>
        \A v \in Vlans \ {MaxVlan} : Naming(v) = {} => vlanFilter[v] = ~mentions[1].flag

=============================================================================
