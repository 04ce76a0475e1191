--------------------------- MODULE SFlowStructures ---------------------------
(***************************************************************************)
(* The decoder and the structures its readers are written for: does the    *)
(* reader of a record take what a device sends?                            *)
(*                                                                         *)
(* SFlowDecode forgets the tag of an element once its reader is chosen;    *)
(* the variable `tag`, which no step depends on, keeps it.                 *)
(***************************************************************************)
EXTENDS SFlowFixed

VARIABLE tag         \* the tag of the current element, "none" outside one

\* The tags whose reader is about to run: none for an element that is skipped.
TagsOf(table, operations) ==
    {t \in DOMAIN table : operations = table[t] \o Operation0("endElement")}

TagStep ==
    \/ eStart' = 0 /\ tag' = "none"
    \/ eStart' # 0 /\ eStart' = eStart /\ tag' = tag
    \/ /\ eStart' # 0 /\ eStart' # eStart
       /\ LET tags == TagsOf(IF kind = "flow" THEN FlowReader ELSE CounterReader, todo')
          IN  IF tags = {} THEN tag' = "none" ELSE tag' \in tags

TaggedInit == Init /\ tag = "none"
TaggedNext == Next /\ TagStep
TaggedSpec == TaggedInit /\ [][TaggedNext]_<<vars, tag>>

ConsumedAs(structure) ==
    (/\ tag \in DOMAIN structure
     /\ Running("endElement")
     /\ eLength = structure[tag])
    => datap = eStart + eLength

\* The reader of a record as long as its structure takes all of it and nothing
\* behind it, so the next element is looked for where it starts: lengthCheck of
\* counter elements, which would notice, is switched off (sflowtool.c:7500), and
\* a flow sample with a reader that takes less or more is refused (3252).
StructureConsumed == ConsumedAs(Structure)

=============================================================================
