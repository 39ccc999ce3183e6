----------------------------- MODULE BlobScanner -----------------------------
(***************************************************************************)
(* BlobScanner (tools/vpux-binutils/vpux-loader/blob_scanner.hpp).  Its   *)
(* constructor walks the section headers of an ELF blob once and files     *)
(* every section with SHF_ALLOC into two MemoryRequirementsCategory        *)
(* objects: by processor (one group per entry of the processor map whose   *)
(* flag bits the section carries) and by allocation type (PROGBITS or      *)
(* NOBITS).  A category keeps, per group, the list of requirements and     *)
(* their total, and its own total, which print() reports.                  *)
(*                                                                         *)
(* Flags are sets of bits, so sh_flags & mask is an intersection; a        *)
(* section's type is PROGBITS, NOBITS or any other value.                  *)
(***************************************************************************)
EXTENDS Integers, Sequences, SequencesExt

CONSTANTS
  ALLOC,          \* the SHF_ALLOC bit
  ProcessorMap,   \* group name -> flag bits (defaultProcMap, lines 67-70)
  SectionHeaders, \* the headers a blob may contain: [flags, type, size]
  MaxSections     \* bound on reader.getSectionsNum()

VARIABLES
  blob,                       \* the blob's section headers, in index order
  sectionIdx,                 \* the loop counter of lines 83-107
  processorRequirements,      \* mProcessorRequirements
  allocationTypeRequirements  \* mAllocationTypeRequirements

vars == <<blob, sectionIdx, processorRequirements, allocationTypeRequirements>>

(* A MemoryRequirementsCategory (lines 33-61): mMap and mTotal.           *)
EmptyCategory == [map |-> <<>>, total |-> 0]

(* Mutant of line 40: mTotalGroupRequirement is not increased, so a       *)
(* group's total stays at the size of nothing.                             *)
AddRequirementToGroupsNoGroupTotal(cat, groups, req) ==
  [map |-> [g \in DOMAIN cat.map \cup groups |->
              IF g \in groups
              THEN LET old == IF g \in DOMAIN cat.map THEN cat.map[g]
                              ELSE [reqs |-> <<>>, total |-> 0]
                   IN [reqs |-> Append(old.reqs, req), total |-> old.total]
              ELSE cat.map[g]],
   total |-> cat.total + Cardinality(groups) * req.header.size]

(* addRequirementToGroup (lines 37-42) called for every group in groups:  *)
(* mMap[groupName] is created empty on first use, gets the requirement    *)
(* appended and its size added, and so does mTotal.  The calls touch      *)
(* different groups, so their order (unordered_map iteration) is moot.    *)
AddRequirementToGroups(cat, groups, req) ==
  [map |-> [g \in DOMAIN cat.map \cup groups |->
              IF g \in groups
              THEN LET old == IF g \in DOMAIN cat.map THEN cat.map[g]
                              ELSE [reqs |-> <<>>, total |-> 0]
                   IN [reqs |-> Append(old.reqs, req), total |-> old.total + req.header.size]
              ELSE cat.map[g]],
   total |-> cat.total + Cardinality(groups) * req.header.size]

(* Lines 91-95: the processor groups whose flag bits the section carries. *)
ProcessorGroups(h) == {p \in DOMAIN ProcessorMap : h.flags \cap ProcessorMap[p] # {}}

(* Lines 97-105: the allocation-type group of the section, if any.        *)
AllocationGroups(h) ==
  IF h.type = "PROGBITS" THEN {"Data (backed by blob data)"}
  ELSE IF h.type = "NOBITS" THEN {"Empty (not backed by blob data)"}
  ELSE {}

Init ==
  /\ blob \in BoundedSeq(SectionHeaders, MaxSections)
  /\ sectionIdx = 0
  /\ processorRequirements = EmptyCategory
  /\ allocationTypeRequirements = EmptyCategory

(* Mutant of line 87: the requirement records the index counted from 1.   *)
RequirementFromOne(idx, h) == [index |-> idx + 1, header |-> h]

(* Line 87: Requirement{sectionIdx, *sectionHeader}.                       *)
Requirement(idx, h) == [index |-> idx, header |-> h]

(* One iteration of the loop of lines 83-107.                              *)
ScanSection ==
  /\ sectionIdx < Len(blob)
  /\ LET h   == blob[sectionIdx + 1]
         req == Requirement(sectionIdx, h)
     IN IF ALLOC \in h.flags
        THEN /\ processorRequirements' =
                  AddRequirementToGroups(processorRequirements, ProcessorGroups(h), req)
             /\ allocationTypeRequirements' =
                  AddRequirementToGroups(allocationTypeRequirements, AllocationGroups(h), req)
        ELSE UNCHANGED <<processorRequirements, allocationTypeRequirements>>
  /\ sectionIdx' = sectionIdx + 1
  /\ UNCHANGED blob

Next == ScanSection

Spec == Init /\ [][Next]_vars

(***************************************************************************)
(* Properties.                                                             *)
(***************************************************************************)
TypeOK ==
  /\ sectionIdx \in 0 .. Len(blob)
  /\ \A cat \in {processorRequirements, allocationTypeRequirements} :
       /\ cat.total \in Nat
       /\ \A g \in DOMAIN cat.map :
            /\ cat.map[g].reqs \in Seq([index: 0 .. Len(blob) - 1, header: SectionHeaders])
            /\ cat.map[g].total \in Nat

(* The indices of the scanned SHF_ALLOC sections a group criterion takes, *)
(* in section order, and the sum of a set of sections' sizes.              *)
Taken(groupsOf(_), g) ==
  SelectSeq([i \in 1 .. sectionIdx |-> i - 1],
            LAMBDA i : ALLOC \in blob[i + 1].flags /\ g \in groupsOf(blob[i + 1]))
SizeOf(idxs) == FoldFunctionOnSet(+, 0, [i \in idxs |-> blob[i + 1].size], idxs)

(* A category's groups agree with the sections scanned so far, grouped by *)
(* groupsOf: each lists its sections in order, with their total size.      *)
GroupsMatch(cat, groupsOf(_)) ==
  /\ \A g \in DOMAIN cat.map :
       /\ cat.map[g].reqs # <<>>
       /\ [k \in DOMAIN cat.map[g].reqs |-> cat.map[g].reqs[k].index] = Taken(groupsOf, g)
       /\ cat.map[g].total = SizeOf(ToSet(Taken(groupsOf, g)))
  /\ \A i \in 0 .. sectionIdx - 1 :
       ALLOC \in blob[i + 1].flags => groupsOf(blob[i + 1]) \subseteq DOMAIN cat.map

(* The scanned SHF_ALLOC sections of type PROGBITS or NOBITS.              *)
AllocatedSections ==
  {i \in 0 .. sectionIdx - 1 : ALLOC \in blob[i + 1].flags /\ blob[i + 1].type \in {"PROGBITS", "NOBITS"}}

(* What print() reports agrees with the blob read so far: in both         *)
(* categories every group lists exactly the allocated sections of its     *)
(* kind, once each and in section order, with their total size, and no    *)
(* group is empty or missing; the by-allocation-type total is the size of *)
(* the blob's PROGBITS and NOBITS allocated sections, each counted once.   *)
(* The by-processor total is left out: a section naming two processors is *)
(* added to it once per processor, which lines 89-90 say is not handled.  *)
RequirementsMatchBlob ==
  /\ GroupsMatch(processorRequirements, ProcessorGroups)
  /\ GroupsMatch(allocationTypeRequirements, AllocationGroups)
  /\ allocationTypeRequirements.total = SizeOf(AllocatedSections)

====
