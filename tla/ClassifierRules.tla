--------------------------- MODULE ClassifierRules ---------------------------
(***************************************************************************)
(* The rule language of the IO classifier (cas_cache/classifier.c): what a *)
(* rule text is parsed into, when a condition holds of a bio, what a rule  *)
(* and a list of rules say about it.                                       *)
(*                                                                         *)
(* A rule text is [conds, ops]: the conditions and the separators that     *)
(* follow them, "&" or "|"; a separator after the last condition is the    *)
(* trailing operator of the parser.  A condition is [token, op, arg]: op   *)
(* is "none" when no operand was given, "empty", "bad" or "long" for the   *)
(* operands the constructors refuse, the numeric operator, or "is" before  *)
(* a name.  Names, paths and inodes are numbers; inode 0 is "unresolved".  *)
(* A bio is what the tests look at: its first page, the inode behind it,   *)
(* whether that has a hashed alias, the inodes on the way up, and so on.   *)
(***************************************************************************)
EXTENDS Integers, Sequences, SequencesExt, FiniteSetsExt

CONSTANTS CoreIdMax,    \* OCF_CORE_ID_MAX
          Prefetch      \* OCF_IO_CLASS_PREFETCH

Unclassified == 0       \* OCF_IO_CLASS_UNCLASSIFIED

Name(n) == [conds |-> <<[token |-> n, op |-> "none", arg |-> 0]>>, ops |-> << >>]
NoName == [conds |-> << >>, ops |-> << >>]

PlainTokens == {"done", "metadata", "direct"}
StringTokens == {"extension", "file_name_prefix", "process_name"}
NumericTokens == {"io_class", "file_size", "core_id", "lba", "pid",
                  "file_offset", "request_size", "io_direction"}
Tokens == PlainTokens \cup StringTokens \cup NumericTokens \cup {"directory"}
NumericOps == {"eq", "ne", "lt", "gt", "le", "ge"}

(* The constructors: which operands a condition accepts.                   *)
GenericCtr(c) == c.op = "none"
NumericCtr(c) == c.op \in NumericOps
StringCtr(c) == c.op = "is"
DirectionCtr(c) == c.op = "is" /\ c.arg \in {0, 1}
DirectoryCtr(c) == c.op \in {"is", "long"}
CoreIdCtr(c) == NumericCtr(c) /\ c.arg \in 0..CoreIdMax

(* _handlers: the constructor of each token.                               *)
Accepts(c) ==
    CASE c.token \in PlainTokens -> GenericCtr(c)
      [] c.token \in StringTokens -> StringCtr(c)
      [] c.token = "directory" -> DirectoryCtr(c)
      [] c.token = "io_direction" -> DirectionCtr(c)
      [] c.token = "core_id" -> CoreIdCtr(c)
      [] OTHER -> NumericCtr(c)

CreateCondition(c) == IF c.token \notin Tokens THEN "unknown_condition"
                      ELSE IF Accepts(c) THEN "ok" ELSE "invalid_syntax"

(* _cas_cls_parse_conditions: conditions are created left to right; the    *)
(* one before a trailing operator is refused before it is created.         *)
ParseConditions(text) ==
    LET n == Len(text.conds)
        At(i) == IF i = n /\ Len(text.ops) = n THEN "invalid_syntax"
                 ELSE CreateCondition(text.conds[i])
        wrong == {i \in 1..n : At(i) # "ok"}
    IN  IF wrong = {} THEN "ok" ELSE At(Min(wrong))

(* _cas_cls_rule_create: "null" is the rule that never matches; the two    *)
(* reserved names belong to their classes alone.                           *)
RuleCreate(part, text) ==
    CASE text = NoName -> "null"
      [] text # NoName /\ part = Unclassified ->
            IF text = Name("unclassified") THEN "null" ELSE "invalid_syntax"
      [] text = Name("prefetch") /\ part # Unclassified ->
            IF part = Prefetch THEN "null" ELSE "invalid_syntax"
      [] OTHER -> IF ParseConditions(text) = "ok" THEN "rule" ELSE ParseConditions(text)

(* The list of conditions of a rule: each carries the operator that joins  *)
(* it to what stands before it, the first an "or"; a directory condition   *)
(* starts unresolved.                                                      *)
Conditions(text) ==
    [i \in 1..Len(text.conds) |->
        [cond |-> text.conds[i], ino |-> 0,
         l_op |-> IF i = 1 THEN "|" ELSE text.ops[i - 1]]]

-----------------------------------------------------------------------------
(* _cas_cls_get_bio_context: the inode is known for mapped pages only.     *)
Inode(bio) == IF bio.page = "mapped" THEN bio.inode ELSE "none"

(* _cas_cls_dir_get_inode_dentry finds none for directories.               *)
HasDentry(bio) == Inode(bio) \notin {"none", "dir"} /\ bio.alias

NumericTestU(op, val, ref) ==
    CASE op \in {"eq", "is"} -> val = ref
      [] op = "ne" -> val # ref
      [] op = "lt" -> val < ref
      [] op = "gt" -> val > ref
      [] op = "le" -> val <= ref
      [] op = "ge" -> val >= ref

(* The test functions.                                                     *)
MetadataTest(bio) == bio.page \in {"slab", "unmapped"} \/ Inode(bio) \in {"blk", "dir"}
DirectTest(bio) == bio.page = "anon"
DirectoryTest(ino, bio) == HasDentry(bio) /\ ino # 0 /\ ino \in bio.up
ExtensionTest(c, bio) == HasDentry(bio) /\ bio.ext = c.arg
FileNamePrefixTest(c, bio) == HasDentry(bio) /\ c.arg \in bio.prefixes
ProcessNameTest(c, bio) == bio.comm = c.arg
FileSizeTest(c, bio) == Inode(bio) = "file" /\ NumericTestU(c.op, bio.size, c.arg)
FileOffsetTest(c, bio) == HasDentry(bio) /\ NumericTestU(c.op, bio.offset, c.arg)
CoreIdTest(c, bio) == NumericTestU(c.op, bio.core, c.arg)
IoClassTest(c, part) == NumericTestU(c.op, part, c.arg)
LbaTest(c, bio) == NumericTestU(c.op, bio.lba, c.arg)
PidTest(c, bio) == NumericTestU(c.op, bio.pid, c.arg)
RequestSizeTest(c, bio) == NumericTestU(c.op, bio.bytes, c.arg)
RequestDirectionTest(c, bio) == NumericTestU(c.op, bio.dir, c.arg)

(* _handlers: the test of each token; part is the class found so far.      *)
Holds(k, bio, part) ==
    LET c == k.cond IN
    CASE c.token = "done" -> TRUE
      [] c.token = "metadata" -> MetadataTest(bio)
      [] c.token = "direct" -> DirectTest(bio)
      [] c.token = "directory" -> DirectoryTest(k.ino, bio)
      [] c.token = "extension" -> ExtensionTest(c, bio)
      [] c.token = "file_name_prefix" -> FileNamePrefixTest(c, bio)
      [] c.token = "process_name" -> ProcessNameTest(c, bio)
      [] c.token = "file_size" -> FileSizeTest(c, bio)
      [] c.token = "file_offset" -> FileOffsetTest(c, bio)
      [] c.token = "core_id" -> CoreIdTest(c, bio)
      [] c.token = "io_class" -> IoClassTest(c, part)
      [] c.token = "lba" -> LbaTest(c, bio)
      [] c.token = "pid" -> PidTest(c, bio)
      [] c.token = "request_size" -> RequestSizeTest(c, bio)
      [] c.token = "io_direction" -> RequestDirectionTest(c, bio)

(* A bug that keeps on testing after a failed "and".                       *)
NeverBreaks(v, k) == FALSE

(* The loop leaves a rule at an "and" that can no longer hold.             *)
BreaksAt(v, k) == ~v.yes /\ k.l_op = "&"

(* cas_cls_process_rule *)
ProcessRule(conds, bio, part) ==
    LET Step(v, k) ==
          IF v.over \/ BreaksAt(v, k) THEN [v EXCEPT !.over = TRUE]
          ELSE LET holds == Holds(k, bio, part)
               IN  [yes |-> IF k.l_op = "&" THEN holds /\ v.yes ELSE holds \/ v.yes,
                    stop |-> k.cond.token = "done",
                    over |-> k.cond.token = "done"]
    IN  FoldLeft(Step, [yes |-> FALSE, stop |-> FALSE, over |-> FALSE], conds)

-----------------------------------------------------------------------------
(* What a rule means: "|" binds tighter than "&".  The conditions between  *)
(* two "&" form a group; a rule matches when every group has a condition   *)
(* that holds, up to and including the first group that contains "done",   *)
(* which ends the classification when the groups before it match.          *)
GroupsOf(conds) ==
    LET starts == {1} \cup {i \in 2..Len(conds) : conds[i].l_op = "&"}
    IN  {{j \in i..Len(conds) : ~ \E m \in starts : i < m /\ m <= j} : i \in starts}

Meaning(conds, bio, part) ==
    LET True(g) == \E i \in g : Holds(conds[i], bio, part)
        IsDone(g) == \E i \in g : conds[i].cond.token = "done"
        groups == GroupsOf(conds)
        Before(g) == {h \in groups : Min(h) < Min(g)}
        last == {g \in groups : IsDone(g) /\ \A h \in Before(g) : True(h)}
    IN  [yes |-> last # {} \/ \A g \in groups : True(g), stop |-> last # {}]

(* What a list of rules means: the class of the last rule that matches, no *)
(* rule past the first that ends the classification counting.              *)
RECURSIVE ClassOf(_, _, _)
ClassOf(list, bio, part) ==
    IF list = << >> THEN part
    ELSE LET m == Meaning(Head(list).conds, bio, part)
             now == IF m.yes THEN Head(list).part ELSE part
         IN  IF m.stop THEN now ELSE ClassOf(Tail(list), bio, now)
=============================================================================
