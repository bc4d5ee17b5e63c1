---------------------------- MODULE LocaleAlias -----------------------------
(***************************************************************************)
(* Aliases of locale names: _nl_expand_alias, read_alias_file and          *)
(* extend_alias_table of intl/localealias.c. The names of an alias file    *)
(* are the words that alias_compare tells apart; a line is read in pieces  *)
(* of the size of a buffer, and its names are in the first one.            *)
(***************************************************************************)
EXTENDS Integers, Sequences, SequencesExt, FiniteSetsExt, Functions

CONSTANTS
  AliasPaths,     \* values of LOCALE_ALIAS_PATH, as sequences of directories
  AliasFiles,     \* directory -> the lines of its locale.alias, if it has one
  WordRank,       \* word -> its rank for alias_compare
  WordLength,     \* word -> its octets, with the NUL
  FirstMap,       \* 100
  PoolStep,       \* 1024
  LookedUp,       \* the names that are expanded
  NoAlias         \* NULL

(* A line has an alias and a value, or an alias alone, or is a comment or    *)
(* blank; more is the number of further pieces; the last line of a file may  *)
(* not be ended.                                                             *)
AliasLine(alias, value, more, ended) ==
  [alias |-> alias, value |-> value, more |-> more, ended |-> ended]
Comment(more) == AliasLine(NoAlias, NoAlias, more, TRUE)

Dangling == "dangling"   \* what a pointer to none of the names points to

ASSUME AliasConstants ==
  LET Words == DOMAIN WordLength
  IN /\ FirstMap \in Nat \ {0} /\ PoolStep \in Nat \ {0}
     /\ \A w \in Words : WordLength[w] \in Nat \ {0}
     /\ Dangling \notin Words
     /\ \A d \in DOMAIN AliasFiles :
          AliasFiles[d] \in Seq([alias : Words \cup {NoAlias}, value : Words \cup {NoAlias},
                                more : Nat, ended : BOOLEAN])

VARIABLES
  path,           \* locale_alias_path as it was at first
  left,           \* directories of it that have not been looked at
  map, maxmap,    \* pointers [alias, value], and how many there is room for
  string_space,   \* [block, act, max, words]: words at their offsets
  step,           \* where the function is
  wanted,         \* name
  expanded,       \* the last result
  lines, pieces,  \* what is left of the open file, and of the line in it
  added,          \* names that the file has added
  no_core         \* a realloc failed

tableState == <<map, maxmap, string_space>>
readState  == <<lines, pieces, added>>
aliasVars == <<path, left, tableState, step, wanted, expanded, readState, no_core>>

AliasInit ==
  /\ path \in AliasPaths /\ left = path
  /\ map = <<>> /\ maxmap = 0
  /\ string_space = [block |-> 0, act |-> 0, max |-> 0, words |-> << >>]
  /\ step = "idle" /\ wanted = NoAlias /\ expanded = NoAlias
  /\ lines = <<>> /\ pieces = 0 /\ added = 0 /\ no_core = FALSE

(* What a pointer into the pool points to. *)
Pointed(p) == IF p[1] = string_space.block /\ p[2] \in DOMAIN string_space.words
            THEN string_space.words[p[2]] ELSE Dangling
RankAt(p) == IF Pointed(p) = Dangling THEN 0 ELSE WordRank[Pointed(p)]

Expand(name) ==
  /\ step = "idle" /\ step' = "look" /\ wanted' = name
  /\ UNCHANGED <<path, left, tableState, expanded, readState, no_core>>

(* bsearch finds one of the entries with the name. In a table that is not    *)
(* sorted, which a realloc that failed can leave, it may miss them.          *)
Matching == {k \in DOMAIN map : RankAt(map[k].alias) = WordRank[wanted]}
MapIsSorted == \A j, k \in DOMAIN map :
                 j < k => RankAt(map[j].alias) <= RankAt(map[k].alias)
Look ==
  /\ step = "look"
  /\ \/ \E k \in Matching : expanded' = Pointed(map[k].value) /\ step' = "idle"
     \/ /\ Matching = {} \/ ~ MapIsSorted
        /\ step' = "path" /\ UNCHANGED expanded
  /\ UNCHANGED <<path, left, tableState, wanted, readState, no_core>>

(* The next directory of the path; a file that is not there adds nothing.    *)
NextFile ==
  /\ step = "path" /\ added' = 0
  /\ IF left = <<>>
       THEN /\ step' = "idle" /\ expanded' = NoAlias
            /\ UNCHANGED <<left, lines, pieces>>
       ELSE /\ left' = Tail(left) /\ UNCHANGED <<expanded, pieces>>
            /\ IF Head(left) \in DOMAIN AliasFiles
                 THEN lines' = AliasFiles[Head(left)] /\ step' = "line"
                 ELSE UNCHANGED <<lines, step>>
  /\ UNCHANGED <<path, tableState, wanted, no_core>>

(* extend_alias_table *)
ExtendedMap == IF maxmap = 0 THEN FirstMap ELSE 2 * maxmap
(* The pool grows by a step at least; when it moves, the pointers of the     *)
(* table are moved with it.                                                  *)
Needed(line) == WordLength[line.alias] + WordLength[line.value]
NotRebased(entry, block) == entry   \* mutant of Rebased: the pointers stay

Rebased(entry, block) ==
  [alias |-> <<block, entry.alias[2]>>, value |-> <<block, entry.value[2]>>]

GrownPool(size, block) == [string_space EXCEPT !.max = size, !.block = block]

(* The names go to the end of the pool, and pointers to them into the table. *)
PutNames(line, space, table) ==
  LET value == space.act + WordLength[line.alias]
  IN /\ string_space' =
          [space EXCEPT !.act = space.act + Needed(line),
                        !.words = [o \in DOMAIN @ \cup {space.act, value} |->
                                     IF o = space.act THEN line.alias
                                     ELSE IF o = value THEN line.value ELSE @[o]]]
     /\ map' = Append(table, [alias |-> <<space.block, space.act>>,
                              value |-> <<space.block, value>>])
     /\ added' = added + 1

AddNames(line) ==
  IF string_space.act + Needed(line) <= string_space.max
    THEN PutNames(line, string_space, map)
  ELSE \E block \in string_space.block..(string_space.block + 1) :
         PutNames(line, GrownPool(string_space.max + Max({Needed(line), PoolStep}), block),
                  [k \in DOMAIN map |-> Rebased(map[k], block)])

(* The names are ended in the buffer, which hides the newline behind them    *)
(* from the search for it; a line is done when its newline is seen.          *)
NewlineSeen(line) == line.alias = NoAlias /\ line.more = 0 /\ line.ended
ReadAliasLine ==
  /\ step = "line" /\ lines # <<>>
  /\ lines' = Tail(lines) /\ pieces' = Head(lines).more
  /\ step' = IF NewlineSeen(Head(lines)) THEN "line" ELSE "skip"
  /\ IF NoAlias \in {Head(lines).alias, Head(lines).value}
       THEN UNCHANGED <<tableState, added>>
       ELSE /\ maxmap' = IF Len(map) >= maxmap THEN ExtendedMap ELSE maxmap
            /\ AddNames(Head(lines))
  /\ UNCHANGED <<path, left, wanted, expanded, no_core>>

(* A realloc fails: what has been added stays, but it is not sorted, and the *)
(* file is not closed. The first one may have succeeded before.              *)
NoCore ==
  /\ step = "line" /\ lines # <<>>
  /\ NoAlias \notin {Head(lines).alias, Head(lines).value}
  /\ \/ Len(map) >= maxmap /\ UNCHANGED maxmap
     \/ /\ string_space.act + Needed(Head(lines)) > string_space.max
        /\ maxmap' = IF Len(map) >= maxmap THEN ExtendedMap ELSE maxmap
  /\ no_core' = TRUE
  /\ step' = IF added = 0 THEN "path" ELSE "look"
  /\ UNCHANGED <<path, left, map, string_space, wanted, expanded, readState>>

(* Pieces are read until one has a newline: the rest of the line, or         *)
(* whatever comes next in the file.                                          *)
SkipPiece ==
  /\ step = "skip"
  /\ \/ pieces > 0 /\ pieces' = pieces - 1 /\ UNCHANGED lines
        /\ step' = IF pieces = 1 THEN "line" ELSE "skip"
     \/ pieces = 0 /\ lines # <<>> /\ lines' = Tail(lines)
        /\ pieces' = Head(lines).more
        /\ step' = IF Head(lines).more = 0 /\ Head(lines).ended THEN "line" ELSE "skip"
     \/ pieces = 0 /\ lines = <<>> /\ step' = "line" /\ UNCHANGED <<lines, pieces>>
  /\ UNCHANGED <<path, left, tableState, wanted, expanded, added, no_core>>

(* Mutant of Sorted: what the file has added stays at the end. *)
Unsorted == {map}

(* At the end of the file the table is sorted, if it has grown, and searched *)
(* again. qsort leaves entries that compare equal in any order.              *)
Sorted ==
  {table \in {[k \in DOMAIN map |-> map[order[k]]] : order \in Bijection(DOMAIN map, DOMAIN map)} :
     \A j, k \in DOMAIN map : j < k => RankAt(table[j].alias) <= RankAt(table[k].alias)}

CloseFile ==
  /\ step = "line" /\ lines = <<>>
  /\ IF added = 0 THEN step' = "path" /\ UNCHANGED map
     ELSE step' = "look" /\ map' \in Sorted
  /\ UNCHANGED <<path, left, maxmap, string_space, wanted, expanded, readState, no_core>>

AliasStep == Look \/ NextFile \/ ReadAliasLine \/ NoCore \/ SkipPiece \/ CloseFile
AliasNext == AliasStep \/ \E name \in LookedUp : Expand(name)
AliasSpec == AliasInit /\ [][AliasNext]_aliasVars

-----------------------------------------------------------------------------
(* A name is replaced exactly when a file on the path has an alias of it, by *)
(* the value of such a line, also when it is asked for again or the file was *)
(* read for another name (localealias.c:150-212, 346-352: "Ignore the rest   *)
(* of the line").                                                            *)
LinesFor(name) ==
  {line \in UNION {Range(AliasFiles[d]) : d \in Range(path) \cap DOMAIN AliasFiles} :
     /\ NoAlias \notin {line.alias, line.value}
     /\ WordRank[line.alias] = WordRank[name]}
AliasesAreFound ==
  step = "idle" /\ wanted # NoAlias /\ ~ no_core =>
    IF LinesFor(wanted) = {} THEN expanded = NoAlias
    ELSE \E line \in LinesFor(wanted) : expanded = line.value

(* However the pool has moved and the table has grown, each pointer is to a  *)
(* name in the block that is in use, no two to the same octets, and neither  *)
(* is over its end (localealias.c:305-342, 367-383).                         *)
Pointers == {map[k].alias : k \in DOMAIN map} \cup {map[k].value : k \in DOMAIN map}
TableIsIntact ==
  /\ Len(map) <= maxmap /\ Cardinality(Pointers) = 2 * Len(map)
  /\ \A p \in Pointers :
       /\ Pointed(p) # Dangling
       /\ p[2] + WordLength[Pointed(p)] <= string_space.act
       /\ \A q \in Pointers \ {p} : ~ (p[2] <= q[2] /\ q[2] < p[2] + WordLength[Pointed(p)])
  /\ string_space.act <= string_space.max
=============================================================================
