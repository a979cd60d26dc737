------------------------------- MODULE Skills -------------------------------
(***************************************************************************)
(* Skill files and how they are found (open_fang/skills/schema.py and      *)
(* loader.py).  A file is its lines: the front matter between two fences,  *)
(* then a body that nothing here depends on.  A line has a key, a value    *)
(* and perhaps an indent; one without a colon has the key NoColon.  Blank  *)
(* lines, comments and quotes are left out.                                *)
(*                                                                         *)
(* The files are on shelves, searched in order: curated, learned, imported *)
(* and evolved.  A value is a tuple, the empty string <<>>.  A name has a  *)
(* token in each place, so that names put together in different ways can   *)
(* be the same, as strings can; a confidence is in thousandths, and Junk   *)
(* when it is not a number.                                                *)
(***************************************************************************)
EXTENDS Integers, Sequences, FiniteSets, Functions, SequencesExt

CONSTANTS
  TokenOrder,     \* the tokens of names, in the order of their strings
  Curated,        \* the files of the shelves that nobody writes here, by path
  Imported,
  Evolved,
  MinConfidence   \* min_confidence

ASSUME SkillsAssumption ==
  /\ \A shelf \in {Curated, Imported, Evolved} : shelf \in Seq(Range(shelf))
  /\ MinConfidence \in Nat

Fence == "---"
NoColon == "no colon"
Blank == <<>>
Junk == -1

Origins == {"curated", "learned", "imported", "evolved"}

Line(key, value) == [key |-> key, value |-> value, indented |-> FALSE]
Indented(key, value) == [Line(key, value) EXCEPT !.indented = TRUE]

-----------------------------------------------------------------------------
(* parse_skill_md.                                                         *)

Put(map, key, value) ==
  [k \in DOMAIN map \cup {key} |-> IF k = key THEN value ELSE map[k]]

Get(map, key) == IF key \in DOMAIN map THEN map[key] ELSE Blank

IsFence(line) == line.key = Fence

Closed(file) ==
  /\ file # <<>> /\ IsFence(Head(file))
  /\ \E i \in 2..Len(file) : IsFence(file[i])

FrontMatter(file) ==
  LET end == CHOOSE i \in 2..Len(file) :
               IsFence(file[i]) /\ \A j \in 2..(i - 1) : ~IsFence(file[j])
  IN SubSeq(file, 2, end - 1)

\* An indented line belongs to the metadata block while it lasts, and is like
\* any other afterwards; a key that comes twice has its last value.
ReadLine(read, line) ==
  IF line.key = NoColon THEN [read EXCEPT !.bad = TRUE]
  ELSE IF read.inside /\ line.indented
       THEN [read EXCEPT !.metadata = Put(@, line.key, line.value)]
  ELSE IF line.key = "metadata" /\ line.value = Blank
       THEN [read EXCEPT !.inside = TRUE]
  ELSE [read EXCEPT !.inside = FALSE, !.data = Put(@, line.key, line.value)]

ReadLines(lines) ==
  FoldLeft(ReadLine,
           [data |-> <<>>, metadata |-> <<>>, inside |-> FALSE, bad |-> FALSE], lines)

\* origin takes the nested value when the other is absent or empty, confidence
\* only when it is absent.  An empty confidence is none.
OriginOf(read) ==
  IF Get(read.data, "origin") = Blank THEN Get(read.metadata, "origin")
  ELSE read.data["origin"]

ConfidenceOf(read) ==
  IF "confidence" \in DOMAIN read.data THEN read.data["confidence"]
  ELSE Get(read.metadata, "confidence")

FrontMatterOk(read) ==
  /\ ~read.bad
  /\ {"name", "description"} \subseteq DOMAIN read.data
  /\ OriginOf(read) # Blank /\ OriginOf(read)[1] \in Origins
  /\ ConfidenceOf(read) # Blank => ConfidenceOf(read)[1] \in 0..1000
  /\ OriginOf(read)[1] \in {"learned", "evolved"} => ConfidenceOf(read) # Blank

Parses(file) == Closed(file) /\ FrontMatterOk(ReadLines(FrontMatter(file)))

Parsed(file) ==
  LET read == ReadLines(FrontMatter(file))
  IN [name |-> read.data["name"], description |-> read.data["description"],
      origin |-> OriginOf(read)[1], confidence |-> ConfidenceOf(read)]

-----------------------------------------------------------------------------
(* SkillLoader.                                                            *)

Rank(token) == CHOOSE i \in DOMAIN TokenOrder : TokenOrder[i] = token

Before(m, n) ==
  \/ Len(m) < Len(n) /\ m = SubSeq(n, 1, Len(m))
  \/ \E i \in DOMAIN m \cap DOMAIN n :
       Rank(m[i]) < Rank(n[i]) /\ SubSeq(m, 1, i - 1) = SubSeq(n, 1, i - 1)

Sorted(names) ==
  [k \in 1..Cardinality(names) |->
     CHOOSE n \in names : Cardinality({m \in names : Before(m, n)}) = k - 1]

\* The four locations, the learned one being as it is on disk.
SearchPaths(learned) ==
  LET names == Sorted(DOMAIN learned)
  IN Curated \o [i \in DOMAIN names |-> learned[names[i]]] \o Imported \o Evolved

Passes(skill) ==
  skill.origin \in {"curated", "imported"} \/ skill.confidence[1] >= MinConfidence

\* Faulty variant: a name counts as seen also when its skill is dropped.
LoadOneSeenFirst(result, file) ==
  IF ~Parses(file) THEN [result EXCEPT !.errors = Append(@, file)]
  ELSE LET skill == Parsed(file)
       IN IF skill.name \in result.seen THEN result
          ELSE IF ~Passes(skill) THEN [result EXCEPT !.seen = @ \cup {skill.name}]
          ELSE [result EXCEPT !.seen = @ \cup {skill.name}, !.skills = Append(@, skill)]

LoadOne(result, file) ==
  IF ~Parses(file) THEN [result EXCEPT !.errors = Append(@, file)]
  ELSE LET skill == Parsed(file)
       IN IF skill.name \in result.seen \/ ~Passes(skill) THEN result
          ELSE [result EXCEPT !.seen = @ \cup {skill.name}, !.skills = Append(@, skill)]

Load(files) == FoldLeft(LoadOne, [skills |-> <<>>, errors |-> <<>>, seen |-> {}], files)

-----------------------------------------------------------------------------
(* Properties.                                                             *)

Usable(file) == Parses(file) /\ Passes(Parsed(file))

\* Under each name there is the first skill on the shelves that can be used, and
\* no other: one that does not parse or is not sure enough hides nothing.
FirstUsable(files, skills) ==
  LET usable == {i \in DOMAIN files : Usable(files[i])}
      first == {i \in usable : \A j \in usable :
                  Parsed(files[j]).name = Parsed(files[i]).name => i <= j}
  IN /\ Len(skills) = Cardinality(first)
     /\ \A i \in first : \E k \in DOMAIN skills : skills[k] = Parsed(files[i])
=============================================================================
