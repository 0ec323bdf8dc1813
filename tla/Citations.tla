------------------------------- MODULE Citations -------------------------------
(***************************************************************************)
(* What a DCE document cites against what its product requires             *)
(* (domains/dce/citation_registry.py and citation_completeness.py), the    *)
(* web verification that follows when the report is ambiguous              *)
(* (cpc_web_verify in activities/implementations.py), and the profile of   *)
(* the product that a tool of Medina derives with code of its own, from    *)
(* other fields (_extract_product_profile in activities/factory.py).       *)
(*                                                                         *)
(* The text of a document is abstracted to what the regular expressions    *)
(* tell apart: in which field which words and which statements of an age   *)
(* occur, and what each citation it lists is made of.                      *)
(***************************************************************************)
EXTENDS Integers, Sequences, FiniteSets, SequencesExt

CONSTANTS Documents,  \* the documents considered, all of DocumentKinds
          MaxQueries  \* max_queries

VARIABLES
  document,  \* the document
  pc,        \* "medina", "verify", "review" or "failed"
  told,      \* what extract_product_profile told Medina
  report,    \* the citation completeness report
  queries,   \* the queries of the web verification
  evidence   \* what the verification returned so far

vars == <<document, pc, told, report, queries, evidence>>

\* A rule of the registry is a part, or a section of it.
Part(p) == <<p, "">>

TypeOf == [r \in {Part(p) : p \in {"1261", "1303", "1278a", "1501", "1307", "1252"}}
                 \cup {<<"1107", "21">>, <<"1303", "2">>, <<"1261", "2">>} |->
  CASE r[1] \in {"1501", "1307"}       -> "conditional"
    [] r[1] = "1252"                   -> "exemption"
    [] r[1] = "1107"                   -> "procedural"
    [] r[2] = "2"                      -> "definition"
    [] OTHER                           -> "substantive"]

Rules == DOMAIN TypeOf
NoRule == <<"none", "">>

\* Other names that may occur in a citation, in the order they are tried.
Aliases == <<"Section 101", "Section 108", "ASTM F2057", "ASTM F963">>
AliasOf == [a \in ToSet(Aliases) |->
              CASE a = "Section 101" -> Part("1278a")
                [] a = "Section 108" -> Part("1307")
                [] a = "ASTM F2057"  -> Part("1261")
                [] a = "ASTM F963"   -> NoRule]

\* A citation as it is written: whether it is of another body of rules (SOR,
\* 40 CFR), the aliases that occur in it, and the part and section it names.
CitationKinds == [foreign : BOOLEAN, aliases : SUBSET ToSet(Aliases),
                  part : STRING, section : STRING]

\* The fields of the extraction; "other" stands for brand_name, Product,
\* product_type and category. "label" is what follows "Product Description:"
\* in the text of the file, and "text" is all the rest of it.
Places == {"description", "name", "other", "age_grade", "age_range", "age", "label", "text"}

\* "crib" stands for bassinet, changing table and high chair, too.
Words == {"dresser", "clothing storage", "crib", "child care article", "toy", "plush"}

\* A statement of an age: where it is, its form, whether it names months,
\* and its numbers. A date or a telephone number is a low-high of no months.
AgeForms == {"low-high", "under high", "below high", "low+", "high and under"}
Statements == [at : Places, form : AgeForms, months : BOOLEAN, low : Nat, high : Nat]

Unknown == -1
MaybeMonths == Nat \cup {Unknown}

\* given are the places that are not empty, words those that occur there,
\* and ages the statements, those of one place in their order. Then come the
\* fields of cpc_data that only the tool looks at, and vision tells whether
\* there is an extraction by vision.
Fields ==
  [listed : Seq(CitationKinds), vision : BOOLEAN, given : SUBSET Places,
   words : [Places -> SUBSET Words], ages : Seq(Statements),
   category : {"", "other", "toy", "child care"}, isToy : BOOLEAN,
   minMonths : MaybeMonths, min : MaybeMonths, maxMonths : MaybeMonths, max : MaybeMonths]

DocumentKinds ==
  {d \in Fields : /\ \A p \in Places : d.words[p] # {} => p \in d.given
                  /\ \A i \in 1 .. Len(d.ages) : d.ages[i].at \in d.given}

ASSUME CitationAssumption == Documents \subseteq DocumentKinds /\ MaxQueries \in Nat

NoReport == [provided |-> <<>>, required |-> {}, covered |-> {}, missing |-> <<>>,
             invalid |-> <<>>, nonCitable |-> <<>>, recommended |-> FALSE]
NoEvidence == [answered |-> 0, grounded |-> FALSE, error |-> FALSE]
NotTold == [childrens |-> FALSE, toy |-> FALSE, childCare |-> FALSE, source |-> ""]

Init == /\ document \in Documents
        /\ pc = "medina"
        /\ told = NotTold
        /\ report = NoReport
        /\ queries = <<>>
        /\ evidence = NoEvidence

-----------------------------------------------------------------------------
(* Lists. The code filters them in order.                                  *)

\* The k-th of the places in I.
Place(I, k) == CHOOSE i \in I : Cardinality({j \in I : j <= i}) = k

\* What s has at the places in I.
At(s, I) == [k \in 1 .. Cardinality(I) |-> s[Place(I, k)]]

\* Those of s that are in S.
Among(s, S) == At(s, {i \in 1 .. Len(s) : s[i] \in S})

-----------------------------------------------------------------------------
(* The registry.                                                           *)

\* A section the registry does not know stands for its part.
MatchPart(c) == IF <<c.part, c.section>> \in Rules THEN <<c.part, c.section>>
                ELSE IF Part(c.part) \in Rules THEN Part(c.part)
                ELSE NoRule

Occurring(c) == Among(Aliases, c.aliases)

\* Mutant of Normalize: the part is looked for before the aliases.
Normalize_partFirst(c) == CASE c.foreign              -> NoRule
                            [] ~c.foreign /\ MatchPart(c) # NoRule -> MatchPart(c)
                            [] OTHER -> IF Occurring(c) = <<>> THEN NoRule
                                        ELSE AliasOf[Head(Occurring(c))]

\* Other bodies of rules first, then the first alias, then part and section.
Normalize(c) == CASE c.foreign                          -> NoRule
                  [] ~c.foreign /\ Occurring(c) # <<>> -> AliasOf[Head(Occurring(c))]
                  [] OTHER                              -> MatchPart(c)

Citable(r) == r \in Rules /\ TypeOf[r] \in {"substantive", "conditional"}

Required(p) == {Part("1303"), Part("1278a")}
               \cup {r \in {Part("1261")} : p.category = "dresser"}
               \cup {r \in {Part("1501")} : p.age # Unknown /\ p.age < 36}
               \cup {r \in {Part("1307")} : p.toy \/ p.childCare}

\* sorted(): "15 U.S.C. 1278a" comes before the parts of 16 CFR.
Sorted == <<Part("1278a"), Part("1261"), Part("1303"), Part("1307"), Part("1501")>>

-----------------------------------------------------------------------------
(* The profiles: of the workflow, and of the tool.                         *)

\* places in the order in which a code joins them to one text.
Turn(places, p) == CHOOSE k \in 1 .. Len(places) : places[k] = p

\* The statements of these forms that the regular expressions find there.
Found(d, places, forms, unit) ==
  {i \in 1 .. Len(d.ages) : /\ d.ages[i].at \in ToSet(places)
                            /\ d.ages[i].form \in forms
                            /\ unit => d.ages[i].months}

\* re.search finds the first of them.
First(d, places, found) ==
  CHOOSE i \in found : \A j \in found :
    LET here == Turn(places, d.ages[i].at)
        there == Turn(places, d.ages[j].at)
    IN here < there \/ (here = there /\ i <= j)

\* The first that is not empty is the description, whatever it is about.
DescribedBy(d) == IF "description" \in d.given THEN "description"
                  ELSE IF "name" \in d.given THEN "name" ELSE "other"

WorkflowPlaces(d) == <<"age_grade", "age_range", "age", DescribedBy(d)>>

\* The upper bound of the first range of months, or else of "under ... months".
StatedAge(d) ==
  LET ranges == Found(d, WorkflowPlaces(d), {"low-high"}, TRUE)
      unders == Found(d, WorkflowPlaces(d), {"under high"}, TRUE)
  IN CASE ranges # {} -> d.ages[First(d, WorkflowPlaces(d), ranges)].high
       [] ranges = {} /\ unders # {} -> d.ages[First(d, WorkflowPlaces(d), unders)].high
       [] OTHER -> Unknown

WorkflowProfile(d) ==
  LET words == d.words[DescribedBy(d)]
      category == IF words \cap {"dresser", "clothing storage"} # {} THEN "dresser"
                  ELSE IF "toy" \in words THEN "toy" ELSE "unknown"
  IN [category  |-> category,
      toy       |-> category = "toy",
      childCare |-> words \cap {"dresser", "crib"} # {},
      age       |-> StatedAge(d)]

\* The tool is called with the extraction, with the text, or with both. What
\* the text labels as the description replaces that of the extraction.
Sources == {"data", "text", "both"}

ToolPlaces(d, source) ==
  LET labelled == source # "data" /\ "label" \in d.given
      fields == <<"name", "age_grade", "age_range">>
      description == IF labelled THEN "label" ELSE "description"
  IN CASE source = "data" -> <<description>> \o fields
       [] source = "both" -> <<description>> \o fields \o <<"text">>
       [] source = "text" -> IF labelled THEN <<"label", "text">> ELSE <<"text">>

\* x or y: a field that is 0 gives way to the other.
Or(x, y) == IF x \in {0, Unknown} THEN y ELSE x

FieldAges(d, source) ==
  IF source = "text" THEN [low |-> Unknown, high |-> Unknown]
  ELSE [low |-> Or(d.minMonths, d.min), high |-> Or(d.maxMonths, d.max)]

\* Four forms are tried one after the other, and only the last needs its unit.
ToolAges(d, source) ==
  LET places == ToolPlaces(d, source)
      ranges == Found(d, places, {"low-high"}, FALSE)
      unders == Found(d, places, {"under high", "below high"}, FALSE)
      froms == Found(d, places, {"low+"}, FALSE)
      tos == Found(d, places, {"high and under"}, TRUE)
      fields == FieldAges(d, source)
      one(found) == d.ages[First(d, places, found)]
  IN IF fields.low # Unknown \/ fields.high # Unknown THEN fields
     ELSE IF ranges # {} THEN [low |-> one(ranges).low, high |-> one(ranges).high]
     ELSE IF unders # {} THEN [low |-> 0, high |-> one(unders).high]
     ELSE IF froms # {} THEN [low |-> one(froms).low, high |-> Unknown]
     ELSE IF tos # {} THEN [low |-> 0, high |-> one(tos).high]
     ELSE fields

ToolWords(d, source) == UNION {d.words[p] : p \in ToSet(ToolPlaces(d, source))}

ToolCategory(d, source) ==
  LET words == ToolWords(d, source)
  IN IF source # "text" /\ d.category # "" THEN d.category
     ELSE IF words \cap {"dresser", "crib", "child care article"} # {} THEN "child care"
     ELSE IF words \cap {"toy", "plush"} # {} THEN "toy" ELSE ""

IsChildCare(d, source) == \/ ToolCategory(d, source) = "child care"
                          \/ ToolWords(d, source) \cap {"dresser", "crib"} # {}

\* A child care article is no toy, whatever the extraction says.
IsToy(d, source) == /\ \/ source # "text" /\ d.isToy
                       \/ ToolCategory(d, source) = "toy"
                    /\ ~IsChildCare(d, source)

\* Mutant of ToolProfile: an age range is judged by its lower bound.
ToolProfile_low(d, source) ==
  LET ages == ToolAges(d, source)
  IN [source    |-> source,
      childrens |-> ages.low # Unknown /\ ages.low <= 36,
      toy       |-> IsToy(d, source),
      childCare |-> IsChildCare(d, source)]

ToolProfile(d, source) ==
  LET ages == ToolAges(d, source)
  IN [source    |-> source,
      childrens |-> IF ages.high # Unknown THEN ages.high <= 36
                    ELSE ages.low # Unknown /\ ages.low <= 36,
      toy       |-> IsToy(d, source),
      childCare |-> IsChildCare(d, source)]

-----------------------------------------------------------------------------
(* The report.                                                             *)

\* Each citation once, in the order of its first occurrence.
Provided(d) ==
  At(d.listed, {i \in 1 .. Len(d.listed) : \A j \in 1 .. i - 1 : d.listed[j] # d.listed[i]})

Report(d) ==
  LET provided == Provided(d)
      required == Required(WorkflowProfile(d))
      covered == {r \in {Normalize(c) : c \in ToSet(provided)} : Citable(r)}
      invalid == Among(provided, {c \in ToSet(provided) : Normalize(c) = NoRule})
      nonCitable == Among(provided, {c \in ToSet(provided) :
                                       Normalize(c) # NoRule /\ ~Citable(Normalize(c))})
      thin == DescribedBy(d) \notin d.given \/ (provided = <<>> /\ ~d.vision)
  IN [provided    |-> provided,
      required    |-> required,
      covered     |-> covered,
      missing     |-> Among(Sorted, required \ covered),
      invalid     |-> invalid,
      nonCitable  |-> nonCitable,
      recommended |-> Len(invalid) + Len(nonCitable) > 0 \/ thin]

\* Medina may ask the tool for the profile.
AskProfile == /\ pc = "medina"
              /\ told.source = ""
              /\ \E source \in Sources : told' = ToolProfile(document, source)
              /\ UNCHANGED <<document, pc, report, queries, evidence>>

\* In the workflow, when Medina and the vision extraction have returned.
Assess == /\ pc = "medina"
          /\ report' = Report(document)
          /\ pc' = IF report'.recommended THEN "verify" ELSE "review"
          /\ UNCHANGED <<document, told, queries, evidence>>

-----------------------------------------------------------------------------
(* cpc_web_verify.                                                         *)

About(kind, s) == [i \in 1 .. Len(s) |-> [kind |-> kind, of |-> s[i]]]
Capped(s) == SubSeq(s, 1, IF Len(s) < MaxQueries THEN Len(s) ELSE MaxQueries)

\* Mutant of Questions: what is missing is asked about first.
Questions_missing(r) == Capped(About("missing", r.missing) \o About("invalid", r.invalid))

\* What is invalid is asked about first, then what is missing.
Questions(r) == Capped(About("invalid", r.invalid) \o About("missing", r.missing))

\* Nothing to ask, as when all that is ambiguous is not citable at all.
Skip == /\ pc = "verify"
        /\ Questions(report) = <<>>
        /\ pc' = "review"
        /\ UNCHANGED <<document, told, report, queries, evidence>>

\* Without the SDK or its project the questions are returned unanswered.
Unavailable == /\ pc = "verify"
               /\ queries = <<>>
               /\ Questions(report) # <<>>
               /\ queries' = Questions(report)
               /\ evidence' = [evidence EXCEPT !.error = TRUE]
               /\ pc' = "review"
               /\ UNCHANGED <<document, told, report>>

Prepare == /\ pc = "verify"
           /\ queries = <<>>
           /\ Questions(report) # <<>>
           /\ queries' = Questions(report)
           /\ UNCHANGED <<document, pc, told, report, evidence>>

\* The next question is answered with the search or, when that call raises,
\* without it.
Answered == /\ pc = "verify"
            /\ evidence.answered < Len(queries)
            /\ \E grounded \in BOOLEAN :
                 evidence' = [evidence EXCEPT !.answered = @ + 1,
                                              !.grounded = @ \/ grounded]
            /\ UNCHANGED <<document, pc, told, report, queries>>

\* The second call raises, too: the activity fails, and its answers are lost.
Raises == /\ pc = "verify"
          /\ evidence.answered < Len(queries)
          /\ evidence' = NoEvidence
          /\ pc' = "failed"
          /\ UNCHANGED <<document, told, report, queries>>

Return == /\ pc = "verify"
          /\ queries # <<>>
          /\ evidence.answered = Len(queries)
          /\ pc' = "review"
          /\ UNCHANGED <<document, told, report, queries, evidence>>

Verify == Skip \/ Unavailable \/ Prepare \/ Answered \/ Raises \/ Return

Next == AskProfile \/ Assess \/ Verify

Spec == Init /\ [][Next]_vars

-----------------------------------------------------------------------------
\* What a citation names to its reader, stated without the order in which the
\* code looks: nothing if it is foreign; else what the most preferred of its
\* aliases stands for; else the section, or the part of an unlisted section.
Names(c, r) ==
  /\ ~c.foreign
  /\ \/ \E i \in 1 .. Len(Aliases) :
          /\ Aliases[i] \in c.aliases
          /\ \A j \in 1 .. i - 1 : Aliases[j] \notin c.aliases
          /\ r = AliasOf[Aliases[i]]
     \/ /\ c.aliases = {}
        /\ r[1] = c.part
        /\ r[2] = c.section \/ (r[2] = "" /\ <<c.part, c.section>> \notin Rules)

\* The report says of every citation one thing, and of every requirement
\* whether a citation names it: a definition, an exemption or a procedure
\* covers nothing, nor does a citation spoilt by what else it mentions.
ReportIsExact ==
  pc \in {"verify", "review", "failed"} =>
    /\ \A r \in report.required :
         r \in ToSet(report.missing) <=> ~\E c \in ToSet(document.listed) : Names(c, r)
    /\ \A c \in ToSet(document.listed) :
         /\ c \in ToSet(report.invalid) <=> ~\E r \in Rules : Names(c, r)
         /\ c \in ToSet(report.nonCitable)
              <=> \E r \in Rules : Names(c, r) /\ ~Citable(r)
    /\ report.covered \cap ToSet(report.missing) = {}

\* The statements the workflow reads, and those the tool was given.
WorkflowReads(d) ==
  {d.ages[i] : i \in Found(d, WorkflowPlaces(d), {"low-high", "under high"}, TRUE)}
ToolSees(d, source) == {d.ages[i] : i \in Found(d, ToolPlaces(d, source), AgeForms, FALSE)}

\* What the document shows where the tool denies what the report requires
\* because of the product or its age, or sees a children's product for which
\* the report requires no small parts test: a field that overrides the text,
\* a description or an age in a field that only one of them reads, an age in
\* a form that only the tool reads, or statements that lie on both sides of
\* 36 months, or at it.
Explained(d, source, rules, t) ==
  LET places == ToSet(ToolPlaces(d, source))
      reads == WorkflowReads(d)
      sees == ToolSees(d, source)
      overridden == FieldAges(d, source) # [low |-> Unknown, high |-> Unknown]
  IN /\ Part("1307") \in rules /\ ~t.toy /\ ~t.childCare =>
          \/ d.category # "" /\ source # "text"
          \/ DescribedBy(d) \notin places
     /\ Part("1501") \in rules /\ ~t.childrens =>
          \/ overridden
          \/ \E s \in reads : s.high < 36 /\ s.at \notin places
          \/ \E s \in reads, u \in sees : s.high < 36 /\ u.high > 36
     /\ t.childrens /\ Part("1501") \notin rules =>
          \/ overridden
          \/ \E s \in sees : s \notin reads
          \/ \E s, u \in reads : s.high <= 36 /\ u.high >= 36

\* Two codes read one document, and where their conclusions differ one can
\* tell from the document why.
ProfilesAgree == told.source # "" /\ report # NoReport =>
                   Explained(document, told.source, report.required, told)

AskedAbout(kind) == {q.of : q \in {p \in ToSet(queries) : p.kind = kind}}

\* When the review begins, every question has its answer or the whole
\* verification reports an error; what is missing was asked about unless the
\* report was not ambiguous or the questions were at their limit, and then
\* everything invalid came first.
EvidenceIsComplete ==
  pc = "review" =>
    /\ evidence.error \/ evidence.answered = Len(queries)
    /\ Len(queries) <= MaxQueries
    /\ AskedAbout("missing") = ToSet(report.missing)
         \/ ~report.recommended \/ Len(queries) = MaxQueries
    /\ AskedAbout("missing") # {} => AskedAbout("invalid") = ToSet(report.invalid)
-----------------------------------------------------------------------------
(* The inductive invariant.                                                *)

\* The questions are those of the report, and are answered in their order.
Asked == /\ queries \in {<<>>, Questions(report)}
         /\ evidence \in [answered : Nat, grounded : BOOLEAN, error : BOOLEAN]
         /\ evidence.answered <= Len(queries)

\* What was said is what the document makes one say, and a review begins
\* with all questions asked and answered, or with an error.
IInv == /\ document \in DocumentKinds
        /\ pc \in {"medina", "verify", "review", "failed"}
        /\ told = NotTold \/ \E source \in Sources : told = ToolProfile(document, source)
        /\ report = IF pc = "medina" THEN NoReport ELSE Report(document)
        /\ Asked
        /\ pc = "medina" => queries = <<>>
        /\ pc = "review" =>
             /\ queries = Questions(report) \/ (queries = <<>> /\ ~report.recommended)
             /\ evidence.error \/ evidence.answered = Len(queries)
=============================================================================
