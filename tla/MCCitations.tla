------------------------------ MODULE MCCitations ------------------------------
(* Every list of two citations with a few products, every product with     *)
(* words in one or two fields, and every pair of statements of an age.     *)
EXTENDS Citations

Cite(part, section, aliases) ==
  [foreign |-> FALSE, aliases |-> aliases, part |-> part, section |-> section]

MCCitationKinds ==
  {Cite(p, "", {}) : p \in {"1261", "1303", "1278a", "1501", "1307", "1252"}}
  \cup {Cite("1303", s, {}) : s \in {"2", "7"}}
  \cup {Cite("1107", s, {}) : s \in {"21", "7"}}
  \cup {Cite("", "", {a}) : a \in ToSet(Aliases)}
  \cup {Cite("1303", "", {"ASTM F963"}), Cite("", "", {"ASTM F963", "Section 108"})}
  \cup {[Cite("", "", {}) EXCEPT !.foreign = TRUE],
        [Cite("1303", "", {"Section 101"}) EXCEPT !.foreign = TRUE]}

MCLists == UNION {[1 .. n -> MCCitationKinds] : n \in 0 .. 2}

In(place, form, months, low, high) ==
  [at |-> place, form |-> form, months |-> months, low |-> low, high |-> high]

\* Each form with an upper or a lower bound below, at and above 36 months.
Ages(places, bounds) ==
  {In(p, "low-high", m, 0, b) : p \in places, m \in BOOLEAN, b \in bounds}
  \cup {In(p, "under high", m, 0, b) : p \in places, m \in BOOLEAN, b \in bounds}
  \cup {In(p, "below high", TRUE, 0, b) : p \in places, b \in bounds}
  \cup {In(p, "low+", TRUE, b, 0) : p \in places, b \in bounds}
  \cup {In(p, "high and under", m, 0, b) : p \in places, m \in BOOLEAN, b \in bounds}

NoWords == [p \in Places |-> {}]

\* A document that gives, besides, the places where it has words or an age.
Document(listed, given, words, ages) ==
  [listed |-> listed, vision |-> TRUE, words |-> words, ages |-> ages,
   given |-> given \cup {p \in Places : words[p] # {}} \cup {ages[i].at : i \in DOMAIN ages},
   category |-> "", isToy |-> FALSE, minMonths |-> Unknown, min |-> Unknown,
   maxMonths |-> Unknown, max |-> Unknown]

Infant == In("age_grade", "low-high", TRUE, 0, 24)

\* Lists of citations, and a description to go with them or none.
Listing ==
  {[Document(l, {}, [NoWords EXCEPT !["description"] = w], a) EXCEPT !.vision = v] :
     l \in MCLists, w \in {{}, {"dresser"}, {"toy", "plush"}}, a \in {<<>>, <<Infant>>}, v \in BOOLEAN}

\* What is described in one field, and in two of them.
Described ==
  {[Document(<<>>, {}, [NoWords EXCEPT ![p] = w], <<>>) EXCEPT !.category = c, !.isToy = t] :
     p \in Places, w \in SUBSET Words, c \in {"", "other", "toy", "child care"}, t \in BOOLEAN}
  \cup {Document(<<>>, {}, [NoWords EXCEPT ![p] = {v}, ![q] = {w}], <<>>) :
          p \in Places, q \in Places, v \in Words, w \in Words}

\* One age anywhere with the tool's fields of ages, and two ages.
Aged ==
  {[Document(<<>>, {"description"}, NoWords, <<a>>)
      EXCEPT !.minMonths = f[1], !.min = f[2], !.maxMonths = f[3], !.max = f[4]] :
     a \in Ages(Places, {24, 36, 48}),
     f \in {<<Unknown, Unknown, Unknown, Unknown>>, <<0, Unknown, Unknown, Unknown>>,
            <<0, 48, Unknown, Unknown>>, <<12, 0, Unknown, 24>>, <<Unknown, Unknown, 0, 0>>}}
  \cup {Document(<<>>, {"description"}, NoWords, <<a, b>>) :
          a \in Ages({"description", "age_grade", "age", "label", "text"}, {24, 36, 48}),
          b \in Ages({"description", "age_range", "text"}, {24, 48})}

MCDocuments == Listing \cup Described \cup Aged
=============================================================================
