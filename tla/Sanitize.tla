------------------------------ MODULE Sanitize ------------------------------
(***************************************************************************)
(* The helpers of internal/validate/sanitize.go: what is taken out of a    *)
(* page or a referrer before it is stored, and which decimal literals fit  *)
(* their column.                                                           *)
(*                                                                         *)
(* A text is a sequence of letters.  A letter is "?", "#", " " or "~" (a   *)
(* control character), a piece of a path, or one whole parameter of a      *)
(* query, of which the constants say how it is read: so the separator &    *)
(* is left out, and a cut falls between parameters.                        *)
(***************************************************************************)
EXTENDS Integers, Sequences, SequencesExt, Functions, Ordering

CONSTANTS
  Letters,     \* what texts and literals are made of
  Texts,       \* what may be sent as a page or a referrer
  Limits,      \* bounds a rule may pass; 0 or less is none
  Name,        \* of each parameter: its name, unescaped
  Canonical,   \* of each parameter: the spelling url.Values.Encode writes
  Broken,      \* letters with an escape that cannot be decoded, parameters with a ";"
  Rank,        \* of each name: its place in the order Encode sorts by
  Folded,      \* strings.ToLower, by name or trimmed entry
  Trimmed,     \* strings.TrimSpace, by configured entry
  Builtin,     \* builtinSensitiveParams
  Configured,  \* ingest.sensitive_query_params
  Literals,    \* the decimal literals that may be sent, as sequences of letters
  Columns      \* the columns they are for: precision and scale

Parameters == DOMAIN Name

Blank == ""

\* Encode writes what it would read and write the same, and sorts by name.
ASSUME TablesAssumption ==
  /\ {"?", "#", " ", "~"} \subseteq Letters
  /\ Parameters \subseteq Letters \ {"?", "#", " ", "~"}
  /\ Canonical \in [Parameters -> Parameters]
  /\ \A p \in Parameters :
       LET o == Canonical[p]
       IN  Name[o] = Name[p] /\ Canonical[o] = o /\ (p \notin Broken => o \notin Broken)
  /\ \A p \in Parameters : Name[p] \in DOMAIN Folded /\ Rank[Name[p]] \in Int
  /\ \A p, o \in Parameters : Rank[Name[p]] = Rank[Name[o]] => Name[p] = Name[o]
  /\ {Trimmed[n] : n \in Configured} \subseteq DOMAIN Folded
  /\ \A n \in DOMAIN Folded : Folded[n] = Blank <=> n = Blank

VARIABLES
  pc,        \* idle, called, stripping, done or judged
  raw,       \* the text sanitizeURL is called with
  limit,     \* its bound
  query,     \* url.Values: of each name, where its parameters are in the query
  unvisited, \* names the loop over the map has still to look at
  removed,   \* whether it deleted one
  answer,    \* what sanitizeURL returns
  decimal    \* a call of fitsDecimal: the literal, the column and the answer

vars == <<pc, raw, limit, query, unvisited, removed, answer, decimal>>

NoAnswer == [out |-> <<>>, stripped |-> FALSE, truncated |-> FALSE]
NoDecimal == [literal |-> <<>>, column |-> [precision |-> 0, scale |-> 0], fits |-> FALSE]

Init == /\ pc = "idle"
        /\ raw = <<>> /\ limit = 0
        /\ query = <<>> /\ unvisited = {} /\ removed = FALSE
        /\ answer = NoAnswer
        /\ decimal = NoDecimal

-----------------------------------------------------------------------------
(* Texts *)

Has(s, c) == \E i \in DOMAIN s : s[i] = c
First(s, c) == CHOOSE i \in DOMAIN s : s[i] = c /\ \A j \in 1..i - 1 : s[j] # c
\* strings.Cut
Before(s, c) == IF Has(s, c) THEN SubSeq(s, 1, First(s, c) - 1) ELSE s
After(s, c) == IF Has(s, c) THEN SubSeq(s, First(s, c) + 1, Len(s)) ELSE <<>>

\* strings.TrimSpace
TrimSpace(s) == LET marks == {i \in DOMAIN s : s[i] # " "}
                IN  IF marks = {} THEN <<>> ELSE SubSeq(s, Min(marks), Max(marks))

\* Faulty: cut one letter late.
TruncatedLate(s, bound) == IF bound <= 0 \/ Len(s) <= bound THEN s ELSE SubSeq(s, 1, bound + 1)

\* truncateRunes
Truncated(s, bound) == IF bound <= 0 \/ Len(s) <= bound THEN s ELSE SubSeq(s, 1, bound)

\* newDenylist: configured names are trimmed and lower-cased, blank ones dropped.
Denylist == Builtin \union ({Folded[Trimmed[n]] : n \in Configured} \ {Blank})

\* Faulty: the name is looked up as it was sent.
SensitiveAsSent(name) == name \in Denylist

\* denylist.has
Sensitive(name) == Folded[name] \in Denylist

-----------------------------------------------------------------------------
(* net/url, as far as stripFrom uses it *)

\* url.Parse: the fragment comes off first, then the query; a lone "?" at the
\* end is remembered as ForceQuery.
Parsed(s) ==
  LET main == Before(s, "#")
      path == Before(main, "?")
  IN  [path |-> path,
       query |-> After(main, "?"),
       forced |-> Has(main, "?") /\ After(main, "?") = <<>>,
       fragment |-> After(s, "#"),
       ok |-> /\ ~Has(main, "~")
              /\ ToSet(path) \intersect Broken = {}
              /\ ToSet(After(s, "#")) \intersect Broken = {}]

\* Where the parameters are that can be decoded: URL.Query leaves out the others.
Decodable(q) == {i \in DOMAIN q : q[i] \notin Broken}
Values(q) == [n \in {Name[q[i]] : i \in Decodable(q)} |-> {i \in Decodable(q) : Name[q[i]] = n}]

\* Faulty: the names in the order a map is ranged over, here the reverse.
EncodeUnsorted(q, values) ==
  LET kept == UNION {values[n] : n \in DOMAIN values}
      Key(i) == Rank[Name[q[i]]]
      order == {p \in kept \X kept : Key(p[1]) > Key(p[2]) \/ (Key(p[1]) = Key(p[2]) /\ p[1] <= p[2])}
  IN  [j \in 1..Cardinality(kept) |-> Canonical[q[Enumerated(kept, order)[j]]]]

\* url.Values.Encode: sorted by name, the values of a name in their order.
Encode(q, values) ==
  LET kept == UNION {values[n] : n \in DOMAIN values}
      Key(i) == Rank[Name[q[i]]]
      order == {p \in kept \X kept : Key(p[1]) < Key(p[2]) \/ (Key(p[1]) = Key(p[2]) /\ p[1] <= p[2])}
  IN  [j \in 1..Cardinality(kept) |-> Canonical[q[Enumerated(kept, order)[j]]]]

\* URL.String without a fragment.
Assembled(url, q) == IF q # <<>> \/ url.forced THEN url.path \o <<"?">> \o q ELSE url.path

ASSUME TextsAssumption ==
  /\ Texts \subseteq Seq(Letters) /\ Limits \subseteq Int
  /\ \A t \in Texts :
       LET url == Parsed(TrimSpace(t)) IN url.ok => ToSet(url.query) \subseteq Parameters

-----------------------------------------------------------------------------
(* sanitizeURL *)

\* Faulty: bounded before anything is taken out.
SubjectBounded == Truncated(TrimSpace(raw), limit)

Subject == TrimSpace(raw)

Call == /\ pc = "idle"
        /\ raw' \in Texts /\ limit' \in Limits
        /\ pc' = "called"
        /\ UNCHANGED <<query, unvisited, removed, answer, decimal>>

Parse == /\ pc = "called"
         /\ LET url == Parsed(Subject)
            IN  query' = IF url.ok THEN Values(url.query) ELSE <<>>
         /\ unvisited' = DOMAIN query'
         /\ pc' = "stripping"
         /\ UNCHANGED <<raw, limit, removed, answer, decimal>>

\* The loop looks at the names in any order, and deletes while it ranges.
Visit(name) == /\ pc = "stripping"
               /\ unvisited' = unvisited \ {name}
               /\ \/ /\ Sensitive(name)
                     /\ query' = Restrict(query, DOMAIN query \ {name})
                     /\ removed' = TRUE
                  \/ /\ ~Sensitive(name)
                     /\ UNCHANGED <<query, removed>>
               /\ UNCHANGED <<pc, raw, limit, answer, decimal>>

\* Faulty: a query is always written anew.
StrippedReencoding ==
  LET url == Parsed(Subject)
      changed == url.fragment # <<>> \/ url.query # <<>>
  IN  CASE ~url.ok -> [text |-> Before(Subject, "#"), changed |-> Has(Subject, "#")]
        [] url.ok /\ ~changed -> [text |-> Subject, changed |-> FALSE]
        [] OTHER -> [text |-> Assembled(url, Encode(url.query, query)), changed |-> TRUE]

\* stripFrom, once every name was looked at.
Stripped ==
  LET url == Parsed(Subject)
      changed == IF url.ok THEN url.fragment # <<>> \/ removed ELSE Has(Subject, "#")
      left == IF url.ok THEN Assembled(url, IF removed THEN Encode(url.query, query) ELSE url.query)
                        ELSE Before(Subject, "#")
  IN  [text |-> IF changed THEN left ELSE Subject, changed |-> changed]

Return == /\ pc = "stripping" /\ unvisited = {}
          /\ answer' = [out |-> Truncated(Stripped.text, limit),
                        stripped |-> Stripped.changed,
                        truncated |-> Truncated(Stripped.text, limit) # Stripped.text]
          /\ pc' = "done"
          /\ UNCHANGED <<raw, limit, query, unvisited, removed, decimal>>

-----------------------------------------------------------------------------
(* fitsDecimal *)

Digits == [d \in {"0", "1", "2", "3", "4", "5", "6", "7", "8", "9"} |->
             CASE d = "0" -> 0 [] d = "1" -> 1 [] d = "2" -> 2 [] d = "3" -> 3 [] d = "4" -> 4
               [] d = "5" -> 5 [] d = "6" -> 6 [] d = "7" -> 7 [] d = "8" -> 8 [] d = "9" -> 9]

\* isDigits
IsDigits(s) == s # <<>> /\ ToSet(s) \subseteq DOMAIN Digits

\* strings.TrimLeft(s, "0")
WithoutLeadingZeros(s) ==
  LET digits == {i \in DOMAIN s : s[i] # "0"}
  IN  IF digits = {} THEN <<>> ELSE SubSeq(s, Min(digits), Len(s))

\* strings.TrimPrefix(s, "-")
Unsigned(literal) == IF literal # <<>> /\ literal[1] = "-" THEN Tail(literal) ELSE literal

\* Faulty: the digits written are counted, not those the column keeps.
FitsDecimalAsWritten(literal, column) ==
  LET s == Unsigned(literal)
      int == Before(s, ".")
      frac == After(s, ".")
  IN  /\ IsDigits(int)
      /\ Has(s, ".") => IsDigits(frac)
      /\ Len(frac) <= column.scale
      /\ Len(WithoutLeadingZeros(int)) + Len(frac) <= column.precision

\* fitsDecimal
FitsDecimal(literal, column) ==
  LET s == Unsigned(literal)
      int == Before(s, ".")
      frac == After(s, ".")
  IN  /\ IsDigits(int)
      /\ Has(s, ".") => IsDigits(frac)
      /\ Len(frac) <= column.scale
      /\ Len(WithoutLeadingZeros(int)) + column.scale <= column.precision

ASSUME LiteralsAssumption ==
  /\ DOMAIN Digits \union {"-", "."} \subseteq Letters /\ Literals \subseteq Seq(Letters)
  /\ \A c \in Columns : c.precision \in Nat /\ c.scale \in 0..c.precision

Judge == /\ pc = "idle"
         /\ \E literal \in Literals, column \in Columns :
              decimal' = [literal |-> literal, column |-> column,
                          fits |-> FitsDecimal(literal, column)]
         /\ pc' = "judged"
         /\ UNCHANGED <<raw, limit, query, unvisited, removed, answer>>

Returned == pc \in {"done", "judged"} /\ UNCHANGED vars

Next == \/ Call \/ Parse \/ Return \/ Judge \/ Returned
        \/ \E name \in unvisited : Visit(name)

Spec == Init /\ [][Next]_vars

-----------------------------------------------------------------------------
(* Properties *)

\* Every variable has its type; what is bounded is no longer than its bound,
\* and is as long as that when it was cut.
TypeOK ==
  /\ pc \in {"idle", "called", "stripping", "done", "judged"}
  /\ ToSet(raw) \union ToSet(answer.out) \subseteq Letters
  /\ limit \in Limits \union {0}
  /\ unvisited \subseteq {Name[p] : p \in Parameters}
  /\ {removed, answer.stripped, answer.truncated, decimal.fits} \subseteq BOOLEAN
  /\ limit > 0 => Len(answer.out) <= limit
  /\ answer.truncated => Len(answer.out) = limit

Sent == Parsed(TrimSpace(raw))
Kept == Parsed(answer.out)
Answered == pc = "done"

\* What the denylist is for, said of the decoded name whatever its case.  A
\* blank entry names nothing.
OnList(p) == \/ Folded[Name[p]] \in Builtin
             \/ \E n \in Configured : Trimmed[n] # Blank /\ Folded[Trimmed[n]] = Folded[Name[p]]

\* What of it URL.Query shows to the loop.
MustGo(p) == p \notin Broken /\ OnList(p)

\* Whatever the order the names are looked at in, no parameter that can be
\* decoded and is on the list is stored, neither of a URL nor of one that was
\* cut, and nothing of a fragment is, even of a text that is no URL.
NothingSensitiveLeft ==
  Answered =>
    /\ After(answer.out, "#") = <<>>
    /\ ~Sent.ok => ~Has(answer.out, "#")
    /\ Sent.ok => \A i \in DOMAIN Kept.query : ~MustGo(Kept.query[i])

\* sanitize.go says of the list that it is the parameters that must never reach
\* storage.  One whose value cannot be decoded does: URL.Query leaves it out,
\* and where the loop finds nothing else to delete the query is stored as sent.
NeverReachesStorage ==
  Answered /\ Sent.ok => \A i \in DOMAIN Kept.query : ~OnList(Kept.query[i])

\* What is taken out costs nothing else: the bound is on what is left, so as
\* long as that fits, the path and every other parameter are stored, the values
\* of a name in the order they were sent.
BenignSurvives ==
  LET sent == Sent.query
      stored == Kept.query
      benign == {i \in Decodable(sent) : ~MustGo(sent[i])}
      broken == DOMAIN sent \ Decodable(sent)
  IN  /\ Answered /\ Sent.ok
      /\ limit <= 0 \/ Len(Sent.path) + 1 + Cardinality(benign) + Cardinality(broken) <= limit
      => /\ Kept.path = Sent.path
         /\ \E place \in [benign -> Decodable(stored)] :
              /\ \A j \in Decodable(stored) : \E i \in benign : place[i] = j
              /\ \A i \in benign : Canonical[stored[place[i]]] = Canonical[sent[i]]
              /\ \A i, h \in benign :
                   i < h => /\ place[i] # place[h]
                            /\ Name[sent[i]] = Name[sent[h]] => place[i] < place[h]

\* A page is a grouping key: a text with nothing to take out is stored as it
\* was sent, but for the bound, and only such a text is reported as untouched.
VerbatimUnlessStripped ==
  Answered =>
    /\ answer.stripped <=> IF Sent.ok THEN \/ Sent.fragment # <<>>
                                           \/ \E i \in DOMAIN Sent.query : MustGo(Sent.query[i])
                           ELSE Has(TrimSpace(raw), "#")
    /\ ~answer.stripped => answer.out = Truncated(TrimSpace(raw), limit)

\* And a URL that had to be written anew has one spelling, whatever order and
\* spelling its parameters were sent in and whatever order they were looked at.
OneSpelling ==
  LET q == Kept.query
  IN  Answered /\ Sent.ok /\ (\E i \in DOMAIN Sent.query : MustGo(Sent.query[i]))
      => /\ \A i \in DOMAIN q : Canonical[q[i]] = q[i]
         /\ \A i, j \in DOMAIN q : i <= j => Rank[Name[q[i]]] <= Rank[Name[q[j]]]

Number(digits) ==
  LET value[i \in 0..Len(digits)] ==
        IF i = 0 THEN 0 ELSE 10 * value[i - 1] + Digits[digits[i]]
  IN  value[Len(digits)]

TenTo(n) ==
  LET power[i \in 0..n] == IF i = 0 THEN 1 ELSE 10 * power[i - 1]
  IN  power[n]

Zeros(n) == [i \in 1..n |-> "0"]

\* A literal that is let through is a number the column stores without loss,
\* and one that is refused is not: except that a literal with more decimals
\* than the column has is refused even when those are zeros.
FitsMeansStorable ==
  LET s == Unsigned(decimal.literal)
      int == Before(s, ".")
      frac == After(s, ".")
      scale == decimal.column.scale
      wellFormed ==
        /\ s # <<>>
        /\ \A i \in DOMAIN s : s[i] \in DOMAIN Digits \/ (s[i] = "." /\ i \notin {1, Len(s)})
        /\ \A i, j \in DOMAIN s : s[i] = "." /\ s[j] = "." => i = j
  IN  pc = "judged" =>
        (decimal.fits <=> /\ wellFormed
                          /\ Len(frac) <= scale
                          /\ Number(int \o frac \o Zeros(scale - Len(frac)))
                               < TenTo(decimal.column.precision))

=============================================================================
