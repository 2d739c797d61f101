---------------------------- MODULE CatalogPage ----------------------------
(***************************************************************************)
(* parse_search_html (parser.py of the LibGen provider): the table of a    *)
(* search page is read tag by tag by _CatalogParser, an HTMLParser without *)
(* a stack of open elements, and its rows become records.                  *)
(*                                                                         *)
(* A page here is the table that the source means, with rows that may be   *)
(* damaged: an end tag is missing, or a cell holds a table of its own.     *)
(***************************************************************************)
EXTENDS Subsequences

CONSTANTS
  Pages,    \* the pages that are read
  Layouts,  \* the colspans of the two layouts: nine cells, or five with a wide first one
  Md5s,     \* well-formed md5 of the get.php links of the source's origin
  Texts,    \* texts, and links that lead elsewhere
  None

(***************************************************************************)
(* A page is [named, rows]; named if its table has the id "tablelibgen".   *)
(* A cell is [tag, span, text, href, small]: its text, inside a link if it *)
(* has an href, then small print or None.  The damage of a row is in the   *)
(* cell numbered at, except that of a missing </tr>.                       *)
(***************************************************************************)
Intact == "none"
Damages == {Intact, "nested", "open cell", "open row", "open link", "open small"}

Labels == "labels"        \* the column titles of the header row
Malformed == "malformed"  \* a text that a column does not admit

Hrefs == Md5s \union Texts

SourceCell ==
  [tag : {"td", "th"}, span : Nat, text : Texts \union {None}, href : Hrefs \union {None},
   small : Texts \union {None}]
SourceRow == [cells : Seq(SourceCell), damage : Damages, at : Nat \ {0}]
SourceTable == [named : BOOLEAN, rows : Seq(SourceRow)]

\* What the parser makes of it: _Part, _Link and _Cell, a row is a list of cells.
Part == [text : Texts, small : BOOLEAN]
Link == [href : Hrefs, text : Seq(Texts)]
Cell == [tag : {"td", "th"}, span : Nat, parts : Seq(Part), links : Seq(Link)]

ASSUME CatalogAssumption ==
  /\ Pages \subseteq SourceTable
  /\ Layouts \subseteq Seq(Nat) \ {<<>>}
  /\ {Labels, Malformed, "inner", "footer"} \subseteq Texts
  /\ None # "tablelibgen" /\ None \notin Hrefs \union Link \union Cell \union Seq(Cell)

VARIABLES
  page,
  place,    \* what is fed next: row, cell of it, step through the cell
  parser,   \* the fields of _CatalogParser
  result    \* what parse_search_html returned

pageVars == <<page, place, parser, result>>

-----------------------------------------------------------------------------
(* The page as the parser is fed with it.                                  *)

Start(tag, value) == [call |-> "start", tag |-> tag, value |-> value]
End(tag) == [call |-> "end", tag |-> tag, value |-> None]
Data(text) == [call |-> "data", tag |-> None, value |-> text]
NoToken == [call |-> "none", tag |-> None, value |-> None]
If(condition, token) == IF condition THEN token ELSE NoToken

NestedTable ==
  <<Start("table", None), Start("tr", None), Start("td", 1), Data("inner"), End("td"), End("tr"),
    End("table")>>

CellSteps == 15

CellToken(row, number, step) ==
  LET cell == row.cells[number]
      damage == IF number = row.at THEN row.damage ELSE Intact IN
  CASE step = 1 -> Start(cell.tag, cell.span)
    [] step = 2 -> If(cell.href # None, Start("a", cell.href))
    [] step = 3 -> If(cell.text # None, Data(cell.text))
    [] step = 4 -> If(cell.href # None /\ damage # "open link", End("a"))
    [] step = 5 -> If(cell.small # None, Start("font", None))
    [] step = 6 -> If(cell.small # None, Data(cell.small))
    [] step = 7 -> If(cell.small # None /\ damage # "open small", End("font"))
    [] step \in 8..14 -> If(damage = "nested", NestedTable[step - 7])
    [] step = 15 -> If(damage # "open cell", End(cell.tag))

\* Cell 0 of a row is its <tr>, the one behind the last its </tr>.
RowToken(row, number, step) ==
  IF number = 0 THEN Start("tr", None)
  ELSE IF number > Len(row.cells) THEN If(row.damage # "open row", End("tr"))
  ELSE CellToken(row, number, step)

\* Row 0 is <table>; </table> and what follows it are behind the last.
Token(p, at) ==
  IF at.row = 0 THEN Start("table", IF p.named THEN "tablelibgen" ELSE None)
  ELSE IF at.row = Len(p.rows) + 1 THEN End("table")
  ELSE IF at.row > Len(p.rows) THEN Data("footer")
  ELSE RowToken(p.rows[at.row], at.cell, at.step)

Beginning(row) == [row |-> row, cell |-> 0, step |-> 1]

After(p, at) ==
  IF at.row \notin 1..Len(p.rows) \/ at.cell > Len(p.rows[at.row].cells) THEN Beginning(at.row + 1)
  ELSE IF at.cell = 0 \/ at.step = CellSteps THEN [row |-> at.row, cell |-> at.cell + 1, step |-> 1]
  ELSE [row |-> at.row, cell |-> at.cell, step |-> at.step + 1]

-----------------------------------------------------------------------------
(* _CatalogParser: a row is a sequence of cells, a cell [tag, span, parts, *)
(* links], a part [text, small].                                           *)

NewParser ==
  [found |-> FALSE, rows |-> <<>>, depth |-> 0, row |-> None, cell |-> None, link |-> None,
   small |-> 0]

NewCell(tag, span) == [tag |-> tag, span |-> span, parts |-> <<>>, links |-> <<>>]
NewLink(href) == [href |-> href, text |-> <<>>]

\* Fault: tables inside the table are not counted.
StartTableOnce(p, value) ==
  IF value = "tablelibgen" THEN [p EXCEPT !.found = TRUE, !.depth = 1] ELSE p

StartTable(p, value) ==
  IF p.depth > 0 THEN [p EXCEPT !.depth = p.depth + 1]
  ELSE IF value = "tablelibgen" THEN [p EXCEPT !.found = TRUE, !.depth = 1]
  ELSE p

HandleStart(p, tag, value) ==
  CASE tag = "table" -> StartTable(p, value)
    [] tag = "tr" /\ p.depth > 0 /\ p.row = None -> [p EXCEPT !.row = <<>>]
    [] tag \in {"td", "th"} /\ p.depth > 0 /\ p.row # None /\ p.cell = None ->
         [p EXCEPT !.cell = NewCell(tag, value)]
    [] tag = "a" /\ p.depth > 0 /\ p.cell # None /\ p.link = None ->
         [p EXCEPT !.link = NewLink(value)]
    [] tag = "font" /\ p.depth > 0 /\ p.cell # None -> [p EXCEPT !.small = p.small + 1]
    [] OTHER -> p

EndCell(p) ==
  [p EXCEPT !.row = Append(p.row, p.cell), !.cell = None, !.link = None, !.small = 0]

EndRow(p) ==
  [p EXCEPT !.rows = Append(p.rows, p.row), !.row = None, !.cell = None, !.link = None, !.small = 0]

HandleEnd(p, tag) ==
  CASE p.depth = 0 -> p
    [] tag = "a" /\ p.depth > 0 /\ p.link # None /\ p.cell # None ->
         [p EXCEPT !.cell = [p.cell EXCEPT !.links = Append(p.cell.links, p.link)], !.link = None]
    [] tag = "font" /\ p.depth > 0 /\ p.small > 0 -> [p EXCEPT !.small = p.small - 1]
    [] tag \in {"td", "th"} /\ p.depth > 0 /\ p.cell # None /\ p.row # None -> EndCell(p)
    [] tag = "tr" /\ p.depth > 0 /\ p.row # None -> EndRow(p)
    [] tag = "table" /\ p.depth > 0 -> [p EXCEPT !.depth = p.depth - 1]
    [] OTHER -> p

HandleData(p, text) ==
  IF p.cell = None THEN p
  ELSE [p EXCEPT
          !.cell = [p.cell EXCEPT
                      !.parts = Append(p.cell.parts, [text |-> text, small |-> p.small > 0])],
          !.link = IF p.link = None THEN None
                   ELSE [p.link EXCEPT !.text = Append(p.link.text, text)]]

\* HTMLParser.feed calls the handler of each tag and text in turn.
Handle(p, token) ==
  CASE token.call = "start" -> HandleStart(p, token.tag, token.value)
    [] token.call = "end" -> HandleEnd(p, token.tag)
    [] token.call = "data" -> HandleData(p, token.value)
    [] token.call = "none" -> p

-----------------------------------------------------------------------------
(* parse_search_html, once the page was fed.                               *)

TextIn(parts, small) == \E i \in DOMAIN parts : parts[i].small = small

IsHeader(row) ==
  /\ row # <<>>
  /\ \A i \in DOMAIN row : row[i].tag = "th"
  /\ \E i \in DOMAIN row : \E j \in DOMAIN row[i].parts : row[i].parts[j].text = Labels

Supported(row) ==
  /\ \A i \in DOMAIN row : row[i].tag = "td"
  /\ [i \in DOMAIN row |-> row[i].span] \in Layouts

\* The title: the text of the links in the full layout, the large print of
\* the first cell in the other one.
HasTitle(row) ==
  IF row[1].span = 1
    THEN \E i \in DOMAIN row[1].links : row[1].links[i].text # <<>>
    ELSE TextIn(row[1].parts, FALSE)

GetLinks(row) ==
  LET links == row[Len(row)].links IN
    Selected(links, {i \in DOMAIN links : links[i].href \in Md5s})

\* _parse_record; None stands for its None and for a ValueError.  The columns
\* between title and mirrors have to be well-formed.
RecordOf(row) ==
  IF /\ Supported(row)
     /\ GetLinks(row) # <<>>
     /\ HasTitle(row)
     /\ \A i \in 2..(Len(row) - 1) : \A j \in DOMAIN row[i].parts : row[i].parts[j].text # Malformed
    THEN GetLinks(row)[1].href
    ELSE None

\* Fault: a row counts as seen although it was refused.
RecordsOfFirst(rows) ==
  LET records == [i \in DOMAIN rows |-> RecordOf(rows[i])]
      md5s == [i \in DOMAIN rows |->
                 IF Supported(rows[i]) /\ GetLinks(rows[i]) # <<>> THEN GetLinks(rows[i])[1].href
                 ELSE None] IN
    Selected(records, {i \in NewFirsts(md5s, {None}) : records[i] # None})

\* The first record of each md5.
Records(rows) ==
  LET records == [i \in DOMAIN rows |-> RecordOf(rows[i])] IN
    Selected(records, NewFirsts(records, {None}))

Drifted(rows) == rows # <<>> /\ \A i \in DOMAIN rows : ~Supported(rows[i])

Unread == [kind |-> "unread", records |-> <<>>]
LayoutError == [kind |-> "layout", records |-> <<>>]

Outcome(p) ==
  IF ~p.found \/ p.rows = <<>> THEN LayoutError
  ELSE IF ~IsHeader(p.rows[1]) \/ Drifted(Tail(p.rows)) THEN LayoutError
  ELSE [kind |-> "records", records |-> Records(Tail(p.rows))]

-----------------------------------------------------------------------------
PageInit ==
  /\ page \in Pages
  /\ place = Beginning(0)
  /\ parser = NewParser
  /\ result = Unread

Fed == place.row > Len(page.rows) + 2

Feed ==
  /\ ~Fed
  /\ place' = After(page, place)
  /\ parser' = Handle(parser, Token(page, place))
  /\ UNCHANGED <<page, result>>

Finish ==
  /\ Fed
  /\ result = Unread
  /\ result' = Outcome(parser)
  /\ UNCHANGED <<page, place, parser>>

PageNext == Feed \/ Finish

PageSpec == PageInit /\ [][PageNext]_pageVars

-----------------------------------------------------------------------------
(* What the page means.                                                    *)

Given(value, item) == IF value = None THEN <<>> ELSE <<item>>

MeantParts(cell) ==
  Given(cell.text, [text |-> cell.text, small |-> FALSE])
    \o Given(cell.small, [text |-> cell.small, small |-> TRUE])

MeantLinks(cell) ==
  Given(cell.href, [href |-> cell.href, text |-> Given(cell.text, cell.text)])

Meant(cell) ==
  [tag |-> cell.tag, span |-> cell.span, parts |-> MeantParts(cell), links |-> MeantLinks(cell)]

MeantRow(i) == [j \in DOMAIN page.rows[i].cells |-> Meant(page.rows[i].cells[j])]

\* A row that lacks its </tr> takes the next one with it.
Safe == {i \in DOMAIN page.rows :
           /\ page.rows[i].damage = Intact
           /\ i > 1 => page.rows[i - 1].damage # "open row"}

Sound == {i \in Safe : RecordOf(MeantRow(i)) # None}

(* A damaged row is damaged alone: the parser collects every other row of  *)
(* the table with exactly its cells, links and small print, in order; only *)
(* a row whose end tag is missing spoils the one that follows.  If nothing *)
(* is damaged there is nothing else among its rows.                        *)
DamageIsLocal ==
  page.named /\ result # Unread =>
    /\ \E position \in [Safe -> DOMAIN parser.rows] :
         /\ \A i, j \in Safe : i < j => position[i] < position[j]
         /\ \A i \in Safe : parser.rows[position[i]] = MeantRow(i)
    /\ Safe = DOMAIN page.rows => Len(parser.rows) = Len(page.rows)

(* A page lists the md5 of every sound row, whatever the others are like,  *)
(* once each, and an undamaged page lists nothing else, each where the     *)
(* page has it first.  A page counts as "no result", and may be remembered *)
(* as that, only if it has nothing but a header or some row of a known     *)
(* layout: a page of unknown ones is an error.                             *)
DriftIsNoAnswer ==
  result # Unread =>
    LET listed == result.records
        md5(i) == RecordOf(MeantRow(i)) IN
      /\ ~page.named => result = LayoutError
      /\ result.kind = "records" =>
           /\ \A i \in Sound : \E k \in DOMAIN listed : listed[k] = md5(i)
           /\ \A k, l \in DOMAIN listed : listed[k] = listed[l] => k = l
           /\ Safe = DOMAIN page.rows =>
                \E first \in [DOMAIN listed -> Sound] :
                  /\ \A k, l \in DOMAIN listed : k < l => first[k] < first[l]
                  /\ \A k \in DOMAIN listed :
                       listed[k] = md5(first[k]) /\ \A i \in 1..(first[k] - 1) : md5(i) # md5(first[k])
      /\ result = LayoutError /\ page.named /\ 1 \in Safe /\ IsHeader(MeantRow(1)) => Sound = {}
      /\ result = [kind |-> "records", records |-> <<>>] =>
           Len(parser.rows) = 1 \/ \E i \in DOMAIN parser.rows : Supported(parser.rows[i])
=============================================================================
