--------------------------- MODULE MCCatalogPage ---------------------------
EXTENDS CatalogPage

CONSTANTS m1, m2

SmallMd5s == {m1, m2}
SmallTexts == {"title", "edition", "file", "get", "more", "elsewhere", "inner", "footer", Labels, Malformed}

\* Layouts of three cells, and of a wide one and one more.
SmallLayouts == {<<1, 1, 1>>, <<2, 1>>}

Shown(tag, span, text, href, small) ==
  [tag |-> tag, span |-> span, text |-> text, href |-> href, small |-> small]

Size(text) == Shown("td", 1, text, None, None)
Get(md5) == Shown("td", 1, "get", md5, None)

Header == <<Shown("th", 1, Labels, None, None), Shown("th", 1, Labels, None, None)>>
FullRow(md5) == <<Shown("td", 1, "title", "edition", "file"), Size("more"), Get(md5)>>
CompactRow(md5) == <<Shown("td", 2, "title", None, "file"), Get(md5)>>
Untitled(md5) == <<Shown("td", 1, None, "edition", "file"), Size(None), Get(md5)>>
BadRow(md5) == <<Shown("td", 1, "title", "edition", "file"), Size(Malformed), Get(md5)>>
NoMirror == <<Shown("td", 1, "title", "edition", None), Size("more"), Get("elsewhere")>>
NewLayout(md5) == <<Shown("td", 1, "title", "edition", None), Get(md5)>>

DataCells == {FullRow(m1), FullRow(m2), CompactRow(m1), Untitled(m1), BadRow(m2), NoMirror, NewLayout(m1)}
DataRows == [cells : DataCells, damage : Damages, at : {1}]
HeaderRows == [cells : {Header}, damage : {Intact, "open row", "nested"}, at : {1}]
WholeHeader == [cells |-> Header, damage |-> Intact, at |-> 1]
EmptyRow == [cells |-> <<>>, damage |-> Intact, at |-> 1]

\* Two rows behind the header, any header, no header, damage in any
\* cell, an empty row, and the table of another page.
SmallPages ==
  [named : {TRUE},
   rows : {<<h>> : h \in HeaderRows}
     \union {<<WholeHeader, a, b>> : a, b \in DataRows}
     \union {<<h, a>> : h \in HeaderRows, a \in DataRows}
     \union {<<a, b>> : a, b \in [cells : {FullRow(m1)}, damage : Damages, at : 1..3]}
     \union {<<EmptyRow>>, <<WholeHeader, EmptyRow, [WholeHeader EXCEPT !.cells = FullRow(m1)]>>}]
  \union [named : {FALSE}, rows : {<<>>, <<WholeHeader>>}]
=============================================================================
