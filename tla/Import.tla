-------------------------------- MODULE Import --------------------------------
(***************************************************************************)
(* CSV import: pick_and_parse of src/import_flow.rs with the parser of     *)
(* vaults-bridge-import, one step per character of the file.  A file is a  *)
(* sequence of characters: q (quote), c (comma), n (line feed), r (carriage *)
(* return), s (blank), any other string stands for itself (a column's name *)
(* is one character, "long" is a text over every field's cap), and "w" for *)
(* the URL text of the variable url.                                       *)
(***************************************************************************)
EXTENDS Naturals, Sequences, FiniteSets, SequencesExt, Origin

CONSTANTS MaxText,   \* bound on the arbitrary text after the header
          MaxHost,   \* bound on a host's characters
          MaxBytes   \* the import's cap on a file

ASSUME ImportAssumption == {MaxText, MaxHost, MaxBytes} \subseteq Nat

VARIABLES file, url,    \* the chosen file and the URL it mentions
          table,        \* history: the rows the file was written from
          phase,        \* where pick_and_parse is
          chars,        \* RowIter's chars
          fields, cur, in_quotes, saw_any, \* locals of next()
          rows,         \* history: the rows next() has returned
          source, mapping, records, \* locals of parse
          pending       \* the staged items

iter == <<chars, fields, cur, in_quotes, saw_any>>
parser == <<source, mapping, records>>
input == <<file, url, table>>
vars == <<input, phase, iter, rows, parser, pending>>

Blank == {"s", "n", "r"}

Trim(f) == LET keep == {i \in DOMAIN f : f[i] \notin Blank}
           IN IF keep = {} THEN <<>> ELSE SubSeq(f, Min(keep), Max(keep))

Lower(ch) == CASE ch = "Title" -> "title" [] ch = "URL" -> "url" [] ch = "Url" -> "url"
               [] ch = "Username" -> "username" [] ch = "Password" -> "password"
               [] ch = "Notes" -> "notes" [] OTHER -> ch

Names(header) == [i \in DOMAIN header |-> LET t == Trim(header[i])
                                          IN [j \in DOMAIN t |-> Lower(t[j])]]

(* The signatures in the order they are tried.                             *)
Signatures ==
  << <<"Google", {"name", "url", "username", "password", "note"}>>,
     <<"Proton", {"name", "url", "password", "email"}>>,
     <<"Proton", {"name", "url", "password", "note"}>>,
     <<"OnePassword", {"title", "url", "username", "password", "notes"}>>,
     <<"Bitwarden", {"login_uri", "login_username", "login_password"}>>,
     <<"AppleKeychain", {"title", "url", "username", "password"}>>,
     <<"Lastpass", {"url", "username", "password", "extra", "grouping"}>>,
     <<"Generic", {"url", "username", "password"}>> >>

detect_source(header) ==
  LET has(needle) == <<needle>> \in Range(Names(header))
      hits == {i \in DOMAIN Signatures : \A needle \in Signatures[i][2] : has(needle)}
  IN IF hits = {} THEN "None" ELSE Signatures[Min(hits)][1]

(* The names to look for, in the order of the or_else.                     *)
Columns(name, link, username, password, notes) ==
  [name |-> name, url |-> link, username |-> username, password |-> password,
   notes |-> notes]

(* Mutant: LastPass is read like the others.                               *)
LastpassNotesPlain == <<"notes", "note">>

(* LastPass keeps its notes in "extra".                                    *)
LastpassNotes == <<"extra">>

ColumnNames(src) ==
  CASE src = "Google" -> Columns(<<"name">>, <<"url">>, <<"username">>, <<"password">>, <<"note">>)
    [] src = "Proton" -> Columns(<<"name">>, <<"url">>, <<"username", "email">>,
                                 <<"password">>, <<"note", "notes">>)
    [] src \in {"OnePassword", "AppleKeychain"} ->
         Columns(<<"title">>, <<"url">>, <<"username">>, <<"password">>, <<"notes">>)
    [] src = "Bitwarden" -> Columns(<<"name">>, <<"login_uri">>, <<"login_username">>,
                                    <<"login_password">>, <<"notes">>)
    [] src = "Lastpass" -> Columns(<<"name">>, <<"url">>, <<"username">>, <<"password">>,
                                   LastpassNotes)
    [] src = "Generic" -> Columns(<<"name", "title">>, <<"url">>, <<"username">>,
                                  <<"password">>, <<"notes", "note">>)

(* find: the first column of that name, 0 if there is none.                *)
Find(header, needles) ==
  LET at(needle) == {i \in DOMAIN header : Names(header)[i] = <<needle>>}
      found == SelectSeq(needles, LAMBDA needle : at(needle) # {})
  IN IF found = <<>> THEN 0 ELSE Min(at(Head(found)))

column_mapping(src, header) ==
  LET names == ColumnNames(src) IN [k \in DOMAIN names |-> Find(header, names[k])]

(* What a url field says: the file's URL, nothing, or a word without dots. *)
TextOf(field) ==
  CASE Trim(field) = <<"w">> -> url
    [] Trim(field) = <<>>    -> UrlText("", <<>>, NoPort)
    [] OTHER                 -> UrlText("", <<"x">>, NoPort)

(* Mutant: the port is lost.                                               *)
WrittenNoPort(u) == UrlText(u.scheme, u.host, NoPort)

(* scheme://host[:port]                                                    *)
Written(u) == UrlText(u.scheme, u.host, u.port)

HasDot(text) == Dots(text.host) # {} \/ text.path = "dotted"

(* canonicalise_origin: the URL's origin; other text with a dot and no     *)
(* blank, wherever they are, gets https; any other stays as it is.         *)
canonicalise_origin(raw) ==
  LET u == UrlParse(raw)
  IN CASE u.ok /\ u.host # None -> Written(u)
       [] ~(u.ok /\ u.host # None) /\ HasDot(raw) /\ raw.blank = "none" ->
            [raw EXCEPT !.scheme = "https"]
       [] OTHER -> raw

build_record(row, m) ==
  LET pick(i) == IF i \in DOMAIN row THEN row[i] ELSE <<>>
  IN [origin |-> canonicalise_origin(TextOf(pick(m.url))), username |-> pick(m.username),
      password |-> pick(m.password), label |-> pick(m.name), notes |-> pick(m.notes)]

AllEmpty(row) == \A i \in DOMAIN row : row[i] = <<>>
-----------------------------------------------------------------------------
(* The files that are tried.                                               *)

(* How a spreadsheet writes a row: fields with special characters quoted.  *)
WriteField(f, quoteAll) ==
  LET doubled == FlattenSeq([i \in DOMAIN f |-> IF f[i] = "q" THEN <<"q", "q">> ELSE <<f[i]>>])
  IN IF quoteAll \/ Range(f) \cap {"q", "c", "n", "r"} # {} THEN <<"q">> \o doubled \o <<"q">>
     ELSE f

WriteRow(row, quoteAll) ==
  FlattenSeq([i \in DOMAIN row |-> (IF i = 1 THEN <<>> ELSE <<"c">>) \o WriteField(row[i], quoteAll)])

WriteTable(t, quoteAll, eol, trailing) ==
  FlattenSeq([i \in DOMAIN t |-> WriteRow(t[i], quoteAll)
                                 \o (IF i < Len(t) \/ trailing THEN eol ELSE <<>>)])

Header == << <<"url">>, <<"username">>, <<"password">> >>
EndsOfLine == {<<"n">>, <<"r", "n">>, <<"r">>}
Values == {<<>>, <<"x">>, <<"q">>, <<"q", "q">>, <<"c">>, <<"n">>, <<"r", "n">>, <<"s">>,
           <<"x", "q">>, <<"long">>}

Tables == { <<Header, <<<<"w">>, a, b>>, <<<<"w">>, <<"x">>, <<"x">>>> >> : a, b \in Values }
            \cup { <<Header, <<<<"w">>, a, <<>>>> >> : a \in Values }

Documented ==
  { [header |-> <<"name", "url", "username", "password", "note">>,
     columns |-> Columns("name", "url", "username", "password", "note")],
    [header |-> <<"name", "url", "email", "username", "password", "note">>,
     columns |-> Columns("name", "url", "username", "password", "note")],
    [header |-> <<"Title", "Url", "Username", "Password", "OTPAuth", "Tags", "Notes">>,
     columns |-> Columns("title", "url", "username", "password", "notes")],
    [header |-> <<"folder", "type", "name", "notes", "login_uri", "login_username",
                  "login_password", "login_totp">>,
     columns |-> Columns("name", "login_uri", "login_username", "login_password", "notes")],
    [header |-> <<"Title", "URL", "Username", "Password", "Notes", "OTPAuth">>,
     columns |-> Columns("title", "url", "username", "password", "notes")],
    [header |-> <<"url", "username", "password", "totp", "extra", "name", "grouping", "fav">>,
     columns |-> Columns("name", "url", "username", "password", "extra")],
    [header |-> <<"name", "url", "username", "password", "notes">>,
     columns |-> Columns("name", "url", "username", "password", "notes")] }

(* The header with its columns in either order and a row in which each     *)
(* field says the name of its column.                                      *)
DocumentedTable(d, backwards, padded) ==
  LET h == IF backwards THEN Reverse(d.header) ELSE d.header
      field(i) == LET name == Lower(h[i])
                  IN IF name = d.columns.url THEN <<"w">> ELSE <<name>>
  IN << [i \in DOMAIN h |-> IF padded THEN <<"s", h[i], "s">> ELSE <<h[i]>>],
        [i \in DOMAIN h |-> field(i)] >>

Texts == { t \in [scheme : {"https", "http", "ftp", ""},
                  host : {<<"a", ".", "u">>, <<"c", ".", "a", ".", "u">>, <<"a">>,
                          <<"long", ".", "u">>},
                  port : {NoPort, 80, 443, 8443},
                  upper : BOOLEAN, user : BOOLEAN,
                  path : {"none", "plain", "dotted"}, blank : {"none", "host", "path"}] :
             t.blank = "path" => t.path # "none" }

(* The addresses of pages: browsers show no blanks, and the path is lost.  *)
Pages == {t \in Texts : t.path = "none" /\ t.blank = "none"}

Hosts == { h \in SeqOf({"a", "c", "u", "."}, MaxHost) :
             h # <<>> /\ \A i \in DOMAIN Labels(h) : Labels(h)[i] # <<>> }
           \cup {<<"1", ".", "1", ".", "1", ".", "1">>, <<"[", ":", ":", "1", "]">>}

ThisUrl == UrlText("https", <<"a", ".", "u">>, NoPort)
UrlTable == <<Header, <<<<"w">>, <<"x">>, <<"x">>>> >>
UrlFile == WriteTable(UrlTable, FALSE, <<"n">>, TRUE)

InitFile ==
  \/ /\ url = ThisUrl /\ table = <<>>
     /\ \/ \E text \in SeqOf({"q", "c", "n", "r", "x"}, MaxText) :
             file = WriteTable(<<Header>>, FALSE, <<"n">>, TRUE) \o text
        \/ file \in {<<>>, <<"n">>, <<"bad">>, [i \in 1..(MaxBytes + 1) |-> "x"]}
  \/ /\ url = ThisUrl
     /\ \E quoteAll, trailing \in BOOLEAN, eol \in EndsOfLine, bom \in {<<>>, <<"bom">>} :
          /\ \/ bom = <<>> /\ table \in Tables
             \/ \E d \in Documented, backwards, padded \in BOOLEAN :
                  table = DocumentedTable(d, backwards, padded)
          /\ file = bom \o WriteTable(table, quoteAll, eol, trailing)
  \/ /\ table = UrlTable /\ file = UrlFile
     /\ \/ url \in Texts
        \/ \E h \in Hosts : url = UrlText("https", h, NoPort)

Init == /\ InitFile
        /\ phase = "pick" /\ chars = <<>>
        /\ fields = <<>> /\ cur = <<>> /\ in_quotes = FALSE /\ saw_any = FALSE
        /\ rows = <<>>
        /\ source = "None" /\ mapping = column_mapping("Generic", <<>>) /\ records = <<>>
        /\ pending = <<>>
-----------------------------------------------------------------------------
(* The user cancels the picker, or picking or reading fails.               *)
PickFails == /\ phase = "pick" /\ phase' = "closed"
             /\ UNCHANGED <<input, iter, rows, parser, pending>>

TooLarge == Len(file) > MaxBytes

StripBom(bytes) == IF Head(bytes) = "bom" THEN Tail(bytes) ELSE bytes

(* The file is read; too large, empty and non-UTF-8 files are refused.     *)
Open == /\ phase = "pick"
        /\ IF TooLarge \/ file = <<>> \/ "bad" \in Range(file)
           THEN phase' = "error" /\ UNCHANGED chars
           ELSE phase' = "next" /\ chars' = StripBom(file)
        /\ UNCHANGED <<input, fields, cur, in_quotes, saw_any, rows, parser, pending>>

(* next() returns a row.                                                   *)
Return(row) == phase' = "row" /\ fields' = row /\ rows' = Append(rows, row)

GoOn == UNCHANGED <<phase, rows>>

Following(ch) == Len(chars) > 1 /\ chars[2] = ch

(* Mutant: a doubled quote closes the field and opens it again.            *)
ReadQuotedNoEscape ==
  /\ phase = "next" /\ in_quotes /\ chars # <<>> /\ saw_any' = TRUE
  /\ chars' = Tail(chars)
  /\ IF Head(chars) = "q" THEN in_quotes' = FALSE /\ UNCHANGED cur
     ELSE cur' = Append(cur, Head(chars)) /\ UNCHANGED in_quotes
  /\ GoOn /\ UNCHANGED <<input, fields, parser, pending>>

(* A character inside quotes; a doubled quote is one of the field's own.   *)
ReadQuoted ==
  /\ phase = "next" /\ in_quotes /\ chars # <<>> /\ saw_any' = TRUE
  /\ \/ /\ Head(chars) = "q" /\ Following("q")
        /\ cur' = Append(cur, "q") /\ chars' = Tail(Tail(chars)) /\ UNCHANGED in_quotes
     \/ /\ Head(chars) = "q" /\ ~Following("q")
        /\ in_quotes' = FALSE /\ chars' = Tail(chars) /\ UNCHANGED cur
     \/ /\ Head(chars) # "q"
        /\ cur' = Append(cur, Head(chars)) /\ chars' = Tail(chars) /\ UNCHANGED in_quotes
  /\ GoOn /\ UNCHANGED <<input, fields, parser, pending>>

(* A character outside quotes other than the end of a row.                 *)
ReadPlain ==
  /\ phase = "next" /\ ~in_quotes /\ chars # <<>> /\ saw_any' = TRUE
  /\ Head(chars) \notin {"n", "r"} /\ chars' = Tail(chars)
  /\ \/ Head(chars) = "q" /\ in_quotes' = TRUE /\ UNCHANGED <<fields, cur>>
     \/ Head(chars) = "c" /\ fields' = Append(fields, cur) /\ cur' = <<>> /\ UNCHANGED in_quotes
     \/ /\ Head(chars) \notin {"q", "c"}
        /\ cur' = Append(cur, Head(chars)) /\ UNCHANGED <<fields, in_quotes>>
  /\ GoOn /\ UNCHANGED <<input, parser, pending>>

(* Mutant: the line feed after a carriage return is left.                  *)
ReadEndOfRowCr ==
  /\ phase = "next" /\ ~in_quotes /\ chars # <<>> /\ saw_any' = TRUE
  /\ Head(chars) \in {"n", "r"}
  /\ chars' = Tail(chars)
  /\ Return(Append(fields, cur)) /\ cur' = <<>>
  /\ UNCHANGED <<input, in_quotes, parser, pending>>

(* A line feed, carriage return or both end the row.                       *)
ReadEndOfRow ==
  /\ phase = "next" /\ ~in_quotes /\ chars # <<>> /\ saw_any' = TRUE
  /\ Head(chars) \in {"n", "r"}
  /\ chars' = IF Head(chars) = "r" /\ Following("n") THEN Tail(Tail(chars)) ELSE Tail(chars)
  /\ Return(Append(fields, cur)) /\ cur' = <<>>
  /\ UNCHANGED <<input, in_quotes, parser, pending>>

(* The text is over: the row so far is returned unless it is empty.        *)
EndOfText ==
  /\ phase = "next" /\ chars = <<>>
  /\ IF saw_any /\ ~AllEmpty(Append(fields, cur)) THEN Return(Append(fields, cur))
     ELSE phase' = "end" /\ UNCHANGED <<fields, rows>>
  /\ UNCHANGED <<input, chars, cur, in_quotes, saw_any, parser, pending>>

(* The next call of next() starts afresh.                                  *)
CallNext == /\ phase' = "next"
            /\ fields' = <<>> /\ cur' = <<>> /\ in_quotes' = FALSE /\ saw_any' = FALSE
            /\ UNCHANGED <<chars, rows>>

(* parse: the first row is the header.                                     *)
TakeHeader ==
  /\ phase = "row" /\ Len(rows) = 1
  /\ source' = detect_source(fields)
  /\ IF source' = "None" THEN phase' = "error" /\ UNCHANGED <<iter, rows, mapping>>
     ELSE CallNext /\ mapping' = column_mapping(source', fields)
  /\ UNCHANGED <<input, records, pending>>

(* parse: a later row is a record unless it carries no secret.             *)
TakeRow ==
  /\ phase = "row" /\ Len(rows) > 1
  /\ LET rec == build_record(fields, mapping)
     IN records' = IF AllEmpty(fields) \/ (rec.password = <<>> /\ rec.username = <<>>)
                   THEN records ELSE Append(records, rec)
  /\ CallNext
  /\ UNCHANGED <<input, source, mapping, pending>>

Usable(rec) ==
  /\ OriginParse(rec.origin).result = "Ok"
  /\ "long" \notin Range(OriginParse(rec.origin).origin.host)
  /\ Trim(rec.username) # <<>> /\ rec.password # <<>>
  /\ \A f \in {Trim(rec.username), rec.password, rec.label, rec.notes} : "long" \notin Range(f)

Item(rec) == [rec EXCEPT !.origin = OriginParse(rec.origin).origin,
                         !.username = Trim(rec.username)]

(* parse returns (Empty without a header, NoRows without a record); rows   *)
(* with a bad origin or field are left out and the others staged, if any.  *)
Stage ==
  /\ phase = "end"
  /\ LET usable == SelectSeq(records, Usable)
         items == [i \in DOMAIN usable |-> Item(usable[i])]
     IN IF items = <<>> THEN phase' = "error" /\ UNCHANGED pending
        ELSE phase' = "staged" /\ pending' = items
  /\ UNCHANGED <<input, iter, rows, parser>>

Next == \/ PickFails \/ Open
        \/ ReadQuoted \/ ReadPlain \/ ReadEndOfRow \/ EndOfText
        \/ TakeHeader \/ TakeRow \/ Stage

Spec == Init /\ [][Next]_vars
-----------------------------------------------------------------------------
(* A quote is inside or outside by the number of quotes before it; only    *)
(* outside do commas and line ends separate, whatever the quotes do to     *)
(* fields: that is the reference for texts no spreadsheet writes.          *)
Text == StripBom(file)
Inside(i) == Cardinality({j \in 1..(i - 1) : Text[j] = "q"}) % 2 = 1
Kept(i) == Text[i] = "q" => Inside(i) /\ i < Len(Text) /\ Text[i + 1] = "q"
RowEnds == {i \in DOMAIN Text : /\ ~Inside(i) /\ Text[i] \in {"n", "r"}
                                /\ ~(Text[i] = "n" /\ i > 1 /\ Text[i - 1] = "r" /\ ~Inside(i - 1))}

(* The fields between two positions.                                       *)
FieldsIn(from, to) ==
  LET commas == {i \in from..to : Text[i] = "c" /\ ~Inside(i)}
      cuts == <<from - 1>> \o Ascending(commas, Text) \o <<to + 1>>
      field(a, b) == LET kept == Ascending({i \in (a + 1)..(b - 1) : Kept(i)}, Text)
                     IN [k \in DOMAIN kept |-> Text[kept[k]]]
  IN [k \in 1..(Len(cuts) - 1) |-> field(cuts[k], cuts[k + 1])]

ReferenceRows ==
  LET ends == Ascending(RowEnds, Text)
      after(k) == IF k = 0 THEN 1
                  ELSE ends[k] + (IF Text[ends[k]] = "r" /\ ends[k] < Len(Text)
                                     /\ Text[ends[k] + 1] = "n" THEN 2 ELSE 1)
      whole == [k \in DOMAIN ends |-> FieldsIn(after(k - 1), ends[k] - 1)]
      last == FieldsIn(after(Len(ends)), Len(Text))
  IN IF AllEmpty(last) THEN whole ELSE Append(whole, last)

(* RowIter: for every text, well formed or not, the rows are those that    *)
(* the parity of the quotes gives (import/src/lib.rs next).                *)
RowsAreParity == phase = "end" => rows = ReferenceRows

(* A table written by the rules of RFC 4180, with any quoting and line     *)
(* ends, comes back field by field, but for rows without any content       *)
(* (import/src/lib.rs "RFC 4180-ish", EOF handling of next).               *)
RoundTrip ==
  phase = "end" /\ table # <<>> =>
    SelectSeq(rows, LAMBDA row : ~AllEmpty(row)) = SelectSeq(table, LAMBDA row : ~AllEmpty(row))

(* An export with one of the headers the parser documents is staged with   *)
(* the columns of that export, also where an earlier signature matches it  *)
(* (Proton's header is taken for Google's, Apple's for 1Password's): the   *)
(* order of detect_source and the columns of column_mapping agree.         *)
MappingAsDocumented ==
  phase \in {"error", "staged"} => \A d \in Documented :
    table # <<>> /\ Range(Names(table[1])) = {<<Lower(d.header[i])>> : i \in DOMAIN d.header} =>
      /\ phase # "error"
      /\ phase = "staged" =>
           pending = << [origin |-> ThisUrl, username |-> <<d.columns.username>>,
                         password |-> <<d.columns.password>>, label |-> <<d.columns.name>>,
                         notes |-> <<d.columns.notes>>] >>

Scheme(text) == IF text.scheme = "" THEN "https" ELSE text.scheme
Port(text) == IF text.port = NoPort THEN DefaultPort(Scheme(text)) ELSE text.port
SameSite(a, b) == Scheme(a) = Scheme(b) /\ a.host = b.host /\ Port(a) = Port(b)

(* A login exported with a web address, or with a bare domain, is staged   *)
(* under exactly the origin of the pages of that site: same scheme, host   *)
(* and port, however it was written.  A blank in its host loses it, one in *)
(* its path only if it is bare; a bare word is a site once there is a dot  *)
(* in its path; an address over the cap is left out (canonicalise_origin   *)
(* followed by Origin::parse, against Origin::parse of the page).          *)
StagedFillsItsSite ==
  file = UrlFile /\ phase \in {"staged", "error"} =>
    /\ (phase = "staged") = /\ url.blank # "host" /\ "long" \notin Range(url.host)
                            /\ \/ url.scheme \in {"http", "https"}
                               \/ /\ url.scheme = "" /\ ~url.user
                                  /\ url.blank = "none" /\ HasDot(url)
    /\ phase = "staged" => \A page \in Pages :
         LET o == OriginParse(page)
         IN o.result = "Ok" => (pending[1].origin = o.origin) = SameSite(url, page)

(* Cutting a host by characters gives its registrable domain by labels,    *)
(* and two origins share a match key only if that and the scheme agree     *)
(* (origin.rs registrable_domain, origin_match_key).                       *)
RegistrableIsByLabel ==
  phase = "staged" =>
    LET rd == registrable_domain(url.host) key == origin_match_key(pending[1].origin)
    IN /\ IF rd = None THEN RegistrableLabels(url.host) = <<>>
          ELSE Labels(rd) = RegistrableLabels(url.host)
       /\ key = IF RegistrableLabels(url.host) = <<>> THEN pending[1].origin
                ELSE UrlText(Scheme(url), rd, NoPort)
=============================================================================
