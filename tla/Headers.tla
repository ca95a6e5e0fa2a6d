------------------------------- MODULE Headers -------------------------------
(***************************************************************************)
(* The headers that MyBrowser.c and MyHTTP.c write, and what the other     *)
(* side's parse_header reads in them.  A header is its first line and a    *)
(* sequence of further lines, each a key and a value; a value, a path or a *)
(* name is a sequence of tokens, of which only "/" has a meaning here.     *)
(* Dates and document types are one token.                                 *)
(***************************************************************************)
EXTENDS Integers, Sequences, FiniteSetsExt

\* Mutant: the whole path is taken for the name.
BaseName_whole(path) == path

\* strrchr(path, '/') + 1, or all of it.
BaseName(path) ==
  LET slash == Max({i \in DOMAIN path : path[i] = "/"} \union {0})
  IN  SubSeq(path, slash + 1, Len(path))

\* filename is empty for a GET, length is that of the file.
createheader(to, filename, length) ==
  LET first == << <<"Host", to.ip>>, <<"Date", <<"now">>>> >>
      close == << <<"Connection", <<"close">>>> >>
  IN  IF filename = <<>>
      THEN [method |-> "GET", path |-> to.path, version |-> "HTTP/1.1",
            lines |-> first \o << <<"Accept", <<"type">>>>, <<"Accept-Language", <<"en-us">>>>,
                                  <<"If-Modified-Since", <<"two days ago">>>> >> \o close]
      ELSE [method |-> "PUT", path |-> to.path \o <<"/">> \o BaseName(filename),
            version |-> "HTTP/1.1",
            lines |-> first \o << <<"Content-Type", <<"type">>>>, <<"Content-Length", <<length>>>>,
                                  <<"Content-Language", <<"en-us">>>> >> \o close]

\* The lines of a header with one of the keys.
Named(header, keys) == {i \in DOMAIN header.lines : header.lines[i][1] \in keys}

\* The server's parse_header: the last line with a key counts, and a line
\* without a value makes the request invalid.
parse_header(header) ==
  LET value(keys) == LET at == Named(header, keys)
                     IN  IF at = {} THEN <<>> ELSE header.lines[Max(at)][2]
      length == value({"Content-Length"})
  IN  [valid  |-> /\ header.method \in {"GET", "PUT"} /\ header.version = "HTTP/1.1"
                  /\ \A i \in DOMAIN header.lines : header.lines[i][2] # <<>>,
       method |-> header.method, path |-> header.path,
       type   |-> value({"Accept", "Content-Type"}),
       time   |-> value({"If-Modified-Since"}),
       length |-> IF length = <<>> THEN 0 ELSE length[1]]

-----------------------------------------------------------------------------
\* The server's answers.  A file may go with the answer to a GET.
Refused(status) ==
  [status |-> status, lines |-> << <<"Connection", <<"close">>>>, <<"Date", <<"now">>>> >>]

Gets(type, length) ==
  [status |-> 200,
   lines  |-> << <<"Content-Type", type>>, <<"Content-Length", <<length>>>>,
                 <<"Cache-Control", <<"no-store">>>>, <<"Content-Language", <<"en-us">>>>,
                 <<"Connection", <<"close">>>>, <<"Last-Modified", <<"then">>>>,
                 <<"Date", <<"now">>>> >>]

Puts ==
  [status |-> 200,
   lines  |-> << <<"Cache-Control", <<"no-store">>>>, <<"Connection", <<"close">>>>,
                 <<"Expires", <<"in three days">>>>, <<"Date", <<"now">>>> >>]

\* The browser's parse_header returns at the first Content-Length.
content_len(header) ==
  LET at == Named(header, {"Content-Length"})
  IN  IF at = {} THEN -1 ELSE header.lines[Min(at)][2][1]
=============================================================================
