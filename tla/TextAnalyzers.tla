--------------------------- MODULE TextAnalyzers ----------------------------
(***************************************************************************)
(* The HTTP and SSH analyzers (analyzer/tcp/http.go, analyzer/tcp/ssh.go). *)
(* A character the parsers look for is a member of a buffer of its own, as *)
(* are the two halves of a line end; what stands between them is one word. *)
(***************************************************************************)
EXTENDS ByteStream

CONSTANTS LowerCase(_), \* strings.ToLower, of a sequence of words
          Numbers       \* the sequences of words strconv.Atoi turns into more than 0

CRLF == <<"CR", "LF">>

\* strings.Fields: the longest stretches without a blank.
Fields(line) ==
    LET starts == {i \in DOMAIN line : line[i] # " " /\ (i = 1 \/ line[i - 1] = " ")}
        End(i) == CHOOSE j \in i..Len(line) :
                     /\ \A k \in i..j : line[k] # " "
                     /\ j = Len(line) \/ line[j + 1] = " "
        order == SetToSortSeq(starts, <)
    IN [k \in DOMAIN order |-> SubSeq(line, order[k], End(order[k]))]

\* bytes.TrimSpace.
TrimSpace(line) ==
    LET words == {i \in DOMAIN line : line[i] # " "}
    IN IF words = {} THEN <<>>
       ELSE SubSeq(line, CHOOSE i \in words : \A j \in words : i <= j,
                         CHOOSE i \in words : \A j \in words : j <= i)

\* bytes.Split at line ends.
Lines(text) ==
    LET ends == {i \in 1..(Len(text) - 1) : SubSeq(text, i, i + 1) = CRLF}
        order == <<0>> \o SetToSortSeq({i + 1 : i \in ends}, <) \o <<Len(text) + 2>>
    IN [k \in 1..(Len(order) - 1) |-> SubSeq(text, order[k] + 1, order[k + 1] - 2)]

\* A parse function that needs the text up to a separator.
GivenUntil(s, dir, sep, parsed) == IF Places(s, dir, sep) = {} THEN Pause(s) ELSE parsed

\* s.reqMap = m, or one more key of it.
Set(s, dir, m) == [s EXCEPT !.map[dir] = m, !.updated[dir] = TRUE]
Add(s, dir, m) == [s EXCEPT !.map[dir] = m @@ @, !.updated[dir] = TRUE]

-----------------------------------------------------------------------------
(* HTTP *)

HTTPStream ==
    NewStream("http", <<"http.requestLine", "http.requestHeaders">>,
              <<"http.responseLine", "http.responseHeaders">>, Nothing)

IsHTTP(version) == Head(version) = "HTTP/"

HTTPRequestLine(s) ==
    LET fields == Fields(Before(s, "req", CRLF))
        r == Behind(s, "req", CRLF)
    IN GivenUntil(s, "req", CRLF,
         IF Len(fields) # 3 THEN Cancel(r)
         ELSE IF ~IsHTTP(fields[3]) THEN Cancel(r)
         ELSE Next_(Set(r, "req", [method |-> fields[1], path |-> fields[2], version |-> fields[3]])))

HTTPResponseLine(s) ==
    LET fields == Fields(Before(s, "resp", CRLF))
        r == Behind(s, "resp", CRLF)
    IN GivenUntil(s, "resp", CRLF,
         IF Len(fields) < 2 THEN Cancel(r)
         ELSE IF ~IsHTTP(fields[1]) \/ fields[2] \notin Numbers THEN Cancel(r)
         ELSE Next_(Set(r, "resp", [version |-> fields[1], status |-> fields[2]])))

\* Every line has a colon; the first one ends the key.
HTTPHeaders(s, dir) ==
    LET lines == Lines(Before(s, dir, CRLF \o CRLF))
        r == Behind(s, dir, CRLF \o CRLF)
        Colon(line) == CHOOSE i \in DOMAIN line : line[i] = ":" /\ \A j \in 1..(i - 1) : line[j] # ":"
        Key(line) == LowerCase(TrimSpace(SubSeq(line, 1, Colon(line) - 1)))
        Value(line) == TrimSpace(SubSeq(line, Colon(line) + 1, Len(line)))
    IN GivenUntil(s, dir, CRLF \o CRLF,
         IF \E k \in DOMAIN lines : \A i \in DOMAIN lines[k] : lines[k][i] # ":" THEN Cancel(r)
         ELSE Next_(Add(r, dir, "headers" :>
                FoldLeft(LAMBDA m, line : (Key(line) :> Value(line)) @@ m, Nothing, lines))))

HTTPParse(step, s) ==
    CASE step = "http.requestLine" -> HTTPRequestLine(s)
      [] step = "http.requestHeaders" -> HTTPHeaders(s, "req")
      [] step = "http.responseLine" -> HTTPResponseLine(s)
      [] step = "http.responseHeaders" -> HTTPHeaders(s, "resp")

HTTPUpdate(s, dir) == IF dir = "req" THEN [req |-> s.map["req"]] ELSE [resp |-> s.map["resp"]]

-----------------------------------------------------------------------------
(* SSH *)

SSHStream == NewStream("ssh", <<"ssh.client">>, <<"ssh.server">>, Nothing)

\* "SSH-protoversion-softwareversion", and one word of comments at most.
SSHExchangeLine(s, dir) ==
    LET line == Before(s, dir, CRLF)
        fields == Fields(line)
        r == Behind(s, dir, CRLF)
        dashes == SetToSortSeq({i \in DOMAIN fields[1] : fields[1][i] = "-"}, <)
        Piece(i, j) == SubSeq(fields[1], i + 1, j - 1)
    IN GivenUntil(s, dir, CRLF,
         IF SubSeq(line, 1, 2) # <<"SSH", "-">> \/ Len(fields) > 2 THEN Cancel(r)
         ELSE IF Len(dashes) < 2 THEN Cancel(r)
         ELSE Next_(Set(r, dir,
                [protocol |-> Piece(dashes[1], dashes[2]),
                 software |-> Piece(dashes[2], Len(fields[1]) + 1)]
                @@ IF Len(fields) = 2 THEN [comments |-> fields[2]] ELSE Nothing)))

SSHParse(step, s) ==
    CASE step = "ssh.client" -> SSHExchangeLine(s, "req")
      [] step = "ssh.server" -> SSHExchangeLine(s, "resp")

SSHUpdate(s, dir) == IF dir = "req" THEN [client |-> s.map["req"]] ELSE [server |-> s.map["resp"]]

=============================================================================
