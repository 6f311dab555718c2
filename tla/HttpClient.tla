----------------------------- MODULE HttpClient -----------------------------
(***************************************************************************)
(* cs4461/prog2: a client that fetches one page and prints it, chunk by    *)
(* chunk when the header announces chunked encoding, line by line else.    *)
(* What the server sends is external: a well formed response, of which the *)
(* connection may deliver only the beginning.  A character is a token:     *)
(* "cr", "lf", text, or the digits of a chunk size, one token.             *)
(***************************************************************************)
EXTENDS Integers, Sequences, SequencesExt

CONSTANTS Pieces,     \* the texts a body is made of, one chunk each
          MaxPieces   \* a body has at most this many of them

VARIABLES pc, inp, CHUNKED, chunk_size, out, body, complete, errno

vars == <<pc, inp, CHUNKED, chunk_size, out, body, complete, errno>>

Crlf == <<"cr", "lf">>
Digits == <<"0", "1", "2", "3", "4">>
Encoding == <<"chunked">>     \* the header line Transfer-Encoding: chunked

\* The response for the pieces of a body; a trailer line may follow chunks.
Chunks(pieces) == FlattenSeq([i \in DOMAIN pieces |->
                     <<Digits[Len(pieces[i]) + 1]>> \o Crlf \o pieces[i] \o Crlf]) \o <<Digits[1]>> \o Crlf
Response(pieces, chunked, trailer) ==
    <<"status">> \o Crlf \o (IF chunked THEN Encoding \o Crlf ELSE <<>>) \o Crlf
    \o IF chunked THEN Chunks(pieces) \o trailer \o Crlf ELSE FlattenSeq(pieces)

Init == /\ pc = "connect" /\ inp = <<>> /\ CHUNKED = FALSE
        /\ chunk_size = 0 /\ out = <<>> /\ body = <<>> /\ complete = FALSE
        /\ errno = FALSE

\* The request is sent; the server answers and closes, early or not.
Connects ==
    /\ pc = "connect"
    /\ \E pieces \in BoundedSeq(Pieces, MaxPieces), chunked \in BOOLEAN,
          trailer \in {<<>>, <<"trailer">> \o Crlf} :
         LET answer == Response(pieces, chunked, trailer)
         IN  \E n \in 0 .. Len(answer) : /\ inp' = SubSeq(answer, 1, n)
                                         /\ complete' = (n = Len(answer))
                                         /\ body' = FlattenSeq(pieces)
    /\ pc' = "header"
    /\ errno' \in BOOLEAN     \* left over from an earlier call of the library
    /\ UNCHANGED <<CHUNKED, chunk_size, out>>

\* readLine: the text before the next "lf", what it leaves of the input, and
\* what it returns: -1 at the end of the input, -3 for a line of one
\* character, to which it puts the "lf" back, or the length.
Until(s) == IF Contains(s, "lf") THEN SelectInSeq(s, LAMBDA c : c = "lf") - 1 ELSE Len(s)
readLine(s) ==
    LET n == Until(s) IN
    [text |-> SubSeq(s, 1, n) \o IF n = 1 /\ n < Len(s) THEN <<"lf">> ELSE <<>>,
     rest |-> SubSeq(s, n + 2, Len(s)),
     ret |-> IF s = <<>> THEN -1 ELSE IF n = 1 /\ n < Len(s) THEN -3 ELSE n]

\* strtol on a line that was read: the size it starts with.
HasSize(text) == text # <<>> /\ Contains(Digits, text[1])
Size(text) == SelectInSeq(Digits, LAMBDA d : d = text[1]) - 1

ReadsHeader ==
    /\ pc = "header"
    /\ LET r == readLine(inp) IN
       /\ inp' = r.rest
       /\ CHUNKED' = (CHUNKED \/ (r.ret >= 0 /\ Contains(r.text, "chunked")))
       /\ pc' = CASE r.ret = -1 -> "failure"
                  [] r.ret = -3 -> IF CHUNKED THEN "size" ELSE "lines"
                  [] OTHER -> "header"
    /\ UNCHANGED <<chunk_size, out, body, complete, errno>>

\* The first size refuses a zero when errno is set, the later ones do not.
ReadsSize(from, first) ==
    /\ pc = from
    /\ LET r == readLine(inp) IN
       /\ inp' = r.rest
       /\ chunk_size' = IF HasSize(r.text) THEN Size(r.text) ELSE 0
       /\ pc' = IF ~HasSize(r.text) \/ (first /\ errno /\ Size(r.text) = 0) THEN "failure"
                ELSE IF Size(r.text) > 0 THEN "chunk" ELSE "lines"
    /\ UNCHANGED <<CHUNKED, out, body, complete, errno>>

\* recv is called once more than the chunk is long: it swallows the "cr".
TakenExactly(s, n) == IF n < Len(s) THEN n ELSE Len(s)     \* a slip: one less is read
Taken(s, n) == IF n < Len(s) THEN n + 1 ELSE Len(s)

ReadsChunk ==
    /\ pc = "chunk"
    /\ out' = out \o SubSeq(inp, 1, IF chunk_size < Len(inp) THEN chunk_size ELSE Len(inp))
    /\ inp' = SubSeq(inp, Taken(inp, chunk_size) + 1, Len(inp))
    /\ pc' = "after"
    /\ UNCHANGED <<CHUNKED, chunk_size, body, complete, errno>>

\* What is left of the line behind the chunk has to be empty.
ReadsEnd ==
    /\ pc = "after"
    /\ LET r == readLine(inp) IN /\ inp' = r.rest
                                 /\ pc' = IF Contains(r.text, "lf") THEN "failure" ELSE "next"
    /\ UNCHANGED <<CHUNKED, chunk_size, out, body, complete, errno>>

\* The page, or what follows the last chunk, until the input ends.
ReadsLine ==
    /\ pc = "lines"
    /\ LET r == readLine(inp) IN
       /\ inp' = r.rest
       /\ pc' = IF r.ret = -1 THEN "success" ELSE "lines"
       /\ out' = IF r.ret = -1 \/ r.text = Crlf THEN out ELSE out \o r.text
    /\ UNCHANGED <<CHUNKED, chunk_size, body, complete, errno>>

Client == \/ ReadsHeader \/ ReadsSize("size", TRUE) \/ ReadsChunk \/ ReadsEnd
          \/ ReadsSize("next", FALSE) \/ ReadsLine

Next == Connects \/ Client

Spec == Init /\ [][Next]_vars

-----------------------------------------------------------------------------
Text(s) == SelectSeq(s, LAMBDA c : c \in {"a", "b"})

TypeOK == /\ pc \in {"connect", "header", "size", "next", "chunk", "after", "lines",
                     "success", "failure"}
          /\ CHUNKED \in BOOLEAN /\ complete \in BOOLEAN /\ errno \in BOOLEAN
          /\ chunk_size \in Nat

\* What the client prints is the page: nothing that is not in it and nothing
\* out of place, however early the connection closes; and a client that ends
\* with success has printed the page whole if it was chunked, or if all of
\* it came.  It gives up on a whole answer only for a page without chunks.
PrintsThePage ==
    /\ IsPrefix(Text(out), Text(body))
    /\ pc = "success" /\ (CHUNKED \/ complete) => Text(out) = Text(body)
    /\ pc = "failure" /\ complete => CHUNKED /\ errno /\ body = <<>>

=============================================================================
