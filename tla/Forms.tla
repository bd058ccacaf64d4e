-------------------------------- MODULE Forms --------------------------------
(* What the body accessors of a *Ctx leave behind for one another (ctx.go:    *)
(* limitBody, readBody, FormValue, File, Files): RawBody and Bind keep the    *)
(* bytes and put a reader of them in place of Request.Body, the form          *)
(* accessors let net/http parse what Request.Body still gives.                *)
EXTENDS Integers, Sequences

CONSTANTS Names,   \* the names a form may have
          Values,  \* the sequences of values a name may be sent with
          Queries, \* what the URL may say: the values of every name
          MaxCalls \* bound: accessors called before the last one

\* So that a form without values is told from no form.
ASSUME FormsAssumption == Names # {} /\ Queries \subseteq [Names -> Values]

VARIABLES contentType, \* the Content-Type: "urlencoded", "multipart", "other"
          sound,   \* "sound"; "malformed", if a pair of the URL or of an urlencoded body is; "large" for the limit
          sent,    \* the form in the body
          query,   \* the form in the URL
          input,   \* what Request.Body gives: "network", a "buffer", "nothing", an "error"
          bodyBuf, \* Ctx.bodyBuf: "nil", the "whole" body, "nothing"
          rawBody, \* what RawBody returned last, "none" before
          form,    \* Request.Form: Unparsed, or the values of every name
          multi,   \* Request.MultipartForm is set
          calls    \* the accessors called so far

body == <<contentType, sound, sent, query>>
reading == <<input, bodyBuf, rawBody>>
parsing == <<form, multi>>
formVars == <<body, reading, parsing, calls>>

NoValues == [n \in Names |-> <<>>]
Unparsed == [n \in {} |-> <<>>]
Both(f, g) == [n \in Names |-> f[n] \o g[n]]

FormsInit ==
    /\ contentType \in {"urlencoded", "multipart", "other"}
    /\ sound \in {"sound", "malformed", "large"}
    /\ sent \in IF contentType = "other" THEN {NoValues} ELSE [Names -> Values]
    /\ query \in Queries
    /\ input = "network" /\ bodyBuf = "nil" /\ rawBody = "none"
    /\ form = Unparsed /\ multi = FALSE /\ calls = <<>>

-----------------------------------------------------------------------------
(* net/http.                                                                  *)

\* Reading Request.Body fails: MaxBytesReader's error stays.
Broken == input = "error" \/ (input = "network" /\ sound = "large")
Drained == IF Broken THEN "error" ELSE "nothing"

\* Request.ParseForm takes the URL and reads a body that is urlencoded, once: after a failure too the form
\* is there.  Values of the body come before those of the URL.
ParsedForm ==
    LET parsed(f, i, failed) == [form |-> f, input |-> i, multi |-> multi, failed |-> failed] IN
    CASE form # Unparsed -> parsed(form, input, FALSE)
      [] form = Unparsed /\ contentType # "urlencoded" -> parsed(query, input, sound = "malformed")
      [] OTHER -> parsed(IF Broken \/ input = "nothing" THEN query ELSE Both(sent, query), Drained,
                         Broken \/ sound = "malformed")

\* Request.ParseMultipartForm: ParseForm, then the parts, until that has worked.  They come last.
ParsedMultipart ==
    LET first == ParsedForm
        here == contentType = "multipart" /\ ~multi IN
    IF here /\ ~Broken /\ input # "nothing"
    THEN [form |-> Both(first.form, sent), input |-> "nothing", multi |-> TRUE, failed |-> first.failed]
    ELSE [first EXCEPT !.failed = ~multi, !.input = IF here THEN Drained ELSE @]

-----------------------------------------------------------------------------
Called(name) ==
    /\ Len(calls) < MaxCalls
    /\ calls' = Append(calls, name)
    /\ UNCHANGED body

Left(result) ==
    /\ form' = result.form /\ input' = result.input /\ multi' = result.multi
    /\ UNCHANGED <<bodyBuf, rawBody>>

\* Request.FormValue parses unless there is a form already, and drops the error.
FormValue ==
    /\ Called("FormValue")
    /\ IF form = Unparsed THEN Left(ParsedMultipart) ELSE UNCHANGED <<reading, parsing>>

\* File and Files: once Request.MultipartForm is there it is all they need.
File ==
    /\ Called("File")
    /\ Left(ParsedMultipart)

\* Mutants of RawBody: the reader is not put back; the bytes are not kept.
RawBodyConsuming ==
    /\ Called("RawBody")
    /\ IF bodyBuf # "nil" THEN UNCHANGED reading
       ELSE LET got == IF Broken THEN "nil" ELSE IF input = "nothing" THEN "nothing" ELSE "whole" IN
            /\ bodyBuf' = got /\ input' = Drained
            /\ rawBody' = IF rawBody = "none" THEN got ELSE rawBody
    /\ UNCHANGED parsing

RawBodyAnew ==
    /\ Called("RawBody")
    /\ LET got == IF Broken THEN "error" ELSE IF input = "nothing" THEN "nothing" ELSE "whole" IN
       /\ bodyBuf' = "nil" /\ rawBody' = got
       /\ input' = IF got = "whole" THEN "buffer" ELSE Drained
    /\ UNCHANGED parsing

\* RawBody, BindJSON and Bind: readBody keeps what there is to read, also if that is nothing any more.
RawBody ==
    /\ Called("RawBody")
    /\ IF bodyBuf # "nil" THEN rawBody' = bodyBuf /\ UNCHANGED <<bodyBuf, input>>
       ELSE IF Broken THEN rawBody' = "error" /\ input' = "error" /\ UNCHANGED bodyBuf
       ELSE /\ bodyBuf' = IF input = "nothing" THEN "nothing" ELSE "whole"
            /\ input' = IF input = "nothing" THEN "nothing" ELSE "buffer"
            /\ rawBody' = bodyBuf'
    /\ UNCHANGED parsing

Access == FormValue \/ File \/ RawBody

-----------------------------------------------------------------------------
\* "Safe to call multiple times" (ctx.go:385): whatever else was called in between, RawBody returns what
\* it returned at first; only what it returned at first depends on whether a form was read before.
RawBodyStable == [][rawBody # "none" => rawBody' = rawBody]_formVars
=============================================================================
