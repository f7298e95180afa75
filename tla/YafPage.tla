------------------------------ MODULE YafPage ------------------------------
(***************************************************************************)
(* How a page is made: Yaf_View_Simple::render() and display()             *)
(* (yaf_view_simple.c), which run templates that render others, catch,     *)
(* throw and open output buffers of their own, on the one stack of output  *)
(* buffers that PHP has; and the response (yaf_response.c,                 *)
(* yaf_response_http.c) whose named parts the pages become.                *)
(*                                                                         *)
(* Text is a sequence of chunks, one for each write of a template or of    *)
(* other PHP code.  A chunk knows the call of render() whose page it is    *)
(* meant for, 0 when that is the output itself.                            *)
(***************************************************************************)
EXTENDS Naturals, SequencesExt

CONSTANTS
  Parts,      \* names of the response's parts, "content" for the one without a name
  Headers,    \* header names
  MaxCalls,   \* bound: calls of render() and display()
  MaxWrites,  \* bound: chunks
  MaxOpens,   \* bound: ob_start() by PHP code
  MaxShows    \* bound: responses that are sent and kept

ASSUME PageAssumption ==
  MaxCalls \in Nat /\ MaxWrites \in Nat /\ MaxOpens \in Nat /\ MaxShows \in Nat

VARIABLES
  out,      \* what the client has
  buf,      \* the output buffers, the active one first: [yaf, text]
  calls,    \* the templates that run, the innermost first: [id, buffered, own, base]
  exc,      \* an exception is pending
  pages,    \* the strings render() returned that PHP code still has, by call
  body,     \* the response's parts in the order of its hash: [name, text]
  headers,  \* the response's headers
  crashed,  \* clearBody() followed a wild pointer
  hist      \* history, read by the properties only

vars == <<out, buf, calls, exc, pages, body, headers, crashed, hist>>

Ids == 1 .. MaxCalls

\* own counts the buffers that a template has opened and not closed; base is
\* history: how many buffers there were when it began.
Call == [id : Ids, buffered : BOOLEAN, own : Nat, base : Nat]

Chunk == [of : Ids \cup {0}, number : 1 .. MaxWrites]

Text == Seq(Chunk)

Chunks(text) == {text[i] : i \in DOMAIN text}

\* tidy: no template, and no code it runs, has closed a buffer that it did not
\* open or ended with one of its own still open.
History == [next : Nat \ {0}, writes : Nat, opens : Nat, closes : Nat, tidy : BOOLEAN,
            state : [Ids -> {"unborn", "running", "returned", "failed"}],
            whole : [Ids -> Text],                  \* the page as it was returned
            direct : [Ids -> SUBSET (1 .. MaxWrites)], \* written straight into the page
            used : [Ids -> SUBSET Ids],             \* pages that went into the page
            shows : Nat,
            shown : SUBSET Chunk]   \* sent by response() while it stayed in the body

TypeOK ==
  /\ out \in Text
  /\ buf \in Seq([yaf : BOOLEAN, text : Text])
  /\ calls \in Seq(Call)
  /\ exc \in BOOLEAN /\ crashed \in BOOLEAN
  /\ pages \subseteq Ids
  /\ body \in Seq([name : Parts, text : Text])
  /\ headers \subseteq Headers
  /\ hist \in History

-----------------------------------------------------------------------------
(* PHP's output layer *)

Runs == ~exc /\ ~crashed

\* php_output_write: into the active buffer, or to the client.
Write(text) ==
  IF buf = <<>> THEN out' = out \o text /\ UNCHANGED buf
  ELSE buf' = [buf EXCEPT ![1].text = @ \o text] /\ UNCHANGED out

\* php_output_end(): the text of the active buffer goes to the one below.
Flush ==
  LET below == Tail(buf) IN
  IF below = <<>> THEN out' = out \o buf[1].text /\ buf' = below
  ELSE buf' = [below EXCEPT ![1].text = @ \o buf[1].text] /\ UNCHANGED out

\* The call whose page a write is meant for.
Innermost ==
  LET I == {i \in DOMAIN calls : calls[i].buffered}
  IN IF I = {} THEN 0 ELSE calls[CHOOSE i \in I : \A j \in I : i <= j].id

\* Nobody has put a buffer of his own between the template and its page.
Straight ==
  \A i \in DOMAIN calls : (\A j \in 1 .. i - 1 : ~calls[j].buffered) => calls[i].own = 0

\* History: what the page of c is given.
Noted(given, c, new) == IF c = 0 THEN given ELSE [given EXCEPT ![c] = @ \cup new]

\* echo in a template, or in any other PHP code
Echo ==
  /\ Runs /\ hist.writes < MaxWrites
  /\ LET n == hist.writes + 1
         c == Innermost
     IN /\ Write(<<[of |-> c, number |-> n]>>)
        /\ hist' = [hist EXCEPT !.writes = n,
                      !.direct = IF Straight THEN Noted(@, c, {n}) ELSE @]
  /\ UNCHANGED <<calls, exc, pages, body, headers, crashed>>

\* echo of a page that render() returned, once
EchoPage ==
  /\ Runs
  /\ \E p \in pages :
       /\ Write(hist.whole[p])
       /\ pages' = pages \ {p}
       /\ hist' = [hist EXCEPT !.used = Noted(@, Innermost, {p} \cup hist.used[p])]
  /\ UNCHANGED <<calls, exc, body, headers, crashed>>

\* ob_start()
ObStart ==
  /\ Runs /\ hist.opens < MaxOpens
  /\ buf' = <<[yaf |-> FALSE, text |-> <<>>]>> \o buf
  /\ calls' = IF calls = <<>> THEN calls ELSE [calls EXCEPT ![1].own = @ + 1]
  /\ hist' = [hist EXCEPT !.opens = @ + 1]
  /\ UNCHANGED <<out, exc, pages, body, headers, crashed>>

\* ob_end_clean() and ob_end_flush(), also of a buffer that yaf opened
ObEnd(flush) ==
  /\ Runs /\ buf # <<>>
  /\ IF flush THEN Flush ELSE buf' = Tail(buf) /\ UNCHANGED out
  /\ hist' = [hist EXCEPT !.closes = @ + 1,
                          !.tidy = @ /\ (calls # <<>> => calls[1].own > 0)]
  /\ calls' = IF calls = <<>> \/ calls[1].own = 0 THEN calls
              ELSE [calls EXCEPT ![1].own = @ - 1]
  /\ UNCHANGED <<exc, pages, body, headers, crashed>>

Throw ==
  /\ Runs /\ calls # <<>>
  /\ exc' = TRUE
  /\ UNCHANGED <<out, buf, calls, pages, body, headers, crashed, hist>>

Catch ==
  /\ exc
  /\ exc' = FALSE
  /\ UNCHANGED <<out, buf, calls, pages, body, headers, crashed, hist>>

-----------------------------------------------------------------------------
(* yaf_view_exec_tpl *)

\* Mutant: php_output_clean() first, so that the page starts from nothing.
BeginClean(buffered) ==
  /\ Runs /\ hist.next <= MaxCalls
  /\ calls' = <<[id |-> hist.next, buffered |-> buffered, own |-> 0, base |-> Len(buf)]>> \o calls
  /\ buf' = IF ~buffered THEN buf
            ELSE <<[yaf |-> TRUE, text |-> <<>>]>>
                 \o (IF buf = <<>> THEN buf ELSE [buf EXCEPT ![1].text = <<>>])
  /\ hist' = [hist EXCEPT !.next = @ + 1, !.state[hist.next] = "running"]
  /\ UNCHANGED <<out, exc, pages, body, headers, crashed>>

\* render() opens a buffer for its template, display() does not.
Begin(buffered) ==
  /\ Runs /\ hist.next <= MaxCalls
  /\ calls' = <<[id |-> hist.next, buffered |-> buffered, own |-> 0, base |-> Len(buf)]>> \o calls
  /\ buf' = IF buffered THEN <<[yaf |-> TRUE, text |-> <<>>]>> \o buf ELSE buf
  /\ hist' = [hist EXCEPT !.next = @ + 1, !.state[hist.next] = "running"]
  /\ UNCHANGED <<out, exc, pages, body, headers, crashed>>

\* No such template, no directory for it or a syntax error: an exception, or
\* FALSE when throwException is off, before any buffer is opened.
NotRendered ==
  /\ Runs /\ hist.next <= MaxCalls
  /\ exc' \in BOOLEAN
  /\ hist' = [hist EXCEPT !.next = @ + 1, !.state[hist.next] = "failed"]
  /\ UNCHANGED <<out, buf, calls, pages, body, headers, crashed>>

Ended(state, text) ==
  hist' = [hist EXCEPT !.state[calls[1].id] = state, !.whole[calls[1].id] = text,
                       !.tidy = @ /\ calls[1].own = 0]

\* php_output_discard() after php_output_get_contents()
GetAndDiscard == buf' = Tail(buf) /\ UNCHANGED out

\* The template of render() ends: the active buffer is its page, whoever opened
\* it.  Without a buffer the answer is FALSE.
RenderEnds ==
  /\ Runs /\ calls # <<>> /\ calls[1].buffered
  /\ calls' = Tail(calls)
  /\ IF buf = <<>>
     THEN Ended("failed", <<>>) /\ UNCHANGED <<out, buf, pages>>
     ELSE /\ Ended("returned", buf[1].text)
          /\ GetAndDiscard
          /\ pages' = pages \cup {calls[1].id}
  /\ UNCHANGED <<exc, body, headers, crashed>>

DisplayEnds ==
  /\ Runs /\ calls # <<>> /\ ~calls[1].buffered
  /\ calls' = Tail(calls)
  /\ Ended("returned", <<>>)
  /\ UNCHANGED <<out, buf, exc, pages, body, headers, crashed>>

\* Mutant: what the template had written is flushed.
FlushBuffer ==
  IF ~calls[1].buffered \/ buf = <<>> THEN UNCHANGED <<out, buf>> ELSE Flush

\* Mutant: a display() that fails drops the active buffer as render() does.
DiscardAlways == buf' = (IF buf = <<>> THEN buf ELSE Tail(buf)) /\ UNCHANGED out

\* The active buffer is dropped with what a template that threw had written.
DiscardBuffer ==
  /\ buf' = IF ~calls[1].buffered \/ buf = <<>> THEN buf ELSE Tail(buf)
  /\ UNCHANGED out

TemplateThrew ==
  /\ exc /\ calls # <<>>
  /\ calls' = Tail(calls)
  /\ DiscardBuffer
  /\ Ended("failed", <<>>)
  /\ UNCHANGED <<exc, pages, body, headers, crashed>>

-----------------------------------------------------------------------------
(* The response *)

Part(name) == {i \in DOMAIN body : body[i].name = name}

\* yaf_response_alter_body: a part that is new goes to the end; an empty text
\* changes nothing, not even when it is to replace one.
Alter(name, text, how) ==
  body' = IF text = <<>> THEN body
          ELSE IF Part(name) = {} THEN Append(body, [name |-> name, text |-> text])
          ELSE [i \in DOMAIN body |->
                  IF i \notin Part(name) THEN body[i]
                  ELSE [body[i] EXCEPT !.text = CASE how = "append" -> @ \o text
                                                  [] how = "prepend" -> text \o @
                                                  [] how = "replace" -> text]]

\* appendBody(), prependBody() and setBody() with a page
PutPage(name, how) ==
  /\ Runs
  /\ \E p \in pages : Alter(name, hist.whole[p], how) /\ pages' = pages \ {p}
  /\ UNCHANGED <<out, buf, calls, exc, headers, crashed, hist>>

\* zend_hash_del: the names of a hash are unique.
Without(name) ==
  IF Part(name) = {} THEN body ELSE RemoveAt(body, CHOOSE i \in Part(name) : TRUE)

\* clearBody($name)
ClearPart(name) ==
  /\ Runs
  /\ body' = Without(name)
  /\ UNCHANGED <<out, buf, calls, exc, pages, headers, crashed, hist>>

\* clearBody() reads its variable name before anything was written to it: the
\* word on the stack is null, some string or no pointer at all.
ClearBody ==
  /\ Runs
  /\ \/ crashed' = TRUE /\ UNCHANGED body
     \/ body' \in {<<>>} \cup {Without(n) : n \in Parts} /\ UNCHANGED crashed
  /\ UNCHANGED <<out, buf, calls, exc, pages, headers, hist>>

SetHeader(h) ==
  /\ Runs
  /\ headers' = headers \cup {h}
  /\ UNCHANGED <<out, buf, calls, exc, pages, body, crashed, hist>>

ClearHeaders ==
  /\ Runs
  /\ headers' = {}
  /\ UNCHANGED <<out, buf, calls, exc, pages, body, crashed, hist>>

\* What response() writes: the parts one after the other.
Joined == FlattenSeq([i \in DOMAIN body |-> body[i].text])

\* The SAPI refuses headers once the client has output, and with the first
\* refusal response() gives up.
Refused == headers # {} /\ out # <<>>

\* History: the page of the template around the call is given those of the body.
GivenBody == Noted(hist.used, Innermost, {x.of : x \in Chunks(Joined)} \ {0})

\* Sending nothing is no step.
SendAndKeep ==
  /\ Joined # <<>> /\ hist.shows < MaxShows
  /\ Write(Joined)
  /\ hist' = [hist EXCEPT !.shows = @ + 1, !.shown = @ \cup Chunks(Joined), !.used = GivenBody]
  /\ UNCHANGED <<calls, exc, pages, body, headers, crashed>>

\* Yaf_Response_Http::response(), called by PHP code: the body stays.  Where
\* the headers are refused it does nothing.
Respond == Runs /\ ~Refused /\ SendAndKeep

\* yaf_response_send() at the end of the exception handler, which sends no
\* headers and does not look whether another exception is pending.
HandlerSends == ~crashed /\ SendAndKeep

\* Mutant: the body is sent but stays in the response.
KeepBody == UNCHANGED body

\* What yaf_dispatcher_dispatch does after response(), whatever it answered.
DropBody == body' = <<>>

\* The end of a dispatch, which a template may have begun.
DispatchEnds ==
  /\ Runs
  /\ IF Refused THEN UNCHANGED <<out, buf, hist>>
     ELSE Write(Joined) /\ hist' = [hist EXCEPT !.used = GivenBody]
  /\ DropBody
  /\ UNCHANGED <<calls, exc, pages, headers, crashed>>

-----------------------------------------------------------------------------

Init ==
  /\ out = <<>> /\ buf = <<>> /\ calls = <<>> /\ exc = FALSE
  /\ pages = {} /\ body = <<>> /\ headers = {} /\ crashed = FALSE
  /\ hist = [next |-> 1, writes |-> 0, opens |-> 0, closes |-> 0, tidy |-> TRUE,
             state |-> [c \in Ids |-> "unborn"], whole |-> [c \in Ids |-> <<>>],
             direct |-> [c \in Ids |-> {}], used |-> [c \in Ids |-> {}],
             shows |-> 0, shown |-> {}]

Next ==
  \/ Echo \/ EchoPage \/ ObStart \/ ObEnd(TRUE) \/ ObEnd(FALSE) \/ Throw \/ Catch
  \/ Begin(TRUE) \/ Begin(FALSE) \/ NotRendered
  \/ RenderEnds \/ DisplayEnds \/ TemplateThrew
  \/ \E name \in Parts, how \in {"append", "prepend", "replace"} : PutPage(name, how)
  \/ \E name \in Parts : ClearPart(name)
  \/ ClearBody \/ (\E h \in Headers : SetHeader(h)) \/ ClearHeaders
  \/ Respond \/ HandlerSends \/ DispatchEnds

Spec == Init /\ [][Next]_vars

-----------------------------------------------------------------------------
(* Properties *)

Everywhere ==
  Chunks(out) \cup (UNION {Chunks(buf[i].text) : i \in DOMAIN buf})
              \cup (UNION {Chunks(body[i].text) : i \in DOMAIN body})
              \cup (UNION {Chunks(hist.whole[p]) : p \in pages})

\* A page that render() returns is what its template wrote, all of it and in
\* order, besides the pages it was given: the templates around it, those that
\* ran inside it and those that failed there have left nothing in it.  That
\* takes templates that close the buffers they open, and no others.
PageIsItsTemplate ==
  hist.tidy =>
    \A c \in Ids : hist.state[c] = "returned" =>
      LET page == hist.whole[c] IN
      /\ \A x \in Chunks(page) : x.of \in {c} \cup hist.used[c]
      /\ hist.direct[c] \subseteq {x.number : x \in Chunks(page)}
      /\ \A i, j \in DOMAIN page :
           i < j /\ page[i].of = c /\ page[j].of = c => page[i].number < page[j].number

\* Nothing of a page whose template threw is left anywhere, although what it
\* wrote lay in a buffer of the stack that everybody shares.
FailedPageIsGone ==
  hist.tidy => \A x \in Everywhere : x.of # 0 => hist.state[x.of] # "failed"

\* When no template runs, the output buffers are the ones PHP code has opened
\* and not closed: render() neither leaves a buffer behind nor takes one that is
\* not its own, however its template ended, and display() touches none.
BuffersRestored ==
  hist.tidy /\ calls = <<>> =>
    /\ \A i \in DOMAIN buf : ~buf[i].yaf
    /\ Len(buf) + hist.closes = hist.opens

\* No chunk is in two places: a page is in its buffer, in PHP code's hands, in
\* the response or with the client; a dispatch that ends moves it from the one
\* to the other.  Only what PHP code or the exception handler has sent, which
\* leaves it in the body, may be found again.
NothingTwice ==
  LET Once(text) == \A i, j \in DOMAIN text : text[i] = text[j] => i = j \/ text[i] \in hist.shown
      held == {<<"page", p>> : p \in pages} \cup {<<"buf", i>> : i \in DOMAIN buf}
              \cup {<<"body", i>> : i \in DOMAIN body} \cup {<<"out", 0>>}
      text(x) == CASE x[1] = "page" -> hist.whole[x[2]]
                   [] x[1] = "buf" -> buf[x[2]].text
                   [] x[1] = "body" -> body[x[2]].text
                   [] x[1] = "out" -> out
  IN /\ \A x \in held : Once(text(x))
     /\ \A x, y \in held : x # y => Chunks(text(x)) \cap Chunks(text(y)) \subseteq hist.shown

=============================================================================
