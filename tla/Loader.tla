------------------------------- MODULE Loader -------------------------------
(***************************************************************************)
(* sknobs_load, sknobs_load_string and sknobs_load_file, which call one    *)
(* another for every -f: one stack frame per activation, with the index    *)
(* and the argState of its loop and the comment pointer it hands to every  *)
(* knob it adds.  For a file that pointer leads into one of two static     *)
(* buffers, filename_buffer of sknobs_find_file or eval_buffer, which the  *)
(* next -f overwrites.                                                     *)
(***************************************************************************)
EXTENDS KnobFiles

CONSTANTS
  Comments,   \* texts passed as comment by the program
  FileText,   \* "file", the comment of the knobs of plain arguments
  Empty,      \* the empty string
  Boot,       \* the knobs before the first load
  MaxKnobs    \* bound: no load is begun once the list is this long

VARIABLES
  list,        \* sknob_list
  origin,      \* history: the source of each knob, and whether it was read
               \* before its file overwrote the buffer with its name
  stack,       \* the activations of sknobs_load, innermost last
  fileBuffer,  \* filename_buffer: the last path sknobs_find_file tried
  evalBuffer,  \* eval_buffer: the names of the last -f list
  status       \* "loading", or how the last load ended

vars == <<list, origin, stack, fileBuffer, evalBuffer, status>>

(* Comments are compared with file names: both are paths here.  A pointer  *)
(* leads to a text nobody changes, to fileBuffer, or to a place in         *)
(* evalBuffer: the names of a list are taken to be equally long, so that   *)
(* the place is a position in the list.                                    *)
Strings == (Values \cup {NoDir}) \X (FileNames \cup Comments \cup {FileText, Empty})
TextAt(s) == [to |-> "text", text |-> s, at |-> 0]
FileBufferPointer == [to |-> "fileBuffer", text |-> <<NoDir, Empty>>, at |-> 0]
EvalBufferAt(k) == [to |-> "evalBuffer", text |-> <<NoDir, Empty>>, at |-> k]

Pointers == [to : {"text", "fileBuffer", "evalBuffer"}, text : Strings, at : Nat]
Knobs == [pattern : Patterns, value : Values, comment : Strings]
Origins == [source : Strings, fresh : BOOLEAN]
Frames == [args : Seq(Tokens), at : Nat \ {0}, argState : {"START", "DASHF", "IGNORE"},
           comment : Pointers, source : Strings, fresh : BOOLEAN]

ASSUME LoaderAssumption ==
  /\ Boot \in Seq(Knobs)
  /\ MaxKnobs \in Nat

TypeOK ==
  /\ list \in Seq(Knobs)
  /\ origin \in Seq(Origins)
  /\ stack \in Seq(Frames)
  /\ fileBuffer \in Strings
  /\ evalBuffer \in Seq(FileNames)
  /\ status \in {"ok", "loading", "error", "aborted"}
-----------------------------------------------------------------------------
\* What a comment pointer leads to now.
Read(p) ==
  IF p.to = "text" THEN p.text
  ELSE IF p.to = "fileBuffer" THEN fileBuffer
  ELSE <<NoDir, IF p.at \in DOMAIN evalBuffer THEN evalBuffer[p.at] ELSE Empty>>

\* sknobs_find_file: the directories of the search path, in the list's order,
\* and those that have the file.
SearchPath == {i \in DOMAIN list : list[i].pattern \in PathPatterns}
Having(n) == {i \in SearchPath : <<list[i].value, n>> \in Existing}

\* Fault of FoundFile: a later directory is preferred.
FoundLast(n) ==
  IF Having(n) = {} THEN <<NoDir, n>> ELSE <<list[Max(Having(n))].value, n>>

FoundFile(n) ==
  IF Having(n) = {} THEN <<NoDir, n>> ELSE <<list[Min(Having(n))].value, n>>

\* The path it tried last, found or not; the fault forgets the directory.
LastTriedName(n) == IF SearchPath # {} THEN n ELSE fileBuffer
LastTried(n) ==
  IF Having(n) # {} THEN <<list[Min(Having(n))].value, n>>
  ELSE IF SearchPath # {} THEN <<list[Max(SearchPath)].value, n>>
  ELSE fileBuffer

Frame(args, pointer, source) ==
  [args |-> args, at |-> 1, argState |-> "START", comment |-> pointer,
   source |-> source, fresh |-> TRUE]

Stop(why) == status' = why /\ stack' = <<>>

\* sknobs_load_file: read it whole, uncomment it, tokenize it and load it.
LoadTokens(args, pointer, source, callers) ==
  IF TooMany(args) THEN Stop("aborted")
  ELSE /\ stack' = Append(callers, Frame(args, pointer, source))
       /\ status' = "loading"

LoadPath(p, pointer, callers) ==
  IF p \in DOMAIN Contents THEN LoadTokens(Contents[p], pointer, p, callers)
                           ELSE Stop("error")
-----------------------------------------------------------------------------
Init ==
  /\ list = Boot
  /\ origin = [k \in DOMAIN Boot |-> [source |-> Boot[k].comment, fresh |-> TRUE]]
  /\ stack = <<>>
  /\ fileBuffer = <<NoDir, Empty>>
  /\ evalBuffer = <<>>
  /\ status = "ok"

Idle == status \in {"ok", "error"} /\ Len(list) < MaxKnobs

\* The program's calls.
Load(args, c) ==
  /\ Idle
  /\ stack' = <<Frame(args, TextAt(<<NoDir, c>>), <<NoDir, c>>)>>
  /\ status' = "loading"
  /\ UNCHANGED <<list, origin, fileBuffer, evalBuffer>>

LoadString(args, c) ==
  /\ Idle
  /\ LoadTokens(args, TextAt(<<NoDir, c>>), <<NoDir, c>>, <<>>)
  /\ UNCHANGED <<list, origin, fileBuffer, evalBuffer>>

LoadFile(p) ==
  /\ Idle
  /\ LoadPath(p, TextAt(p), <<>>)
  /\ UNCHANGED <<list, origin, fileBuffer, evalBuffer>>

LoadFileIfExists(p) ==
  /\ Idle
  /\ IF p \in Existing THEN LoadPath(p, TextAt(p), <<>>) ELSE Stop("ok")
  /\ UNCHANGED <<list, origin, fileBuffer, evalBuffer>>

\* The loop of the innermost sknobs_load.
Top == stack[Len(stack)]
Token == Top.args[Top.at]
More == stack # <<>> /\ Top.at <= Len(Top.args)
InState(s) == More /\ Top.argState = s

\* It goes on with the next token, in another state.
Moved(s, fresh) ==
  [stack EXCEPT ![Len(stack)] =
     [Top EXCEPT !.at = Top.at + 1, !.argState = s, !.fresh = fresh]]
Turned(s) == Moved(s, Top.fresh)

\* Fault of Record: the knobs of a file carry the comment of its includer.
RecordCaller(bs, c) ==
  LET d == IF c.to # "text" /\ Len(stack) > 1 THEN stack[Len(stack) - 1].comment ELSE c
  IN  list' = list \o [i \in DOMAIN bs |->
        [pattern |-> bs[i].pattern, value |-> bs[i].value, comment |-> Read(d)]]

\* sknobs_add copies what the comment pointer leads to.
Record(bs, c) ==
  list' = list \o [i \in DOMAIN bs |->
    [pattern |-> bs[i].pattern, value |-> bs[i].value, comment |-> Read(c)]]

Remember(bs, source, fresh) ==
  origin' = origin \o [i \in DOMAIN bs |-> [source |-> source, fresh |-> fresh]]

ExpectList ==
  /\ InState("START") /\ Kind[Token] = "-f"
  /\ stack' = Turned("DASHF")
  /\ UNCHANGED <<list, origin, fileBuffer, evalBuffer, status>>

ExpectIgnored ==
  /\ InState("START") /\ Kind[Token] = "-pli"
  /\ stack' = Turned("IGNORE")
  /\ UNCHANGED <<list, origin, fileBuffer, evalBuffer, status>>

Ignore ==
  /\ InState("IGNORE")
  /\ stack' = Turned("START")
  /\ UNCHANGED <<list, origin, fileBuffer, evalBuffer, status>>

LonePlus ==
  /\ InState("START") /\ Kind[Token] = "+"
  /\ stack' = Turned("START")
  /\ UNCHANGED <<list, origin, fileBuffer, evalBuffer, status>>

PlainFile ==
  LET name == <<Bind(FilesName, Text[Token])>>
  IN  /\ InState("START") /\ Kind[Token] = "file"
      /\ Record(name, TextAt(<<NoDir, FileText>>))
      /\ Remember(name, <<NoDir, FileText>>, TRUE)
      /\ stack' = Turned("START")
      /\ UNCHANGED <<fileBuffer, evalBuffer, status>>

AddKnob ==
  LET bs == AddString(Token)
  IN  /\ InState("START") /\ AddsKnobs(Token)
      /\ Record(bs, Top.comment)
      /\ Remember(bs, Top.source, Top.fresh)
      /\ IF Refuses(Token) THEN Stop("error")
                           ELSE stack' = Turned("START") /\ UNCHANGED status
      /\ UNCHANGED <<fileBuffer, evalBuffer>>

\* sknobs_load_dashf: choose a name of the list, find the file, load it.  The
\* caller goes on with its next token when the call returns; whatever its
\* comment pointer leads to, unless it is a text, is overwritten.
Include ==
  LET names == Alternatives[Token]
      callers == Moved("START", Top.fresh /\ Top.comment.to = "text")
  IN  /\ InState("DASHF") \/ (InState("START") /\ Kind[Token] = "-f list")
      /\ \E k \in DOMAIN names :
           LET n == names[k]
           IN  /\ fileBuffer' = LastTried(n)
               /\ LoadPath(FoundFile(n),
                    IF Having(n) = {} THEN EvalBufferAt(k) ELSE FileBufferPointer,
                    callers)
      /\ evalBuffer' = names
      /\ UNCHANGED <<list, origin>>

Finished == stack # <<>> /\ ~More

\* Fault of Return: the outermost call does not answer.
ReturnForgets ==
  /\ Finished
  /\ IF Top.argState # "START" THEN Stop("error")
     ELSE stack' = SubSeq(stack, 1, Len(stack) - 1) /\ UNCHANGED status
  /\ UNCHANGED <<list, origin, fileBuffer, evalBuffer>>

\* The end of argv: "missing filename for final -f", or back to the caller.
Return ==
  /\ Finished
  /\ IF Top.argState # "START" THEN Stop("error")
     ELSE IF Len(stack) = 1 THEN Stop("ok")
     ELSE stack' = SubSeq(stack, 1, Len(stack) - 1) /\ UNCHANGED status
  /\ UNCHANGED <<list, origin, fileBuffer, evalBuffer>>

Step ==
  \/ ExpectList
  \/ ExpectIgnored
  \/ Ignore
  \/ LonePlus
  \/ PlainFile
  \/ AddKnob
  \/ Include
  \/ Return

Next ==
  \/ \E args \in CommandLines, c \in Comments : Load(args, c) \/ LoadString(args, c)
  \/ \E p \in Paths : LoadFile(p) \/ LoadFileIfExists(p)
  \/ Step

Spec == Init /\ [][Next]_vars

\* A load runs to its end: nothing but its own code delays it.
FairSpec == Spec /\ WF_vars(Step)
-----------------------------------------------------------------------------
(* Properties.                                                             *)

\* A knob carries the name of the source it was read from, although the name of
\* a file lives in a static buffer: every file's own knobs do as long as it has
\* included no other (filename_buffer, eval_buffer; sknobs_dump and sknobs_save
\* show the comment).
Provenance ==
  \A k \in DOMAIN list : origin[k].fresh => list[k].comment = origin[k].source

\* However files include one another, as long as none includes itself, the
\* three mutually recursive functions return.
LoadEnds == status = "loading" ~> status # "loading"

\* Loading is textual inclusion in reading order: what the frames still have to
\* read, innermost first, is what is left to obey.
Remaining ==
  LET rest[d \in 0 .. Len(stack)] ==
        IF d = 0 THEN <<>>
        ELSE Statements(stack[d].args, stack[d].at, stack[d].argState) \o rest[d - 1]
  IN  rest[Len(stack)]

Bindings == [k \in DOMAIN list |-> Bind(list[k].pattern, list[k].value)]

Inclusion == INSTANCE Expansion WITH
               todo <- Remaining, knobs <- Bindings, outcome <- status
ImplementsExpansion == Inclusion!Spec
=============================================================================
