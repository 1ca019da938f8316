----------------------------- MODULE LoaderProofs ----------------------------
(***************************************************************************)
(* The loader for every set of tokens, files and search paths, and for     *)
(* files nested, or including themselves, to any depth: its state is well  *)
(* formed, a knob carries the name of its source, and loading is textual   *)
(* inclusion.                                                              *)
(***************************************************************************)
EXTENDS Loader, Extrema, SequenceTheorems

(* What the operators of the model return.                                 *)

LEMMA AddStringType ==
  ASSUME NEW t \in Tokens
  PROVE  AddString(t) \in Seq(Binding)
<1>1. /\ \A p \in Patterns, v \in Values : <<Bind(p, v)>> \in Seq(Binding)
      /\ <<>> \in Seq(Binding)
  BY DEF Bind, Binding
<1>2. /\ Pattern[t] \in Patterns /\ Value[t] \in Values /\ Text[t] \in Values
      /\ DefinesName \in Patterns /\ UndefinesName \in Patterns
  BY TokensAssumption
<1>3. Listed(t) \in Seq(Binding)
  BY <1>1, <1>2 DEF Listed
<1>4. Given(t) \in Seq(Binding)
  BY <1>1, <1>2 DEF Given
<1> QED
  BY <1>3, <1>4, ConcatProperties DEF AddString

\* A comment pointer always leads to a string.
LEMMA ReadType ==
  ASSUME TypeOK, NEW p \in Pointers
  PROVE  Read(p) \in Strings
<1>1. p.text \in Strings /\ p.at \in Nat /\ fileBuffer \in Strings
  BY DEF Pointers, TypeOK
<1>2. ASSUME p.at \in DOMAIN evalBuffer
      PROVE  evalBuffer[p.at] \in FileNames
  BY <1>2, ElementOfSeq DEF TypeOK
<1>3. <<NoDir, IF p.at \in DOMAIN evalBuffer THEN evalBuffer[p.at] ELSE Empty>> \in Strings
  BY <1>2 DEF Strings
<1> QED
  BY <1>1, <1>3 DEF Read

\* sknobs_find_file returns the path it tried last, or the name it was given.
LEMMA FindProperties ==
  ASSUME TypeOK, NEW n \in FileNames
  PROVE  /\ FoundFile(n) \in Strings /\ FoundFile(n) \in Paths
         /\ LastTried(n) \in Strings
         /\ Having(n) # {} => LastTried(n) = FoundFile(n)
         /\ Having(n) = {} => FoundFile(n) = <<NoDir, n>>
<1>1. list \in Seq(Knobs) /\ DOMAIN list = 1 .. Len(list) /\ Len(list) \in Nat
  BY DEF TypeOK
<1>2. \A i \in DOMAIN list : list[i].value \in Values
  <2>1. \A i \in DOMAIN list : list[i] \in Knobs
    BY <1>1, ElementOfSeq
  <2>2. \A e \in Knobs : e.value \in Values
    BY DEF Knobs
  <2> QED
    BY <2>1, <2>2
<1>3. SearchPath \subseteq 1 .. Len(list) /\ Having(n) \subseteq SearchPath
  BY <1>1 DEF SearchPath, Having
<1>4. \A v \in Values \cup {NoDir} : <<v, n>> \in Strings /\ <<v, n>> \in Paths
  BY DEF Strings, Paths
<1>5. Having(n) # {} => Min(Having(n)) \in Having(n)
  BY <1>1, <1>3, MinOfNaturals
<1>6. SearchPath # {} => Max(SearchPath) \in SearchPath
  BY <1>1, <1>3, MaxOfPositions
<1>7. FoundFile(n) \in Strings /\ FoundFile(n) \in Paths
  BY <1>1, <1>2, <1>3, <1>4, <1>5 DEF FoundFile
<1>8. LastTried(n) \in Strings
  BY <1>1, <1>2, <1>3, <1>4, <1>5, <1>6 DEF LastTried, TypeOK
<1> QED
  BY <1>7, <1>8 DEF LastTried, FoundFile

\* A new activation.
LEMMA FrameType ==
  ASSUME NEW args \in Seq(Tokens), NEW p \in Pointers, NEW s \in Strings
  PROVE  Frame(args, p, s) \in Frames
BY DEF Frame, Frames

LEMMA PointersAreTyped ==
  /\ \A s \in Strings : TextAt(s) \in Pointers
  /\ FileBufferPointer \in Pointers
  /\ \A k \in Nat : EvalBufferAt(k) \in Pointers
  /\ \A c \in Comments \cup {FileText, Empty} : <<NoDir, c>> \in Strings
  /\ Paths \subseteq Strings
BY DEF TextAt, FileBufferPointer, EvalBufferAt, Pointers, Strings, Paths

\* The innermost activation is at one of its tokens, and moves on to the next.
LEMMA TopProperties ==
  ASSUME TypeOK, More
  PROVE  /\ Len(stack) \in Nat \ {0} /\ DOMAIN stack = 1 .. Len(stack)
         /\ Top \in Frames /\ Top = stack[Len(stack)]
         /\ Token \in Tokens
<1>1. Len(stack) \in Nat \ {0} /\ DOMAIN stack = 1 .. Len(stack)
  BY DEF TypeOK, More
<1>2. Top \in Frames
  BY <1>1, ElementOfSeq DEF TypeOK, Top
<1>3. Top.args \in Seq(Tokens) /\ Top.at \in Nat \ {0}
  BY <1>2 DEF Frames
<1>4. Top.at \in 1 .. Len(Top.args)
  BY <1>3 DEF More
<1>5. Top.args[Top.at] \in Tokens
  BY <1>3, <1>4, ElementOfSeq
<1> QED
  BY <1>1, <1>2, <1>5 DEF Top, Token

LEMMA MovedProperties ==
  ASSUME TypeOK, More, NEW s \in {"START", "DASHF", "IGNORE"}, NEW b \in BOOLEAN
  PROVE  /\ Moved(s, b) \in Seq(Frames)
         /\ Len(Moved(s, b)) = Len(stack)
         /\ \E f \in Frames :
              /\ f.comment = Top.comment /\ f.source = Top.source /\ f.fresh = b
              /\ \A d \in 1 .. Len(stack) :
                   Moved(s, b)[d] = IF d = Len(stack) THEN f ELSE stack[d]
<1> DEFINE f == [Top EXCEPT !.at = Top.at + 1, !.argState = s, !.fresh = b]
<1>1. /\ Len(stack) \in Nat \ {0} /\ DOMAIN stack = 1 .. Len(stack)
      /\ Top \in Frames /\ Top = stack[Len(stack)]
  BY TopProperties
<1>2. Top.at + 1 \in Nat \ {0}
  BY <1>1 DEF Frames
<1>3. f \in Frames /\ f.comment = Top.comment /\ f.source = Top.source /\ f.fresh = b
  BY <1>1, <1>2 DEF Frames
<1>4. Moved(s, b) = [stack EXCEPT ![Len(stack)] = f]
  BY DEF Moved
<1> HIDE DEF f
<1>5. /\ Moved(s, b) \in Seq(Frames)
      /\ Len(Moved(s, b)) = Len(stack)
      /\ \A d \in 1 .. Len(stack) :
           Moved(s, b)[d] = IF d = Len(stack) THEN f ELSE stack[d]
  BY <1>1, <1>3, <1>4, ExceptSeq DEF TypeOK
<1> QED
  BY <1>3, <1>5

LEMMA TurnedType ==
  ASSUME TypeOK, More, NEW s \in {"START", "DASHF", "IGNORE"}
  PROVE  Turned(s) \in Seq(Frames)
<1>1. Top.fresh \in BOOLEAN
  BY TopProperties DEF Frames
<1> QED
  BY <1>1, MovedProperties DEF Turned

LEMMA LoadPathType ==
  ASSUME NEW p \in Paths, NEW c \in Pointers, NEW callers \in Seq(Frames),
         LoadPath(p, c, callers)
  PROVE  /\ stack' \in Seq(Frames)
         /\ status' \in {"loading", "error", "aborted"}
<1>1. CASE p \in DOMAIN Contents /\ ~TooMany(Contents[p])
  <2>1. Frame(Contents[p], c, p) \in Frames
    BY <1>1, FilesAssumption, FrameType, PointersAreTyped
  <2>2. stack' = Append(callers, Frame(Contents[p], c, p)) /\ status' = "loading"
    BY <1>1 DEF LoadPath, LoadTokens
  <2> QED
    BY <2>1, <2>2
<1>2. \A why : Stop(why) => stack' \in Seq(Frames) /\ status' = why
  BY DEF Stop
<1>3. CASE p \in DOMAIN Contents /\ TooMany(Contents[p])
  <2>1. Stop("aborted")
    BY <1>3 DEF LoadPath, LoadTokens
  <2> QED
    BY <1>2, <2>1
<1>4. CASE p \notin DOMAIN Contents
  <2>1. Stop("error")
    BY <1>4 DEF LoadPath
  <2> QED
    BY <1>2, <2>1
<1> QED
  BY <1>1, <1>3, <1>4

\* The knobs and their origins grow together, and only at the end.
LEMMA RecordProperties ==
  ASSUME TypeOK, NEW bs \in Seq(Binding), NEW c \in Pointers, Record(bs, c)
  PROVE  /\ list' \in Seq(Knobs)
         /\ Len(list') = Len(list) + Len(bs)
         /\ \A k \in 1 .. Len(list) : list'[k] = list[k]
         /\ \A k \in Len(list) + 1 .. Len(list') : list'[k].comment = Read(c)
<1> DEFINE new == [i \in DOMAIN bs |->
      [pattern |-> bs[i].pattern, value |-> bs[i].value, comment |-> Read(c)]]
<1>1. DOMAIN bs = 1 .. Len(bs) /\ Len(bs) \in Nat
  OBVIOUS
<1>2. \A i \in 1 .. Len(bs) : new[i] \in Knobs /\ new[i].comment = Read(c)
  <2>1. Read(c) \in Strings
    BY ReadType
  <2>2. \A i \in 1 .. Len(bs) : bs[i] \in Binding
    BY <1>1, ElementOfSeq
  <2> QED
    BY <1>1, <2>1, <2>2 DEF Binding, Knobs
<1>3. DOMAIN new = 1 .. Len(bs)
  BY <1>1
<1>4. list' = list \o new
  BY DEF Record
<1> HIDE DEF new
<1>5. new \in Seq(Knobs) /\ Len(new) = Len(bs)
  <2>1. new \in [1 .. Len(bs) -> Knobs]
    BY <1>2, <1>3, <1>1 DEF new
  <2> QED
    BY <1>1, <2>1, SeqDef, LenProperties
<1>6. list \in Seq(Knobs) /\ Len(list) \in Nat
  BY DEF TypeOK
<1>7. /\ list \o new \in Seq(Knobs)
      /\ Len(list \o new) = Len(list) + Len(new)
      /\ \A k \in 1 .. Len(list) + Len(new) :
           (list \o new)[k] = IF k <= Len(list) THEN list[k] ELSE new[k - Len(list)]
  BY <1>5, <1>6, ConcatProperties
<1> QED
  BY <1>1, <1>2, <1>4, <1>5, <1>6, <1>7

LEMMA RememberProperties ==
  ASSUME TypeOK, NEW bs \in Seq(Binding), NEW s \in Strings, NEW b \in BOOLEAN,
         Remember(bs, s, b)
  PROVE  /\ origin' \in Seq(Origins)
         /\ Len(origin') = Len(origin) + Len(bs)
         /\ \A k \in 1 .. Len(origin) : origin'[k] = origin[k]
         /\ \A k \in Len(origin) + 1 .. Len(origin') :
              origin'[k].source = s /\ origin'[k].fresh = b
<1> DEFINE new == [i \in DOMAIN bs |-> [source |-> s, fresh |-> b]]
<1>1. DOMAIN bs = 1 .. Len(bs) /\ Len(bs) \in Nat
  OBVIOUS
<1>2. \A i \in 1 .. Len(bs) : new[i].source = s /\ new[i].fresh = b
  BY <1>1
<1>3. new \in [1 .. Len(bs) -> Origins]
  BY <1>1 DEF Origins
<1>4. origin' = origin \o new
  BY DEF Remember
<1> HIDE DEF new
<1>5. new \in Seq(Origins) /\ Len(new) = Len(bs)
  BY <1>1, <1>3, SeqDef, LenProperties
<1>6. origin \in Seq(Origins) /\ Len(origin) \in Nat
  BY DEF TypeOK
<1>7. /\ origin \o new \in Seq(Origins)
      /\ Len(origin \o new) = Len(origin) + Len(new)
      /\ \A k \in 1 .. Len(origin) + Len(new) :
           (origin \o new)[k] =
             IF k <= Len(origin) THEN origin[k] ELSE new[k - Len(origin)]
  BY <1>5, <1>6, ConcatProperties
<1> QED
  BY <1>1, <1>2, <1>4, <1>5, <1>6, <1>7
-----------------------------------------------------------------------------
(* Types.                                                                  *)

LEMMA InitType == Init => TypeOK
<1> SUFFICES ASSUME Init PROVE TypeOK
  OBVIOUS
<1>1. list \in Seq(Knobs) /\ DOMAIN list = 1 .. Len(list) /\ Len(list) \in Nat
  BY LoaderAssumption DEF Init
<1>2. origin \in Seq(Origins)
  <2>1. \A k \in DOMAIN list : list[k].comment \in Strings
    <3>1. \A k \in DOMAIN list : list[k] \in Knobs
      BY <1>1, ElementOfSeq
    <3> QED
      BY <3>1 DEF Knobs
  <2>2. origin = [k \in 1 .. Len(list) |-> [source |-> list[k].comment, fresh |-> TRUE]]
    BY <1>1 DEF Init
  <2>3. origin \in [1 .. Len(list) -> Origins]
    BY <1>1, <2>1, <2>2 DEF Origins
  <2> QED
    BY <1>1, <2>3, SeqDef
<1>3. stack \in Seq(Frames) /\ evalBuffer \in Seq(FileNames)
  BY DEF Init
<1>4. fileBuffer \in Strings
  BY DEF Init, Strings
<1> QED
  BY <1>1, <1>2, <1>3, <1>4 DEF Init, TypeOK

\* A call of the program leaves everything but the stack and the status alone.
LEMMA CallType ==
  ASSUME TypeOK,
         \/ \E args \in CommandLines, c \in Comments :
              Load(args, c) \/ LoadString(args, c)
         \/ \E p \in Paths : LoadFile(p) \/ LoadFileIfExists(p)
  PROVE  TypeOK'
<1>1. <<>> \in Seq(Frames)
  OBVIOUS
<1>2. ASSUME NEW args \in CommandLines, NEW c \in Comments, Load(args, c)
      PROVE  TypeOK'
  <2>1. args \in Seq(Tokens)
    BY TokensAssumption
  <2>2. Frame(args, TextAt(<<NoDir, c>>), <<NoDir, c>>) \in Frames
    BY <2>1, FrameType, PointersAreTyped
  <2>3. stack' \in Seq(Frames)
    BY <1>2, <2>2 DEF Load
  <2> QED
    BY <1>2, <2>3 DEF Load, TypeOK
<1>3. ASSUME NEW args \in CommandLines, NEW c \in Comments, LoadString(args, c)
      PROVE  TypeOK'
  <2>1. args \in Seq(Tokens)
    BY TokensAssumption
  <2>2. Frame(args, TextAt(<<NoDir, c>>), <<NoDir, c>>) \in Frames
    BY <2>1, FrameType, PointersAreTyped
  <2>3. CASE TooMany(args)
    <3>1. stack' = <<>> /\ status' = "aborted"
      BY <1>3, <2>3 DEF LoadString, LoadTokens, Stop
    <3> QED
      BY <1>1, <1>3, <3>1 DEF LoadString, TypeOK
  <2>4. CASE ~TooMany(args)
    <3>1. /\ stack' = Append(<<>>, Frame(args, TextAt(<<NoDir, c>>), <<NoDir, c>>))
          /\ status' = "loading"
      BY <1>3, <2>4 DEF LoadString, LoadTokens
    <3>2. stack' \in Seq(Frames)
      BY <1>1, <2>2, <3>1
    <3> QED
      BY <1>3, <3>1, <3>2 DEF LoadString, TypeOK
  <2> QED
    BY <2>3, <2>4
<1>4. ASSUME NEW p \in Paths, LoadFile(p)
      PROVE  TypeOK'
  <2>1. TextAt(p) \in Pointers
    BY PointersAreTyped
  <2>2. LoadPath(p, TextAt(p), <<>>)
    BY <1>4 DEF LoadFile
  <2>3. stack' \in Seq(Frames) /\ status' \in {"loading", "error", "aborted"}
    BY <1>1, <2>1, <2>2, LoadPathType
  <2> QED
    BY <1>4, <2>3 DEF LoadFile, TypeOK
<1>5. ASSUME NEW p \in Paths, LoadFileIfExists(p)
      PROVE  TypeOK'
  <2>1. TextAt(p) \in Pointers
    BY PointersAreTyped
  <2>2. LoadPath(p, TextAt(p), <<>>) \/ Stop("ok")
    BY <1>5 DEF LoadFileIfExists
  <2>3. stack' \in Seq(Frames) /\ status' \in {"ok", "loading", "error", "aborted"}
    BY <1>1, <2>1, <2>2, LoadPathType DEF Stop
  <2> QED
    BY <1>5, <2>3 DEF LoadFileIfExists, TypeOK
<1> QED
  BY <1>2, <1>3, <1>4, <1>5

\* The tokens that only turn the state of the loop.
Turn == ExpectList \/ ExpectIgnored \/ Ignore \/ LonePlus

LEMMA TurnProperties ==
  ASSUME Turn
  PROVE  /\ More
         /\ \E s \in {"START", "DASHF", "IGNORE"} : stack' = Turned(s)
         /\ UNCHANGED <<list, origin, fileBuffer, evalBuffer, status>>
BY DEF Turn, ExpectList, ExpectIgnored, Ignore, LonePlus, InState

\* The tokens that add knobs: which, with whose comment and source, and where
\* the loop goes on.
LEMMA AddingProperties ==
  ASSUME TypeOK, PlainFile \/ AddKnob
  PROVE  \E bs \in Seq(Binding), c \in Pointers, s \in Strings, b \in BOOLEAN :
           /\ Record(bs, c) /\ Remember(bs, s, b)
           /\ \/ c = TextAt(s)
              \/ c = Top.comment /\ s = Top.source /\ b = Top.fresh
           /\ More
           /\ \/ stack' = Turned("START") /\ status' = status
              \/ stack' = <<>> /\ status' = "error"
           /\ UNCHANGED <<fileBuffer, evalBuffer>>
<1>1. CASE PlainFile
  <2>1. More
    BY <1>1 DEF PlainFile, InState
  <2>2. <<Bind(FilesName, Text[Token])>> \in Seq(Binding)
    <3>1. FilesName \in Patterns /\ Text[Token] \in Values
      BY <2>1, TopProperties, TokensAssumption
    <3> QED
      BY <3>1 DEF Bind, Binding
  <2>3. TextAt(<<NoDir, FileText>>) \in Pointers /\ <<NoDir, FileText>> \in Strings
    BY PointersAreTyped
  <2> QED
    BY <1>1, <2>1, <2>2, <2>3 DEF PlainFile
<1>2. CASE AddKnob
  <2>1. More
    BY <1>2 DEF AddKnob, InState
  <2>2. AddString(Token) \in Seq(Binding)
    BY <2>1, TopProperties, AddStringType
  <2>3. Top.comment \in Pointers /\ Top.source \in Strings /\ Top.fresh \in BOOLEAN
    BY <2>1, TopProperties DEF Frames
  <2>4. \/ stack' = Turned("START") /\ status' = status
        \/ stack' = <<>> /\ status' = "error"
    BY <1>2 DEF AddKnob, Stop
  <2> QED
    BY <1>2, <2>1, <2>2, <2>3, <2>4 DEF AddKnob
<1> QED
  BY <1>1, <1>2

LEMMA AddingType ==
  ASSUME TypeOK, PlainFile \/ AddKnob
  PROVE  TypeOK'
<1>1. PICK bs \in Seq(Binding), c \in Pointers, s \in Strings, b \in BOOLEAN :
        /\ Record(bs, c) /\ Remember(bs, s, b)
        /\ More
        /\ \/ stack' = Turned("START") /\ status' = status
           \/ stack' = <<>> /\ status' = "error"
        /\ UNCHANGED <<fileBuffer, evalBuffer>>
  BY AddingProperties
<1>2. list' \in Seq(Knobs) /\ origin' \in Seq(Origins)
  BY <1>1, RecordProperties, RememberProperties
<1>3. stack' \in Seq(Frames) /\ status' \in {"ok", "loading", "error", "aborted"}
  <2>1. Turned("START") \in Seq(Frames) /\ <<>> \in Seq(Frames)
    BY <1>1, TurnedType
  <2> QED
    BY <1>1, <2>1 DEF TypeOK
<1> QED
  BY <1>1, <1>2, <1>3 DEF TypeOK

\* What an inclusion does to the state: the caller has moved on, the buffers
\* hold the names, and the file found is loaded under the name it was found by.
LEMMA IncludeProperties ==
  ASSUME TypeOK, Include
  PROVE  \E names \in Seq(FileNames), k \in Nat \ {0} :
           LET n == names[k]
               c == IF Having(n) = {} THEN EvalBufferAt(k) ELSE FileBufferPointer
               callers == Moved("START", Top.fresh /\ Top.comment.to = "text")
           IN  /\ k \in DOMAIN names /\ n \in FileNames
               /\ More /\ c \in Pointers /\ callers \in Seq(Frames)
               /\ fileBuffer' = LastTried(n) /\ evalBuffer' = names
               /\ LoadPath(FoundFile(n), c, callers)
               /\ UNCHANGED <<list, origin>>
<1> DEFINE names == Alternatives[Token]
           callers == Moved("START", Top.fresh /\ Top.comment.to = "text")
           C(k) == IF Having(names[k]) = {} THEN EvalBufferAt(k) ELSE FileBufferPointer
<1>1. More /\ Token \in Tokens
  BY TopProperties DEF Include, InState
<1>2. names \in Seq(FileNames)
  BY <1>1, TokensAssumption
<1>3. callers \in Seq(Frames)
  <2>1. Top.fresh \in BOOLEAN /\ (Top.fresh /\ Top.comment.to = "text") \in BOOLEAN
    BY <1>1, TopProperties DEF Frames
  <2> QED
    BY <1>1, <2>1, MovedProperties
<1> HIDE DEF names, callers
<1>4. PICK k \in DOMAIN names :
        /\ fileBuffer' = LastTried(names[k])
        /\ LoadPath(FoundFile(names[k]), C(k), callers)
  BY DEF Include, names, callers
<1>5. k \in Nat \ {0} /\ names[k] \in FileNames
  BY <1>2, <1>4, ElementOfSeq
<1>6. C(k) \in Pointers
  BY <1>5, PointersAreTyped
<1>7. evalBuffer' = names /\ UNCHANGED <<list, origin>>
  BY DEF Include, names
<1> QED
  BY <1>1, <1>2, <1>3, <1>4, <1>5, <1>6, <1>7 DEF callers

LEMMA IncludeType ==
  ASSUME TypeOK, Include
  PROVE  TypeOK'
<1>1. PICK names \in Seq(FileNames), k \in Nat \ {0} :
        LET n == names[k]
            c == IF Having(n) = {} THEN EvalBufferAt(k) ELSE FileBufferPointer
            callers == Moved("START", Top.fresh /\ Top.comment.to = "text")
        IN  /\ n \in FileNames
            /\ c \in Pointers /\ callers \in Seq(Frames)
            /\ fileBuffer' = LastTried(n) /\ evalBuffer' = names
            /\ LoadPath(FoundFile(n), c, callers)
            /\ UNCHANGED <<list, origin>>
  BY IncludeProperties
<1>2. FoundFile(names[k]) \in Paths /\ LastTried(names[k]) \in Strings
  BY <1>1, FindProperties
<1>3. stack' \in Seq(Frames) /\ status' \in {"loading", "error", "aborted"}
  BY <1>1, <1>2, LoadPathType
<1> QED
  BY <1>1, <1>2, <1>3 DEF TypeOK

LEMMA ReturnType ==
  ASSUME TypeOK, Return
  PROVE  TypeOK'
<1>1. stack # <<>> /\ Len(stack) \in Nat \ {0}
  BY DEF Return, Finished, TypeOK
<1>2. SubSeq(stack, 1, Len(stack) - 1) \in Seq(Frames)
  BY <1>1, SubSeqProperties DEF TypeOK
<1>3. \/ stack' = <<>> /\ status' \in {"ok", "error"}
      \/ stack' = SubSeq(stack, 1, Len(stack) - 1) /\ status' = status
  BY DEF Return, Stop
<1>4. <<>> \in Seq(Frames)
  OBVIOUS
<1> QED
  BY <1>2, <1>3, <1>4 DEF Return, TypeOK

LEMMA NextType == TypeOK /\ [Next]_vars => TypeOK'
<1> SUFFICES ASSUME TypeOK, [Next]_vars PROVE TypeOK'
  OBVIOUS
<1>1. CASE \/ \E args \in CommandLines, c \in Comments :
                Load(args, c) \/ LoadString(args, c)
           \/ \E p \in Paths : LoadFile(p) \/ LoadFileIfExists(p)
  BY <1>1, CallType
<1>2. CASE Turn
  <2>1. stack' \in Seq(Frames)
    BY <1>2, TurnProperties, TurnedType
  <2> QED
    BY <1>2, <2>1, TurnProperties DEF TypeOK
<1>3. CASE PlainFile \/ AddKnob
  BY <1>3, AddingType
<1>4. CASE Include
  BY <1>4, IncludeType
<1>5. CASE Return
  BY <1>5, ReturnType
<1>6. CASE UNCHANGED vars
  BY <1>6 DEF vars, TypeOK
<1> QED
  BY <1>1, <1>2, <1>3, <1>4, <1>5, <1>6 DEF Next, Step, Turn

\* Whatever the files contain, the loader's state is well formed: the comment
\* pointers of every activation lead to a text or into one of the two buffers.
THEOREM LoaderTypeCorrect == Spec => []TypeOK
<1>1. Init => TypeOK
  BY InitType
<1>2. TypeOK /\ [Next]_vars => TypeOK'
  BY NextType
<1> QED
  BY <1>1, <1>2, PTL DEF Spec
-----------------------------------------------------------------------------
(* Provenance: what an activation reads through its comment pointer.       *)

\* An activation that has included no file reads the name of its own source;
\* one that waits for another and can still say so was given a text, which no
\* buffer can overwrite.
OwnNames ==
  \A d \in 1 .. Len(stack) :
    stack[d].fresh =>
      /\ Read(stack[d].comment) = stack[d].source
      /\ d < Len(stack) => stack[d].comment.to = "text"

Owned == Len(origin) = Len(list) /\ OwnNames /\ Provenance

\* What a comment pointer leads to after a step.
ReadNext(p) ==
  IF p.to = "text" THEN p.text
  ELSE IF p.to = "fileBuffer" THEN fileBuffer'
  ELSE <<NoDir, IF p.at \in DOMAIN evalBuffer' THEN evalBuffer'[p.at] ELSE Empty>>

OwnFrame(f) == f.fresh /\ ReadNext(f.comment) = f.source

LEMMA FreshFrame ==
  ASSUME NEW args, NEW p, NEW s, ReadNext(p) = s
  PROVE  OwnFrame(Frame(args, p, s))
BY DEF OwnFrame, Frame

LEMMA OwnNext ==
  ASSUME \A d \in 1 .. Len(stack') :
           stack'[d].fresh =>
             /\ ReadNext(stack'[d].comment) = stack'[d].source
             /\ d < Len(stack') => stack'[d].comment.to = "text"
  PROVE  OwnNames'
BY DEF OwnNames, Read, ReadNext

LEMMA TextsStay ==
  /\ \A s : Read(TextAt(s)) = s /\ ReadNext(TextAt(s)) = s
  /\ \A p : p.to = "text" => ReadNext(p) = Read(p)
BY DEF Read, ReadNext, TextAt

LEMMA SameBuffers ==
  ASSUME UNCHANGED <<fileBuffer, evalBuffer>>
  PROVE  \A p : ReadNext(p) = Read(p)
BY DEF Read, ReadNext

\* Knobs already in the list keep what they have.
LEMMA SameList ==
  ASSUME Owned, UNCHANGED <<list, origin>>
  PROVE  (Len(origin) = Len(list))' /\ Provenance'
BY DEF Owned, Provenance

LEMMA InitOwned == Init => Owned
<1> SUFFICES ASSUME Init PROVE Owned
  OBVIOUS
<1>1. list \in Seq(Knobs) /\ DOMAIN list = 1 .. Len(list) /\ Len(list) \in Nat
  BY LoaderAssumption DEF Init
<1>2. origin = [k \in 1 .. Len(list) |-> [source |-> list[k].comment, fresh |-> TRUE]]
  BY <1>1 DEF Init
<1>3. Len(origin) = Len(list)
  BY <1>1, <1>2, LenProperties, InitType DEF TypeOK
<1>4. Provenance
  BY <1>1, <1>2 DEF Provenance
<1>5. OwnNames
  BY DEF Init, OwnNames
<1> QED
  BY <1>3, <1>4, <1>5 DEF Owned

\* A load that begins: no activation, or one that reads its own name.
LEMMA BeginOwned ==
  ASSUME Owned, UNCHANGED <<list, origin>>,
         \/ stack' = <<>>
         \/ \E f \in Frames : stack' = <<f>> /\ OwnFrame(f)
  PROVE  Owned'
<1>1. OwnNames'
  <2>1. CASE stack' = <<>>
    BY <2>1, OwnNext
  <2>2. ASSUME NEW f \in Frames, stack' = <<f>>, OwnFrame(f)
        PROVE  OwnNames'
    <3>1. Len(stack') = 1 /\ stack'[1] = f
      BY <2>2
    <3> QED
      BY <2>2, <3>1, OwnNext DEF OwnFrame
  <2> QED
    BY <2>1, <2>2
<1> QED
  BY <1>1, SameList DEF Owned

LEMMA CallOwned ==
  ASSUME Owned,
         \/ \E args \in CommandLines, c \in Comments :
              Load(args, c) \/ LoadString(args, c)
         \/ \E p \in Paths : LoadFile(p) \/ LoadFileIfExists(p)
  PROVE  Owned'
<1>1. \A args \in Seq(Tokens), s \in Strings :
        /\ Frame(args, TextAt(s), s) \in Frames
        /\ OwnFrame(Frame(args, TextAt(s), s))
  BY FrameType, PointersAreTyped, FreshFrame, TextsStay
<1>2. /\ \A c \in Comments : <<NoDir, c>> \in Strings
      /\ Paths \subseteq Strings
      /\ \A args \in CommandLines : args \in Seq(Tokens)
      /\ \A p \in DOMAIN Contents : Contents[p] \in Seq(Tokens)
  BY PointersAreTyped, TokensAssumption, FilesAssumption
<1>3. \A f : Append(<<>>, f) = <<f>>
  OBVIOUS
<1>4. ASSUME NEW args \in CommandLines, NEW c \in Comments, Load(args, c)
      PROVE  Owned'
  <2>1. stack' = <<Frame(args, TextAt(<<NoDir, c>>), <<NoDir, c>>)>>
        /\ UNCHANGED <<list, origin>>
    BY <1>4 DEF Load
  <2> QED
    BY <1>1, <1>2, <2>1, BeginOwned
<1>5. ASSUME NEW args \in CommandLines, NEW c \in Comments, LoadString(args, c)
      PROVE  Owned'
  <2>1. /\ \/ stack' = <<>>
           \/ stack' = <<Frame(args, TextAt(<<NoDir, c>>), <<NoDir, c>>)>>
        /\ UNCHANGED <<list, origin>>
    BY <1>3, <1>5 DEF LoadString, LoadTokens, Stop
  <2> QED
    BY <1>1, <1>2, <2>1, BeginOwned
<1>6. ASSUME NEW p \in Paths, LoadFile(p) \/ LoadFileIfExists(p)
      PROVE  Owned'
  <2>1. /\ LoadPath(p, TextAt(p), <<>>) \/ Stop("ok")
        /\ UNCHANGED <<list, origin>>
    BY <1>6 DEF LoadFile, LoadFileIfExists
  <2>2. \/ stack' = <<>>
        \/ p \in DOMAIN Contents /\ stack' = <<Frame(Contents[p], TextAt(p), p)>>
    BY <1>3, <2>1 DEF LoadPath, LoadTokens, Stop
  <2> QED
    BY <1>1, <1>2, <2>1, <2>2, BeginOwned
<1> QED
  BY <1>4, <1>5, <1>6

\* The loop goes on: the same activations, with the same pointers.
LEMMA TurnedOwned ==
  ASSUME TypeOK, OwnNames, More, UNCHANGED <<fileBuffer, evalBuffer>>,
         NEW s \in {"START", "DASHF", "IGNORE"}, stack' = Turned(s)
  PROVE  OwnNames'
<1>1. Len(stack) \in Nat \ {0} /\ Top = stack[Len(stack)] /\ Top.fresh \in BOOLEAN
  BY TopProperties DEF Frames
<1>2. /\ Len(stack') = Len(stack)
      /\ \A d \in 1 .. Len(stack) :
           /\ stack'[d].comment = stack[d].comment
           /\ stack'[d].source = stack[d].source
           /\ stack'[d].fresh = stack[d].fresh
  <2>1. stack' = Moved(s, Top.fresh)
    BY DEF Turned
  <2>2. PICK f \in Frames :
          /\ f.comment = Top.comment /\ f.source = Top.source /\ f.fresh = Top.fresh
          /\ \A d \in 1 .. Len(stack) :
               Moved(s, Top.fresh)[d] = IF d = Len(stack) THEN f ELSE stack[d]
    BY <1>1, MovedProperties
  <2>3. Len(Moved(s, Top.fresh)) = Len(stack)
    BY <1>1, MovedProperties
  <2> QED
    BY <1>1, <2>1, <2>2, <2>3
<1> QED
  BY <1>2, SameBuffers, OwnNext DEF OwnNames

LEMMA AddingOwned ==
  ASSUME TypeOK, Owned, PlainFile \/ AddKnob
  PROVE  Owned'
<1>1. PICK bs \in Seq(Binding), c \in Pointers, s \in Strings, b \in BOOLEAN :
        /\ Record(bs, c) /\ Remember(bs, s, b)
        /\ \/ c = TextAt(s)
           \/ c = Top.comment /\ s = Top.source /\ b = Top.fresh
        /\ More
        /\ \/ stack' = Turned("START") /\ status' = status
           \/ stack' = <<>> /\ status' = "error"
        /\ UNCHANGED <<fileBuffer, evalBuffer>>
  BY AddingProperties
<1>2. b => Read(c) = s
  <2>1. CASE c = TextAt(s)
    BY <2>1, TextsStay
  <2>2. CASE c = Top.comment /\ s = Top.source /\ b = Top.fresh
    <3>1. Len(stack) \in 1 .. Len(stack) /\ Top = stack[Len(stack)]
      BY <1>1, TopProperties
    <3>2. Top.fresh => Read(Top.comment) = Top.source
      BY <3>1 DEF Owned, OwnNames
    <3> QED
      BY <2>2, <3>2
  <2> QED
    BY <1>1, <2>1, <2>2
<1>3. /\ list' \in Seq(Knobs)
      /\ Len(list') = Len(list) + Len(bs)
      /\ \A k \in 1 .. Len(list) : list'[k] = list[k]
      /\ \A k \in Len(list) + 1 .. Len(list') : list'[k].comment = Read(c)
  BY <1>1, RecordProperties
<1>4. /\ Len(origin') = Len(origin) + Len(bs)
      /\ \A k \in 1 .. Len(origin) : origin'[k] = origin[k]
      /\ \A k \in Len(origin) + 1 .. Len(origin') :
           origin'[k].source = s /\ origin'[k].fresh = b
  BY <1>1, RememberProperties
<1>5. /\ Len(list) \in Nat /\ Len(bs) \in Nat /\ Len(origin) = Len(list)
      /\ DOMAIN list = 1 .. Len(list)
      /\ Len(list') \in Nat /\ DOMAIN list' = 1 .. Len(list')
  BY <1>3 DEF TypeOK, Owned
<1>6. Provenance'
  <2>1. \A k \in 1 .. Len(list') :
          origin'[k].fresh => list'[k].comment = origin'[k].source
    <3> SUFFICES ASSUME NEW k \in 1 .. Len(list'), origin'[k].fresh
                 PROVE  list'[k].comment = origin'[k].source
      OBVIOUS
    <3>1. CASE k <= Len(list)
      <4>1. k \in DOMAIN list /\ list'[k] = list[k] /\ origin'[k] = origin[k]
        BY <1>3, <1>4, <1>5, <3>1
      <4> QED
        BY <4>1 DEF Owned, Provenance
    <3>2. CASE k > Len(list)
      <4>1. /\ list'[k].comment = Read(c)
            /\ origin'[k].source = s /\ origin'[k].fresh = b
        <5>1. k \in Len(list) + 1 .. Len(list') /\ k \in Len(origin) + 1 .. Len(origin')
          BY <1>3, <1>4, <1>5, <3>2
        <5> QED
          BY <1>3, <1>4, <5>1
      <4> QED
        BY <1>2, <4>1
    <3> QED
      BY <1>5, <3>1, <3>2
  <2> QED
    BY <1>5, <2>1 DEF Provenance
<1>7. OwnNames'
  <2>1. CASE stack' = Turned("START")
    BY <1>1, <2>1, TurnedOwned DEF Owned
  <2>2. CASE stack' = <<>>
    BY <2>2, OwnNext
  <2> QED
    BY <1>1, <2>1, <2>2
<1> QED
  BY <1>3, <1>4, <1>5, <1>6, <1>7 DEF Owned

\* The buffers change under every activation: the one that begins reads the
\* name that was put there, and of those that wait only a text still counts.
LEMMA IncludeOwned ==
  ASSUME TypeOK, Owned, Include
  PROVE  Owned'
<1> DEFINE callers == Moved("START", Top.fresh /\ Top.comment.to = "text")
           C(n, k) == IF Having(n) = {} THEN EvalBufferAt(k) ELSE FileBufferPointer
<1>1. PICK names \in Seq(FileNames), k \in Nat \ {0} :
        /\ k \in DOMAIN names /\ names[k] \in FileNames
        /\ More /\ callers \in Seq(Frames)
        /\ C(names[k], k) \in Pointers
        /\ fileBuffer' = LastTried(names[k]) /\ evalBuffer' = names
        /\ LoadPath(FoundFile(names[k]), C(names[k], k), callers)
        /\ UNCHANGED <<list, origin>>
  BY IncludeProperties
<1> DEFINE n == names[k]  p == C(names[k], k)  path == FoundFile(names[k])
<1>2. Len(stack) \in Nat \ {0} /\ Top = stack[Len(stack)] /\ Top.fresh \in BOOLEAN
  BY <1>1, TopProperties DEF Frames
<1>3. /\ Len(callers) = Len(stack)
      /\ \A d \in 1 .. Len(stack) :
           /\ callers[d].comment = stack[d].comment
           /\ callers[d].source = stack[d].source
           /\ callers[d].fresh => stack[d].fresh
           /\ d = Len(stack) => (callers[d].fresh => stack[d].comment.to = "text")
  <2>1. (Top.fresh /\ Top.comment.to = "text") \in BOOLEAN
    BY <1>2
  <2>2. Len(callers) = Len(stack)
    BY <1>1, <2>1, MovedProperties
  <2> DEFINE b == (Top.fresh /\ Top.comment.to = "text")
  <2>3. b \in BOOLEAN /\ callers = Moved("START", b)
    BY <2>1
  <2> HIDE DEF b, callers
  <2>4. PICK f \in Frames :
          /\ f.comment = Top.comment /\ f.source = Top.source /\ f.fresh = b
          /\ \A d \in 1 .. Len(stack) :
               Moved("START", b)[d] = IF d = Len(stack) THEN f ELSE stack[d]
    BY <1>1, <2>3, MovedProperties
  <2>5. \A d \in 1 .. Len(stack) : callers[d] = IF d = Len(stack) THEN f ELSE stack[d]
    BY <2>3, <2>4
  <2> QED
    BY <1>2, <2>2, <2>4, <2>5 DEF b
<1> HIDE DEF callers
<1>4. \A d \in 1 .. Len(callers) :
        callers[d].fresh =>
          /\ ReadNext(callers[d].comment) = callers[d].source
          /\ callers[d].comment.to = "text"
  <2> SUFFICES ASSUME NEW d \in 1 .. Len(callers), callers[d].fresh
               PROVE  /\ ReadNext(callers[d].comment) = callers[d].source
                      /\ callers[d].comment.to = "text"
    OBVIOUS
  <2>1. stack[d].fresh /\ Read(stack[d].comment) = stack[d].source
    BY <1>3 DEF Owned, OwnNames
  <2>2. stack[d].comment.to = "text"
    BY <1>2, <1>3, <2>1 DEF Owned, OwnNames
  <2> QED
    BY <1>3, <2>1, <2>2, TextsStay
<1>5. ReadNext(p) = path
  <2>1. CASE Having(n) = {}
    <3>1. path = <<NoDir, n>>
      BY <1>1, <2>1, FindProperties
    <3>2. p.to = "evalBuffer" /\ p.at = k
      BY <2>1 DEF EvalBufferAt
    <3> QED
      BY <1>1, <3>1, <3>2 DEF ReadNext, EvalBufferAt
  <2>2. CASE Having(n) # {}
    <3>1. fileBuffer' = path
      BY <1>1, <2>2, FindProperties
    <3>2. p.to = "fileBuffer"
      BY <2>2 DEF FileBufferPointer
    <3> QED
      BY <3>1, <3>2 DEF ReadNext
  <2> QED
    BY <2>1, <2>2
<1>6. OwnNames'
  <2>1. CASE stack' = <<>>
    BY <2>1, OwnNext
  <2>2. ASSUME stack' = Append(callers, Frame(Contents[path], p, path))
        PROVE  OwnNames'
    <3> DEFINE f == Frame(Contents[path], p, path)
    <3>1. OwnFrame(f)
      BY <1>5, FreshFrame
    <3> HIDE DEF f, p, path
    <3>2. /\ Len(stack') = Len(callers) + 1 /\ Len(callers) \in Nat
          /\ \A d \in 1 .. Len(callers) : stack'[d] = callers[d]
          /\ stack'[Len(callers) + 1] = f
      BY <1>1, <2>2 DEF f
    <3> QED
      BY <1>4, <3>1, <3>2, OwnNext DEF OwnFrame
  <2>3. \/ stack' = <<>>
        \/ stack' = Append(callers, Frame(Contents[path], p, path))
    BY <1>1 DEF LoadPath, LoadTokens, Stop
  <2> QED
    BY <2>1, <2>2, <2>3
<1> QED
  BY <1>1, <1>6, SameList DEF Owned

LEMMA AllButLast ==
  ASSUME NEW S, NEW q \in Seq(S), q # <<>>
  PROVE  /\ Len(SubSeq(q, 1, Len(q) - 1)) = Len(q) - 1
         /\ \A d \in 1 .. Len(q) - 1 : SubSeq(q, 1, Len(q) - 1)[d] = q[d]
<1>1. Len(q) \in Nat \ {0}
  OBVIOUS
<1>2. CASE Len(q) = 1
  <2>1. SubSeq(q, 1, 0) = <<>>
    BY SubSeqEmpty
  <2> QED
    BY <1>2, <2>1
<1>3. CASE Len(q) > 1
  <2> DEFINE n == Len(q) - 1
  <2>1. n \in Nat \ {0} /\ \A i \in 1 .. n : q[i] \in S
    BY <1>1, <1>3, ElementOfSeq
  <2> HIDE DEF n
  <2>2. /\ Len(SubSeq(q, 1, n)) = n
        /\ \A i \in 1 .. n : SubSeq(q, 1, n)[i] = q[i]
    BY <2>1, SubSeqProperties
  <2> QED
    BY <2>2 DEF n
<1>4. Len(q) = 1 \/ Len(q) > 1
  <2>1. \A n \in Nat \ {0} : n = 1 \/ n > 1
    OBVIOUS
  <2> QED
    BY <1>1, <2>1, Zenon
<1> QED
  BY <1>2, <1>3, <1>4, Zenon

LEMMA ReturnOwned ==
  ASSUME TypeOK, Owned, Return
  PROVE  Owned'
<1>1. stack # <<>> /\ Len(stack) \in Nat \ {0}
  BY DEF Return, Finished, TypeOK
<1>2. \/ stack' = <<>>
      \/ stack' = SubSeq(stack, 1, Len(stack) - 1)
  BY DEF Return, Stop
<1>3. UNCHANGED <<list, origin, fileBuffer, evalBuffer>>
  BY DEF Return
<1>4. CASE stack' = <<>>
  BY <1>3, <1>4, BeginOwned
<1>5. CASE stack' = SubSeq(stack, 1, Len(stack) - 1)
  <2>1. /\ Len(stack') = Len(stack) - 1
        /\ \A d \in 1 .. Len(stack) - 1 : stack'[d] = stack[d]
    BY <1>1, <1>5, AllButLast DEF TypeOK
  <2>2. OwnNames'
    BY <1>1, <1>3, <2>1, SameBuffers, OwnNext DEF Owned, OwnNames
  <2> QED
    BY <1>3, <2>2, SameList DEF Owned
<1> QED
  BY <1>2, <1>4, <1>5

LEMMA NextOwned == TypeOK /\ Owned /\ [Next]_vars => Owned'
<1> SUFFICES ASSUME TypeOK, Owned, [Next]_vars PROVE Owned'
  OBVIOUS
<1>1. CASE \/ \E args \in CommandLines, c \in Comments :
                Load(args, c) \/ LoadString(args, c)
           \/ \E p \in Paths : LoadFile(p) \/ LoadFileIfExists(p)
  BY <1>1, CallOwned
<1>2. CASE Turn
  <2>1. OwnNames'
    BY <1>2, TurnProperties, TurnedOwned DEF Owned
  <2> QED
    BY <1>2, <2>1, TurnProperties, SameList DEF Owned
<1>3. CASE PlainFile \/ AddKnob
  BY <1>3, AddingOwned
<1>4. CASE Include
  BY <1>4, IncludeOwned
<1>5. CASE Return
  BY <1>5, ReturnOwned
<1>6. CASE UNCHANGED vars
  <2>1. OwnNames'
    BY <1>6, SameBuffers, OwnNext DEF Owned, OwnNames, vars
  <2> QED
    BY <1>6, <2>1, SameList DEF Owned, vars
<1> QED
  BY <1>1, <1>2, <1>3, <1>4, <1>5, <1>6 DEF Next, Step, Turn

\* However deep files include one another, the knobs a file gives before its
\* first inclusion carry the path it was found at, and the knobs of a text given
\* by the program always do.
THEOREM KnobsCarryTheirSource == Spec => []Provenance
<1>1. Init => TypeOK /\ Owned
  BY InitType, InitOwned
<1>2. TypeOK /\ Owned /\ [Next]_vars => (TypeOK /\ Owned)'
  BY NextType, NextOwned
<1>3. Owned => Provenance
  BY DEF Owned
<1> QED
  BY <1>1, <1>2, <1>3, PTL DEF Spec
-----------------------------------------------------------------------------
(* Textual inclusion: Loader implements Expansion.  What remains to be     *)
(* obeyed is what the activations have still to read, innermost first.     *)
(* Both that and what an activation reads are defined by recursion; the    *)
(* functions exist because a least position without one would have one.    *)
(* A step then takes a line off the front, puts the lines of a file there, *)
(* or leaves what remains as it is.                                        *)

\* Statements, and sequences of them.
Lines == [op : {"knob", "file", "include", "fail"}, token : Tokens]
Script == Seq(Lines)

\* Concatenation is associative.  The instances needed are named, since the provers
\* see through \o to the elements.
Joined(s, t, u) == (s \o t) \o u = s \o (t \o u)

\* Sequences of lines can be joined in any grouping.
LEMMA ScriptFacts ==
  /\ <<>> \in Script
  /\ \A s, t \in Script : s \o t \in Script
  /\ \A s, t, u \in Script : Joined(s, t, u)
  /\ \A t \in Script : <<>> \o t = t /\ t \o <<>> = t
<1>1. \A s, t, u \in Script : Joined(s, t, u)
  BY ConcatAssociative DEF Script, Joined
<1>2. \A s, t \in Script : s \o t \in Script
  BY DEF Script
<1>3. \A t \in Script : <<>> \o t = t /\ t \o <<>> = t
  BY ConcatEmptySeq DEF Script
<1>4. <<>> \in Script
  BY DEF Script
<1> QED
  BY <1>1, <1>2, <1>3, <1>4

\* One line, and what follows it.
LEMMA LineFacts ==
  ASSUME NEW x \in Lines, NEW t \in Script
  PROVE  /\ <<x>> \in Script /\ <<x>> \o t \in Script
         /\ <<x>> \o t # <<>> /\ Head(<<x>> \o t) = x /\ Tail(<<x>> \o t) = t
BY DEF Script

\* A statement is a line.
LEMMA StatementFacts ==
  \A op \in {"knob", "file", "include", "fail"}, t \in Tokens :
    /\ Statement(op, t) \in Lines
    /\ Statement(op, t).op = op /\ Statement(op, t).token = t
BY DEF Statement, Lines

\* What sknobs_load reads from position i on, if one and two are what it reads from
\* the next position on and from the one after it.
Reads(args, i, one, two) ==
  IF i > Len(args) THEN <<>>
  ELSE LET t == args[i]
           here(op) == <<Statement(op, t)>> \o one
       IN  CASE Kind[t] = "-f" ->
                  IF i = Len(args) THEN <<Statement("fail", t)>>
                  ELSE <<Statement("include", args[i + 1])>> \o two
             [] Kind[t] = "-pli" ->
                  IF i = Len(args) THEN <<Statement("fail", t)>> ELSE two
             [] Kind[t] = "-f list" -> here("include")
             [] Kind[t] = "+" -> one
             [] Kind[t] = "file" -> here("file")
             [] AddsKnobs(t) -> here("knob")

\* It is a sequence of lines.
LEMMA ReadsFacts ==
  ASSUME NEW args \in Seq(Tokens), NEW i \in Nat \ {0}, NEW one \in Script, NEW two \in Script
  PROVE  /\ Reads(args, i, one, two) \in Script
         /\ i > Len(args) => Reads(args, i, one, two) = <<>>
<1>1. CASE i > Len(args)
  BY <1>1, ScriptFacts DEF Reads
<1>2. CASE ~(i > Len(args))
  <2> DEFINE t == args[i]
             L(op, x) == <<Statement(op, x)>>
  <2>1. i \in 1 .. Len(args) /\ Len(args) \in Nat
    BY <1>2
  <2>2. t \in Tokens /\ (i # Len(args) => args[i + 1] \in Tokens)
    BY <2>1
  <2>3. Kind[t] \in Kinds
    BY <2>2, TokensAssumption
  <2>4. \A op \in {"knob", "file", "include", "fail"}, x \in Tokens :
          L(op, x) \in Script /\ L(op, x) \o one \in Script /\ L(op, x) \o two \in Script
    BY StatementFacts, LineFacts
  <2>5. Reads(args, i, one, two) =
          CASE Kind[t] = "-f" ->
                 IF i = Len(args) THEN L("fail", t) ELSE L("include", args[i + 1]) \o two
            [] Kind[t] = "-pli" -> IF i = Len(args) THEN L("fail", t) ELSE two
            [] Kind[t] = "-f list" -> L("include", t) \o one
            [] Kind[t] = "+" -> one
            [] Kind[t] = "file" -> L("file", t) \o one
            [] AddsKnobs(t) -> L("knob", t) \o one
    BY <1>2, Zenon DEF Reads
  <2> HIDE DEF L, t
  <2> QED
    BY <1>2, <2>2, <2>3, <2>4, <2>5 DEF Kinds, AddsKnobs
<1> QED
  BY <1>1, <1>2

\* Nothing is read after the last token.
LEMMA ReadsEnd ==
  ASSUME NEW args, NEW i, NEW x, NEW y, i > Len(args)
  PROVE  Reads(args, i, x, y) = <<>>
BY DEF Reads

\* What the recursion in Statements defines.
LEMMA ReadingExists ==
  ASSUME NEW args \in Seq(Tokens)
  PROVE  \E f : f = [i \in 1 .. Len(args) + 2 |-> Reads(args, i, f[i + 1], f[i + 2])]
<1> DEFINE n == Len(args)
           Rule(f, i) == Reads(args, i, f[i + 1], f[i + 2])
           Solves(f, k) == f \in [k .. n + 2 -> Script] /\ \A i \in k .. n + 2 : f[i] = Rule(f, i)
           Bad == {j \in Nat : j <= n /\ ~\E f : Solves(f, n + 1 - j)}
<1>0. n \in Nat
  OBVIOUS
<1>1. Bad = {}
  <2> SUFFICES ASSUME Bad # {} PROVE FALSE
    OBVIOUS
  <2>1. PICK j \in Bad : \A x \in Bad : j <= x
    <3>1. Bad \in SUBSET Nat
      OBVIOUS
    <3> HIDE DEF Bad
    <3> QED
      BY <3>1, LeastNatural
  <2> HIDE DEF n
  <2>2. CASE j = 0
    <3> DEFINE f == [i \in n + 1 .. n + 2 |-> <<>>]
    <3>1. f \in [n + 1 .. n + 2 -> Script]
      BY ScriptFacts
    <3>2. \A i \in n + 1 .. n + 2 : i > Len(args) /\ f[i] = <<>>
      BY <1>0 DEF n
    <3>3. \A i \in n + 1 .. n + 2 : f[i] = Rule(f, i)
      BY <3>2, ReadsEnd
    <3>4. n + 1 - j = n + 1
      BY <1>0, <2>2
    <3> HIDE DEF f
    <3>5. \E g : Solves(g, n + 1 - j)
      BY <3>1, <3>3, <3>4
    <3> QED
      BY <2>1, <3>5
  <2>3. CASE j # 0
    <3>1. j \in Nat /\ j <= n /\ j - 1 \in Nat /\ j - 1 <= n /\ j - 1 \notin Bad
      <4>1. j \in Nat /\ j <= n
        BY <2>1
      <4>2. j - 1 \in Nat /\ j - 1 <= n /\ ~(j <= j - 1)
        BY <1>0, <2>3, <4>1
      <4> HIDE DEF Bad
      <4> QED
        BY <2>1, <4>1, <4>2
    <3>2. PICK g : Solves(g, n + 1 - (j - 1))
      BY <3>1
    <3> DEFINE k == n + 1 - j
               f == [i \in k .. n + 2 |-> IF i = k THEN Rule(g, k) ELSE g[i]]
    <3>3. /\ k \in 1 .. n /\ n + 1 - (j - 1) = k + 1 /\ k \in Nat \ {0}
          /\ k + 1 \in k + 1 .. n + 2 /\ k + 2 \in k + 1 .. n + 2
          /\ \A i \in k .. n + 2 : i = k \/ i \in k + 1 .. n + 2
      BY <1>0, <3>1
    <3>4. g \in [k + 1 .. n + 2 -> Script] /\ \A i \in k + 1 .. n + 2 : g[i] = Rule(g, i)
      BY <3>2, <3>3
    <3> HIDE DEF k
    <3>5. Rule(g, k) \in Script
      BY <3>3, <3>4, ReadsFacts
    <3>6. f \in [k .. n + 2 -> Script]
      <4>1. \A i \in k .. n + 2 : (IF i = k THEN Rule(g, k) ELSE g[i]) \in Script
        <5> HIDE DEF Rule
        <5> QED
          BY <3>3, <3>4, <3>5
      <4> HIDE DEF Rule
      <4> QED
        BY <4>1
    <3>7. \A i \in k + 1 .. n + 2 : f[i] = g[i]
      <4> HIDE DEF Rule
      <4> QED
        BY <1>0, <3>3
    <3>8. f[k] = Rule(g, k)
      <4>1. k \in k .. n + 2
        BY <1>0, <3>3
      <4> HIDE DEF Rule
      <4> QED
        BY <4>1
    <3> HIDE DEF f
    <3>9. ASSUME NEW i \in k .. n + 2 PROVE f[i] = Rule(f, i)
      <4>1. CASE i = k
        <5>1. f[k + 1] = g[k + 1] /\ f[k + 2] = g[k + 2]
          BY <3>3, <3>7
        <5> QED
          BY <4>1, <3>8, <5>1
      <4>2. CASE i \in k + 1 .. n + 2
        <5>1. f[i] = g[i] /\ g[i] = Rule(g, i)
          BY <3>4, <3>7, <4>2
        <5>2. CASE i > Len(args)
          BY <5>1, <5>2, ReadsEnd
        <5>3. CASE ~(i > Len(args))
          <6>1. i + 1 \in k + 1 .. n + 2 /\ i + 2 \in k + 1 .. n + 2
            BY <1>0, <3>3, <4>2, <5>3 DEF n
          <6> QED
            BY <3>7, <5>1, <6>1
        <5> QED
          BY <5>2, <5>3
      <4> QED
        BY <3>3, <4>1, <4>2
    <3>10. Solves(f, k)
      BY <3>6, <3>9
    <3> QED
      BY <2>1, <3>10 DEF k
  <2> QED
    BY <2>2, <2>3
<1> HIDE DEF n
<1>2. n \notin Bad
  BY <1>1
<1>3. PICK f : Solves(f, 1)
  <2>1. n + 1 - n = 1 /\ n <= n
    BY <1>0
  <2> QED
    BY <1>0, <1>2, <2>1
<1>4. f = [i \in 1 .. n + 2 |-> Rule(f, i)]
  BY <1>3
<1> QED
  BY <1>4 DEF n

\* The lines of args from position i on.
Reading(args, i) ==
  LET rest[j \in 1 .. Len(args) + 2] == Reads(args, j, rest[j + 1], rest[j + 2])
  IN  rest[i]

\* Each position is read from the two after it, and gives lines.
LEMMA ReadingFacts ==
  ASSUME NEW args \in Seq(Tokens)
  PROVE  /\ \A i \in 1 .. Len(args) + 2 : Reading(args, i) \in Script
         /\ \A i \in 1 .. Len(args) + 2 :
              Reading(args, i) = Reads(args, i, Reading(args, i + 1), Reading(args, i + 2))
<1> DEFINE n == Len(args)
           from == CHOOSE f : f = [i \in 1 .. n + 2 |-> Reads(args, i, f[i + 1], f[i + 2])]
<1>0. n \in Nat
  OBVIOUS
<1>1. \A i : Reading(args, i) = from[i]
  BY Zenon DEF Reading
<1> HIDE DEF n
<1>2. from = [i \in 1 .. n + 2 |-> Reads(args, i, from[i + 1], from[i + 2])]
  <2> DEFINE P(f) == f = [i \in 1 .. n + 2 |-> Reads(args, i, f[i + 1], f[i + 2])]
  <2>1. \E f : P(f)
    BY ReadingExists DEF n
  <2> QED
    BY <2>1, Zenon
<1> HIDE DEF from
<1>3. \A i \in 1 .. n + 2 : from[i] = Reads(args, i, from[i + 1], from[i + 2])
  <2> DEFINE f == from
             g == [i \in 1 .. n + 2 |-> Reads(args, i, f[i + 1], f[i + 2])]
  <2>1. \A i \in 1 .. n + 2 : g[i] = Reads(args, i, f[i + 1], f[i + 2])
    OBVIOUS
  <2>2. f = g
    BY <1>2
  <2> HIDE DEF g
  <2> QED
    BY <2>1, <2>2
<1>4. \A i \in 1 .. n + 2 : from[i] \in Script
  <2> DEFINE Bad == {j \in Nat : j <= n + 1 /\ from[n + 2 - j] \notin Script}
  <2>1. Bad = {}
    <3> SUFFICES ASSUME Bad # {} PROVE FALSE
      OBVIOUS
    <3>1. PICK j \in Bad : \A x \in Bad : j <= x
      <4>1. Bad \in SUBSET Nat
        OBVIOUS
      <4> HIDE DEF Bad
      <4> QED
        BY <4>1, LeastNatural
    <3>2. /\ j \in Nat /\ j <= n + 1 /\ from[n + 2 - j] \notin Script
          /\ n + 2 - j \in 1 .. n + 2
      BY <1>0, <3>1
    <3>3. ~(n + 2 - j > Len(args))
      BY <1>3, <3>2, ReadsEnd, ScriptFacts
    <3>4. /\ j - 1 \in Nat /\ j - 1 <= n + 1 /\ ~(j <= j - 1) /\ n + 2 - (j - 1) = n + 2 - j + 1
          /\ j - 2 \in Nat /\ j - 2 <= n + 1 /\ ~(j <= j - 2) /\ n + 2 - (j - 2) = n + 2 - j + 2
          /\ n + 2 - j \in Nat \ {0}
      BY <1>0, <3>2, <3>3 DEF n
    <3>5. j - 1 \notin Bad /\ j - 2 \notin Bad
      <4> HIDE DEF Bad
      <4> QED
        BY <3>1, <3>4
    <3>6. from[n + 2 - j + 1] \in Script /\ from[n + 2 - j + 2] \in Script
      BY <3>4, <3>5
    <3> QED
      BY <1>3, <3>2, <3>4, <3>6, ReadsFacts
  <2> SUFFICES ASSUME NEW i \in 1 .. n + 2 PROVE from[i] \in Script
    OBVIOUS
  <2>2. n + 2 - i \in Nat /\ n + 2 - i <= n + 1 /\ n + 2 - (n + 2 - i) = i
    BY <1>0
  <2>3. n + 2 - i \notin Bad
    BY <2>1
  <2> QED
    BY <2>2, <2>3
<1>5. /\ \A i \in 1 .. n + 2 : Reading(args, i) \in Script
      /\ \A i \in 1 .. n + 2 :
           Reading(args, i) = Reads(args, i, Reading(args, i + 1), Reading(args, i + 2))
  BY <1>1, <1>3, <1>4
<1> QED
  BY <1>5 DEF n

\* Statements, in these terms.
LEMMA StatementsRead ==
  ASSUME NEW args, NEW at, NEW state
  PROVE  Statements(args, at, state) =
           IF state = "START" THEN Reading(args, at)
           ELSE IF at > Len(args) THEN <<Statement("fail", args[Len(args)])>>
           ELSE IF state = "IGNORE" THEN Reading(args, at + 1)
           ELSE <<Statement("include", args[at])>> \o Reading(args, at + 1)
BY Zenon DEF Statements, Reading, Reads

\* What an activation has still to read, and where it can be.
Pending(f) == Statements(f.args, f.at, f.argState)
Placed(f) == f.at <= Len(f.args) + 1 /\ (f.argState # "START" => f.at > 1)

\* At the end there is nothing left, or no name for the last -f.
LEMMA PendingEnds ==
  ASSUME NEW f \in Frames, Placed(f), f.at > Len(f.args)
  PROVE  /\ f.argState = "START" => Pending(f) = <<>>
         /\ f.argState # "START" =>
              \E t \in Tokens : Pending(f) = <<Statement("fail", t)>>
<1>1. /\ f.args \in Seq(Tokens) /\ f.at \in Nat \ {0} /\ f.argState \in {"START", "DASHF", "IGNORE"}
      /\ f.at = Len(f.args) + 1 /\ Len(f.args) \in Nat
  <2>1. f.args \in Seq(Tokens) /\ f.at \in Nat \ {0} /\ f.argState \in {"START", "DASHF", "IGNORE"}
    BY DEF Frames
  <2> QED
    BY <2>1 DEF Placed
<1>2. CASE f.argState = "START"
  <2>1. f.at \in 1 .. Len(f.args) + 2
    BY <1>1
  <2>2. Reading(f.args, f.at) = <<>>
    BY <1>1, <2>1, ReadingFacts, ReadsEnd
  <2>3. Pending(f) = <<>>
    BY <1>2, <2>2, StatementsRead DEF Pending
  <2> QED
    BY <1>2, <2>3
<1>3. CASE f.argState # "START"
  <2>1. Len(f.args) \in 1 .. Len(f.args)
    BY <1>1, <1>3 DEF Placed
  <2>2. f.args[Len(f.args)] \in Tokens
    BY <1>1, <2>1
  <2>3. Pending(f) = <<Statement("fail", f.args[Len(f.args)])>>
    BY <1>3, StatementsRead DEF Pending
  <2> QED
    BY <1>3, <2>2, <2>3
<1> QED
  BY <1>2, <1>3

\* A token is a line, or none, or the first half of one.
LEMMA PendingTurns ==
  ASSUME NEW f \in Frames, Placed(f), f.at <= Len(f.args),
         NEW g \in Frames, g.args = f.args, g.at = f.at + 1,
         NEW t, t = f.args[f.at]
  PROVE  /\ Placed(g)
         /\ f.argState = "START" /\ Kind[t] = "-f" /\ g.argState = "DASHF"
              => Pending(f) = Pending(g)
         /\ f.argState = "START" /\ Kind[t] = "-pli" /\ g.argState = "IGNORE"
              => Pending(f) = Pending(g)
         /\ f.argState = "IGNORE" /\ g.argState = "START" => Pending(f) = Pending(g)
         /\ f.argState = "START" /\ Kind[t] = "+" /\ g.argState = "START"
              => Pending(f) = Pending(g)
         /\ f.argState = "START" /\ Kind[t] = "file" /\ g.argState = "START"
              => Pending(f) = <<Statement("file", t)>> \o Pending(g)
         /\ f.argState = "START" /\ AddsKnobs(t) /\ g.argState = "START"
              => Pending(f) = <<Statement("knob", t)>> \o Pending(g)
         /\ (f.argState = "DASHF" \/ (f.argState = "START" /\ Kind[t] = "-f list"))
              /\ g.argState = "START"
              => Pending(f) = <<Statement("include", t)>> \o Pending(g)
<1> DEFINE args == f.args  i == f.at
<1>1. /\ args \in Seq(Tokens) /\ i \in 1 .. Len(args) /\ Len(args) \in Nat
      /\ f.argState \in {"START", "DASHF", "IGNORE"} /\ g.argState \in {"START", "DASHF", "IGNORE"}
  BY DEF Frames
<1>2. /\ i \in 1 .. Len(args) + 2 /\ i + 1 \in 1 .. Len(args) + 2 /\ ~(i > Len(args)) /\ i + 1 > 1
      /\ i + 1 + 1 = i + 2 /\ ((i + 1 > Len(args)) <=> (i = Len(args))) /\ i + 1 <= Len(args) + 1
  <2> HIDE DEF args, i
  <2> QED
    BY <1>1
<1>3. Placed(g)
  BY <1>2 DEF Placed
<1>4. t \in Tokens /\ Kind[t] \in Kinds
  BY <1>1, TokensAssumption
<1> HIDE DEF args, i
<1>5. Reading(args, i) = Reads(args, i, Reading(args, i + 1), Reading(args, i + 2))
  BY <1>1, <1>2, ReadingFacts
<1> DEFINE R == Reading(args, i + 1)
<1>6. /\ f.argState = "START" => Pending(f) = Reads(args, i, R, Reading(args, i + 2))
      /\ f.argState = "IGNORE" => Pending(f) = R
      /\ f.argState = "DASHF" => Pending(f) = <<Statement("include", t)>> \o R
      /\ g.argState = "START" => Pending(g) = R
      /\ g.argState = "IGNORE" /\ i = Len(args) => Pending(g) = <<Statement("fail", t)>>
      /\ g.argState = "IGNORE" /\ i # Len(args) => Pending(g) = Reading(args, i + 2)
      /\ g.argState = "DASHF" /\ i = Len(args) => Pending(g) = <<Statement("fail", t)>>
      /\ g.argState = "DASHF" /\ i # Len(args) =>
           Pending(g) = <<Statement("include", args[i + 1])>> \o Reading(args, i + 2)
  <2>1. /\ Pending(f) = Statements(args, i, f.argState)
        /\ Pending(g) = Statements(args, i + 1, g.argState)
        /\ t = args[i]
    BY DEF Pending, args, i
  <2>2. /\ f.argState = "START" => Pending(f) = Reading(args, i)
        /\ f.argState = "IGNORE" => Pending(f) = Reading(args, i + 1)
        /\ f.argState = "DASHF" => Pending(f) = <<Statement("include", t)>> \o Reading(args, i + 1)
    BY <1>2, <2>1, StatementsRead
  <2>3. /\ g.argState = "START" => Pending(g) = R
        /\ g.argState = "IGNORE" /\ i = Len(args) => Pending(g) = <<Statement("fail", t)>>
        /\ g.argState = "DASHF" /\ i = Len(args) => Pending(g) = <<Statement("fail", t)>>
    BY <1>2, <2>1, StatementsRead
  <2>4. /\ g.argState = "IGNORE" /\ i # Len(args) => Pending(g) = Reading(args, i + 2)
        /\ g.argState = "DASHF" /\ i # Len(args) =>
           Pending(g) = <<Statement("include", args[i + 1])>> \o Reading(args, i + 2)
    BY <1>2, <2>1, StatementsRead
  <2> QED
    BY <1>5, <2>2, <2>3, <2>4
<1> DEFINE C == Reads(args, i, R, Reading(args, i + 2))
<1>7. /\ Kind[t] = "-f" => C = IF i = Len(args) THEN <<Statement("fail", t)>>
                               ELSE <<Statement("include", args[i + 1])>> \o Reading(args, i + 2)
      /\ Kind[t] = "-pli" => C = IF i = Len(args) THEN <<Statement("fail", t)>>
                                 ELSE Reading(args, i + 2)
      /\ Kind[t] = "-f list" => C = <<Statement("include", t)>> \o R
      /\ Kind[t] = "+" => C = R
      /\ Kind[t] = "file" => C = <<Statement("file", t)>> \o R
      /\ AddsKnobs(t) => C = <<Statement("knob", t)>> \o R
  <2> HIDE DEF R
  <2> DEFINE L(op, x) == <<Statement(op, x)>>
             T == Reading(args, i + 2)
  <2>1. t = args[i]
    BY DEF args, i
  <2> HIDE DEF T
  <2>2. Reads(args, i, R, T) =
          CASE Kind[t] = "-f" ->
                 IF i = Len(args) THEN L("fail", t) ELSE L("include", args[i + 1]) \o T
            [] Kind[t] = "-pli" -> IF i = Len(args) THEN L("fail", t) ELSE T
            [] Kind[t] = "-f list" -> L("include", t) \o R
            [] Kind[t] = "+" -> R
            [] Kind[t] = "file" -> L("file", t) \o R
            [] AddsKnobs(t) -> L("knob", t) \o R
    BY <1>2, <2>1, Zenon DEF Reads
  <2>3. /\ Kind[t] = "-f" => Reads(args, i, R, T) = IF i = Len(args) THEN L("fail", t)
                               ELSE L("include", args[i + 1]) \o T
        /\ Kind[t] = "-pli" => Reads(args, i, R, T) = IF i = Len(args) THEN L("fail", t) ELSE T
        /\ Kind[t] = "-f list" => Reads(args, i, R, T) = L("include", t) \o R
        /\ Kind[t] = "+" => Reads(args, i, R, T) = R
        /\ Kind[t] = "file" => Reads(args, i, R, T) = L("file", t) \o R
        /\ AddsKnobs(t) => Reads(args, i, R, T) = L("knob", t) \o R
    <3> HIDE DEF L
    <3> QED
      BY <2>2 DEF AddsKnobs
  <2> QED
    BY <2>3 DEF T
<1> HIDE DEF R
<1>8. f.argState = "START" => Pending(f) = C
  BY <1>6
<1> HIDE DEF C
<1>9. /\ f.argState = "START" /\ Kind[t] = "-f" /\ g.argState = "DASHF" => Pending(f) = Pending(g)
      /\ f.argState = "START" /\ Kind[t] = "-pli" /\ g.argState = "IGNORE" => Pending(f) = Pending(g)
  BY <1>6, <1>7, <1>8
<1>10. /\ f.argState = "IGNORE" /\ g.argState = "START" => Pending(f) = Pending(g)
       /\ f.argState = "START" /\ Kind[t] = "+" /\ g.argState = "START" => Pending(f) = Pending(g)
  BY <1>6, <1>7, <1>8
<1>11. /\ f.argState = "START" /\ Kind[t] = "file" /\ g.argState = "START"
             => Pending(f) = <<Statement("file", t)>> \o Pending(g)
       /\ f.argState = "START" /\ AddsKnobs(t) /\ g.argState = "START"
             => Pending(f) = <<Statement("knob", t)>> \o Pending(g)
  BY <1>6, <1>7, <1>8
<1>12. (f.argState = "DASHF" \/ (f.argState = "START" /\ Kind[t] = "-f list"))
         /\ g.argState = "START"
             => Pending(f) = <<Statement("include", t)>> \o Pending(g)
  BY <1>6, <1>7, <1>8
<1> QED
  BY <1>3, <1>9, <1>10, <1>11, <1>12

\* What an activation has still to read is a sequence of lines.
LEMMA PendingTyped ==
  ASSUME NEW f \in Frames, Placed(f)
  PROVE  Pending(f) \in Script
<1>1. /\ f.args \in Seq(Tokens) /\ f.at \in Nat \ {0} /\ f.argState \in {"START", "DASHF", "IGNORE"}
      /\ Len(f.args) \in Nat
  BY DEF Frames
<1>2. CASE f.argState = "START"
  <2>1. f.at \in 1 .. Len(f.args) + 2
    BY <1>1 DEF Placed
  <2> QED
    BY <1>1, <1>2, <2>1, ReadingFacts, StatementsRead DEF Pending
<1>3. CASE f.argState # "START" /\ f.at > Len(f.args)
  <2>1. PICK t \in Tokens : Pending(f) = <<Statement("fail", t)>>
    BY <1>3, PendingEnds
  <2> QED
    BY <2>1, StatementFacts, LineFacts, ScriptFacts
<1>4. CASE f.argState # "START" /\ ~(f.at > Len(f.args))
  <2>1. f.at \in 1 .. Len(f.args) /\ f.at + 1 \in 1 .. Len(f.args) + 2
    BY <1>1, <1>4
  <2>2. f.args[f.at] \in Tokens /\ Reading(f.args, f.at + 1) \in Script
    BY <1>1, <2>1, ReadingFacts
  <2>3. Pending(f) = IF f.argState = "IGNORE" THEN Reading(f.args, f.at + 1)
                     ELSE <<Statement("include", f.args[f.at])>> \o Reading(f.args, f.at + 1)
    BY <1>4, StatementsRead DEF Pending
  <2>4. <<Statement("include", f.args[f.at])>> \o Reading(f.args, f.at + 1) \in Script
    BY <2>2, StatementFacts, LineFacts
  <2> QED
    BY <2>2, <2>3, <2>4
<1> QED
  BY <1>2, <1>3, <1>4

\* What the first k activations of a stack have still to read, the last of them first.
Upto(s, k) ==
  LET rest[d \in 0 .. Len(s)] == IF d = 0 THEN <<>> ELSE Pending(s[d]) \o rest[d - 1]
  IN  rest[k]

\* What remains is what all of them have still to read.
LEMMA RemainingIsUpto ==
  Remaining = Upto(stack, Len(stack)) /\ Remaining' = Upto(stack', Len(stack'))
BY Zenon DEF Remaining, Upto, Pending

\* The activations a stack may hold.
PlacedFrames == {f \in Frames : Placed(f)}

\* What the recursion in Remaining defines.
LEMMA UptoExists ==
  ASSUME NEW s \in Seq(PlacedFrames)
  PROVE  \E f : f = [d \in 0 .. Len(s) |-> IF d = 0 THEN <<>> ELSE Pending(s[d]) \o f[d - 1]]
<1> DEFINE n == Len(s)
           Rule(f, d) == IF d = 0 THEN <<>> ELSE Pending(s[d]) \o f[d - 1]
           Solves(f, k) == f \in [0 .. k -> Script] /\ \A d \in 0 .. k : f[d] = Rule(f, d)
           Bad == {k \in Nat : k <= n /\ ~\E f : Solves(f, k)}
<1>0. n \in Nat /\ \A d \in 1 .. n : Pending(s[d]) \in Script
  <2>1. \A d \in 1 .. Len(s) : s[d] \in PlacedFrames
    OBVIOUS
  <2> QED
    BY <2>1, PendingTyped DEF PlacedFrames
<1>1. Bad = {}
  <2> SUFFICES ASSUME Bad # {} PROVE FALSE
    OBVIOUS
  <2>1. PICK k \in Bad : \A x \in Bad : k <= x
    <3>1. Bad \in SUBSET Nat
      OBVIOUS
    <3> HIDE DEF Bad
    <3> QED
      BY <3>1, LeastNatural
  <2> HIDE DEF n
  <2>2. CASE k = 0
    <3> DEFINE f == [d \in 0 .. 0 |-> <<>>]
    <3>1. f \in [0 .. 0 -> Script] /\ f[0] = <<>> /\ \A d \in 0 .. 0 : d = 0
      BY ScriptFacts
    <3> HIDE DEF f
    <3>2. Solves(f, k)
      BY <2>2, <3>1
    <3> QED
      BY <2>1, <3>2
  <2>3. CASE k # 0
    <3>1. k \in Nat /\ k <= n /\ k - 1 \in Nat /\ k - 1 <= n /\ k - 1 \notin Bad
      <4>1. k \in Nat /\ k <= n
        BY <2>1
      <4>2. k - 1 \in Nat /\ k - 1 <= n /\ ~(k <= k - 1)
        BY <1>0, <2>3, <4>1
      <4> HIDE DEF Bad
      <4> QED
        BY <2>1, <4>1, <4>2
    <3>2. PICK g : Solves(g, k - 1)
      BY <3>1
    <3> DEFINE v == Pending(s[k]) \o g[k - 1]
               f == [d \in 0 .. k |-> IF d = k THEN v ELSE g[d]]
    <3>3. /\ k \in 1 .. n /\ k \in 0 .. k /\ k - 1 \in 0 .. k - 1
          /\ \A d \in 0 .. k : d = k \/ d \in 0 .. k - 1
          /\ \A d \in 0 .. k - 1 : d \in 0 .. k /\ d # k
          /\ \A d \in 0 .. k - 1 : d # 0 => d - 1 \in 0 .. k - 1
      BY <1>0, <2>3, <3>1
    <3>4. v \in Script
      BY <1>0, <3>2, <3>3, ScriptFacts
    <3> HIDE DEF v
    <3>5. /\ f \in [0 .. k -> Script] /\ f[k] = v
          /\ \A d \in 0 .. k - 1 : f[d] = g[d]
      BY <3>2, <3>3, <3>4
    <3> HIDE DEF f
    <3>6. ASSUME NEW d \in 0 .. k PROVE f[d] = Rule(f, d)
      <4>1. CASE d = k
        <5>1. f[k - 1] = g[k - 1]
          BY <3>3, <3>5
        <5>2. f[k] = Pending(s[k]) \o f[k - 1]
          BY <3>5, <5>1 DEF v
        <5> QED
          BY <2>3, <4>1, <5>2
      <4>2. CASE d \in 0 .. k - 1
        <5>1. f[d] = g[d] /\ g[d] = Rule(g, d)
          BY <3>2, <3>5, <4>2
        <5>2. d # 0 => f[d - 1] = g[d - 1]
          BY <3>3, <3>5, <4>2
        <5> QED
          BY <5>1, <5>2
      <4> QED
        BY <3>3, <4>1, <4>2
    <3>7. Solves(f, k)
      BY <3>5, <3>6
    <3> QED
      BY <2>1, <3>7
  <2> QED
    BY <2>2, <2>3
<1> HIDE DEF n
<1>2. n \notin Bad
  BY <1>1
<1>3. PICK f : Solves(f, n)
  BY <1>0, <1>2
<1>4. f = [d \in 0 .. n |-> Rule(f, d)]
  BY <1>3
<1> QED
  BY <1>4 DEF n

\* Each activation reads before the one that waits for it.
LEMMA UptoFacts ==
  ASSUME NEW s \in Seq(PlacedFrames)
  PROVE  /\ Upto(s, 0) = <<>>
         /\ \A d \in 1 .. Len(s) : Upto(s, d) = Pending(s[d]) \o Upto(s, d - 1)
         /\ \A d \in 0 .. Len(s) : Upto(s, d) \in Script
<1> DEFINE n == Len(s)
           from == CHOOSE f : f = [d \in 0 .. n |-> IF d = 0 THEN <<>> ELSE Pending(s[d]) \o f[d - 1]]
<1>0. n \in Nat /\ \A d \in 1 .. n : Pending(s[d]) \in Script
  <2>1. \A d \in 1 .. Len(s) : s[d] \in PlacedFrames
    OBVIOUS
  <2> QED
    BY <2>1, PendingTyped DEF PlacedFrames
<1>1. \A d : Upto(s, d) = from[d]
  BY Zenon DEF Upto
<1> HIDE DEF n
<1>2. from = [d \in 0 .. n |-> IF d = 0 THEN <<>> ELSE Pending(s[d]) \o from[d - 1]]
  <2> DEFINE P(f) == f = [d \in 0 .. n |-> IF d = 0 THEN <<>> ELSE Pending(s[d]) \o f[d - 1]]
  <2>1. \E f : P(f)
    BY UptoExists DEF n
  <2> QED
    BY <2>1, Zenon
<1> HIDE DEF from
<1>3. \A d \in 0 .. n : from[d] = IF d = 0 THEN <<>> ELSE Pending(s[d]) \o from[d - 1]
  <2> DEFINE f == from
             g == [d \in 0 .. n |-> IF d = 0 THEN <<>> ELSE Pending(s[d]) \o f[d - 1]]
  <2>1. \A d \in 0 .. n : g[d] = IF d = 0 THEN <<>> ELSE Pending(s[d]) \o f[d - 1]
    OBVIOUS
  <2>2. f = g
    BY <1>2
  <2> HIDE DEF g
  <2> QED
    BY <2>1, <2>2
<1>4. /\ from[0] = <<>>
      /\ \A d \in 1 .. n : from[d] = Pending(s[d]) \o from[d - 1]
  <2>1. 0 \in 0 .. n /\ \A d \in 1 .. n : d \in 0 .. n /\ d # 0
    BY <1>0
  <2>2. from[0] = <<>>
    BY <1>3, <2>1
  <2>3. ASSUME NEW d \in 1 .. n PROVE from[d] = Pending(s[d]) \o from[d - 1]
    <3>1. d \in 0 .. n /\ d # 0
      BY <2>1
    <3>2. from[d] = IF d = 0 THEN <<>> ELSE Pending(s[d]) \o from[d - 1]
      BY <1>3, <3>1
    <3> QED
      BY <3>1, <3>2
  <2> QED
    BY <2>2, <2>3
<1>5. \A d \in 0 .. n : from[d] \in Script
  <2> DEFINE Bad == {d \in Nat : d <= n /\ from[d] \notin Script}
  <2>1. Bad = {}
    <3> SUFFICES ASSUME Bad # {} PROVE FALSE
      OBVIOUS
    <3>1. PICK d \in Bad : \A x \in Bad : d <= x
      <4>1. Bad \in SUBSET Nat
        OBVIOUS
      <4> HIDE DEF Bad
      <4> QED
        BY <4>1, LeastNatural
    <3>2. d \in Nat /\ d <= n /\ from[d] \notin Script
      BY <3>1
    <3>3. d # 0
      BY <1>4, <3>2, ScriptFacts
    <3>4. d \in 1 .. n /\ d - 1 \in Nat /\ d - 1 <= n /\ ~(d <= d - 1)
      BY <1>0, <3>2, <3>3
    <3>5. d - 1 \notin Bad
      <4> HIDE DEF Bad
      <4> QED
        BY <3>1, <3>4
    <3>6. from[d - 1] \in Script
      BY <3>4, <3>5
    <3> QED
      BY <1>0, <1>4, <3>2, <3>4, <3>6, ScriptFacts
  <2> QED
    BY <1>0, <2>1
<1>6. /\ Upto(s, 0) = <<>>
      /\ \A d \in 1 .. n : Upto(s, d) = Pending(s[d]) \o Upto(s, d - 1)
      /\ \A d \in 0 .. n : Upto(s, d) \in Script
  BY <1>1, <1>4, <1>5
<1> QED
  BY <1>6 DEF n

\* It depends on these activations only.
LEMMA UptoAgree ==
  ASSUME NEW s \in Seq(PlacedFrames), NEW r \in Seq(PlacedFrames), NEW k \in Nat,
         k <= Len(s), k <= Len(r), \A d \in 1 .. k : s[d] = r[d]
  PROVE  Upto(s, k) = Upto(r, k)
<1> DEFINE Bad == {d \in Nat : d <= k /\ Upto(s, d) # Upto(r, d)}
<1>0. Len(s) \in Nat /\ Len(r) \in Nat
  OBVIOUS
<1>1. Bad = {}
  <2> SUFFICES ASSUME Bad # {} PROVE FALSE
    OBVIOUS
  <2>1. PICK d \in Bad : \A x \in Bad : d <= x
    <3>1. Bad \in SUBSET Nat
      OBVIOUS
    <3> HIDE DEF Bad
    <3> QED
      BY <3>1, LeastNatural
  <2>2. d \in Nat /\ d <= k /\ Upto(s, d) # Upto(r, d)
    BY <2>1
  <2>3. d # 0
    BY <2>2, UptoFacts
  <2>4. /\ d \in 1 .. k /\ d \in 1 .. Len(s) /\ d \in 1 .. Len(r)
        /\ d - 1 \in Nat /\ d - 1 <= k /\ ~(d <= d - 1)
    BY <1>0, <2>2, <2>3
  <2>5. d - 1 \notin Bad
    <3> HIDE DEF Bad
    <3> QED
      BY <2>1, <2>4
  <2>6. Upto(s, d - 1) = Upto(r, d - 1)
    BY <2>4, <2>5
  <2>7. /\ Upto(s, d) = Pending(s[d]) \o Upto(s, d - 1)
        /\ Upto(r, d) = Pending(r[d]) \o Upto(r, d - 1)
    BY <2>4, UptoFacts
  <2> QED
    BY <2>2, <2>4, <2>6, <2>7
<1> QED
  BY <1>1

\* Between loads there is no activation, and during a load there is one.
StackOK == stack \in Seq(PlacedFrames) /\ (status = "loading" <=> stack # <<>>)

\* The vocabulary of KnobFiles is the same in both specifications.
LEMMA SameWords ==
  /\ \A args, at, state : Inclusion!Statements(args, at, state) = Statements(args, at, state)
  /\ \A args : Inclusion!TooMany(args) <=> TooMany(args)
  /\ \A t : Inclusion!AddString(t) = AddString(t)
  /\ \A t : Inclusion!Refuses(t) <=> Refuses(t)
  /\ \A p, v : Inclusion!Bind(p, v) = Bind(p, v)
  /\ Inclusion!Paths = Paths /\ Inclusion!Binding = Binding
<1>1. \A p, v : Inclusion!Bind(p, v) = Bind(p, v)
  BY DEF Bind, Inclusion!Bind
<1>2. \A t : Inclusion!Refuses(t) <=> Refuses(t)
  BY DEF Refuses, Inclusion!Refuses
<1>3. \A t : Inclusion!AddString(t) = AddString(t)
  <2>1. \A t : Inclusion!Listed(t) = Listed(t)
    BY <1>1, Zenon DEF Listed, Inclusion!Listed
  <2>2. \A t : Inclusion!Given(t) = Given(t)
    BY <1>1, <1>2, Zenon DEF Given, Inclusion!Given
  <2> QED
    BY <2>1, <2>2, Zenon DEF AddString, Inclusion!AddString
<1>4. \A args, at, state : Inclusion!Statements(args, at, state) = Statements(args, at, state)
  <2>1. \A op, t : Inclusion!Statement(op, t) = Statement(op, t)
    BY DEF Statement, Inclusion!Statement
  <2>2. \A t : Inclusion!AddsKnobs(t) <=> AddsKnobs(t)
    BY DEF AddsKnobs, Inclusion!AddsKnobs
  <2> SUFFICES ASSUME NEW args, NEW at, NEW state
               PROVE  Inclusion!Statements(args, at, state) = Statements(args, at, state)
    OBVIOUS
  <2> QED
    BY DEF Statements, Inclusion!Statements, Statement, Inclusion!Statement,
           AddsKnobs, Inclusion!AddsKnobs
<1>5. \A args : Inclusion!TooMany(args) <=> TooMany(args)
  BY DEF TooMany, Inclusion!TooMany
<1>6. Inclusion!Paths = Paths /\ Inclusion!Binding = Binding
  BY DEF Paths, Inclusion!Paths, Binding, Inclusion!Binding
<1> QED
  BY <1>1, <1>2, <1>3, <1>4, <1>5, <1>6

\* The innermost activation is read first.
LEMMA TopIsFirst ==
  ASSUME TypeOK, StackOK, stack # <<>>
  PROVE  /\ Len(stack) \in Nat \ {0} /\ Top \in Frames /\ Placed(Top) /\ Top = stack[Len(stack)]
         /\ Remaining = Pending(Top) \o Upto(stack, Len(stack) - 1)
         /\ Upto(stack, Len(stack) - 1) \in Script /\ Pending(Top) \in Script
<1>1. stack \in Seq(PlacedFrames) /\ Len(stack) \in Nat \ {0}
  BY DEF StackOK
<1>2. Top = stack[Len(stack)] /\ Len(stack) \in 1 .. Len(stack) /\ Len(stack) - 1 \in 0 .. Len(stack)
  BY <1>1 DEF Top
<1>3. Top \in PlacedFrames
  BY <1>1, <1>2
<1>4. /\ Upto(stack, Len(stack)) = Pending(Top) \o Upto(stack, Len(stack) - 1)
      /\ Upto(stack, Len(stack) - 1) \in Script
  BY <1>1, <1>2, UptoFacts
<1>5. Pending(Top) \in Script
  BY <1>3, PendingTyped DEF PlacedFrames
<1> QED
  BY <1>1, <1>2, <1>3, <1>4, <1>5, RemainingIsUpto DEF PlacedFrames

\* In the stack r the innermost activation goes on in state s, and the others wait.
GoesOn(r, s) ==
  \E g \in PlacedFrames :
    /\ g.args = Top.args /\ g.at = Top.at + 1 /\ g.argState = s
    /\ Upto(r, Len(r)) = Pending(g) \o Upto(stack, Len(stack) - 1)
    /\ Pending(g) \in Script

\* So it does when its frame moves to the next token.
LEMMA MovedOn ==
  ASSUME TypeOK, StackOK, More, NEW s \in {"START", "DASHF", "IGNORE"}, NEW b \in BOOLEAN,
         NEW r, r = Moved(s, b)
  PROVE  /\ r \in Seq(PlacedFrames) /\ Len(r) = Len(stack) /\ Len(stack) \in Nat \ {0}
         /\ GoesOn(r, s)
         /\ Token = Top.args[Top.at] /\ Token \in Tokens /\ Top.at <= Len(Top.args)
<1> DEFINE g == [Top EXCEPT !.at = Top.at + 1, !.argState = s, !.fresh = b]
           n == Len(stack)
<1>1. /\ n \in Nat \ {0} /\ Top \in Frames /\ Placed(Top) /\ Top = stack[n]
      /\ stack \in Seq(PlacedFrames) /\ Token \in Tokens /\ Top.at <= Len(Top.args)
  BY TopIsFirst, TopProperties DEF More, StackOK
<1>2. g \in Frames /\ g.args = Top.args /\ g.at = Top.at + 1 /\ g.argState = s
  <2>1. Top.at + 1 \in Nat \ {0}
    BY <1>1 DEF Frames
  <2> QED
    BY <1>1, <2>1 DEF Frames
<1>3. r = [stack EXCEPT ![n] = g]
  BY DEF Moved
<1> HIDE DEF g
<1>4. g \in PlacedFrames
  BY <1>1, <1>2, PendingTurns DEF PlacedFrames
<1> HIDE DEF n
<1>5. r \in Seq(PlacedFrames) /\ Len(r) = n /\ r[n] = g
      /\ \A d \in 1 .. n - 1 : r[d] = stack[d]
  BY <1>1, <1>3, <1>4, ExceptSeq DEF n
<1>6. Upto(r, n - 1) = Upto(stack, n - 1)
  <2>1. n - 1 \in Nat /\ n - 1 <= Len(r) /\ n - 1 <= Len(stack)
    BY <1>1, <1>5 DEF n
  <2>2. \A d \in 1 .. n - 1 : r[d] = stack[d]
    BY <1>5
  <2> QED
    BY <1>1, <1>5, <2>1, <2>2, UptoAgree
<1>7. Upto(r, n) = Pending(g) \o Upto(r, n - 1)
  <2>1. n \in 1 .. Len(r)
    BY <1>1, <1>5
  <2>2. Upto(r, n) = Pending(r[n]) \o Upto(r, n - 1)
    BY <1>5, <2>1, UptoFacts
  <2> QED
    BY <1>5, <2>2
<1>8. Pending(g) \in Script
  BY <1>4, PendingTyped DEF PlacedFrames
<1> QED
  BY <1>1, <1>2, <1>4, <1>5, <1>6, <1>7, <1>8 DEF n, Token, GoesOn

\* What becomes of what remains when the innermost activation takes a token.
LEMMA TokenTaken ==
  ASSUME TypeOK, StackOK, More, NEW s \in {"START", "DASHF", "IGNORE"}, NEW b \in BOOLEAN,
         NEW r, r = Moved(s, b)
  PROVE  /\ r \in Seq(PlacedFrames) /\ Len(r) = Len(stack) /\ r # <<>>
         /\ Upto(r, Len(r)) \in Script
         /\ \/ InState("START") /\ Kind[Token] = "-f" /\ s = "DASHF"
            \/ InState("START") /\ Kind[Token] = "-pli" /\ s = "IGNORE"
            \/ InState("IGNORE") /\ s = "START"
            \/ InState("START") /\ Kind[Token] = "+" /\ s = "START"
            => Remaining = Upto(r, Len(r))
         /\ InState("START") /\ Kind[Token] = "file" /\ s = "START"
              => Remaining = <<Statement("file", Token)>> \o Upto(r, Len(r))
         /\ InState("START") /\ AddsKnobs(Token) /\ s = "START"
              => Remaining = <<Statement("knob", Token)>> \o Upto(r, Len(r))
         /\ (InState("DASHF") \/ (InState("START") /\ Kind[Token] = "-f list")) /\ s = "START"
              => Remaining = <<Statement("include", Token)>> \o Upto(r, Len(r))
<1> DEFINE U == Upto(stack, Len(stack) - 1)
<1>1. /\ Top \in Frames /\ Placed(Top) /\ Remaining = Pending(Top) \o U
      /\ U \in Script /\ Pending(Top) \in Script
  BY TopIsFirst DEF More
<1>2. /\ r \in Seq(PlacedFrames) /\ Len(r) = Len(stack) /\ Len(stack) \in Nat \ {0}
      /\ Token = Top.args[Top.at] /\ Token \in Tokens /\ Top.at <= Len(Top.args)
  BY MovedOn
<1> HIDE DEF U
<1>3. PICK g \in PlacedFrames :
        /\ g.args = Top.args /\ g.at = Top.at + 1 /\ g.argState = s
        /\ Upto(r, Len(r)) = Pending(g) \o U
        /\ Pending(g) \in Script
  <2>1. \E g \in PlacedFrames :
          /\ g.args = Top.args /\ g.at = Top.at + 1 /\ g.argState = s
          /\ Upto(r, Len(r)) = Pending(g) \o Upto(stack, Len(stack) - 1)
          /\ Pending(g) \in Script
    <3>1. GoesOn(r, s)
      BY MovedOn
    <3> QED
      BY <3>1 DEF GoesOn
  <2> QED
    BY <2>1 DEF U
<1>4. g \in Frames
  BY DEF PlacedFrames
<1>5. /\ Top.argState = "START" /\ Kind[Token] = "-f" /\ s = "DASHF" => Pending(Top) = Pending(g)
      /\ Top.argState = "START" /\ Kind[Token] = "-pli" /\ s = "IGNORE" => Pending(Top) = Pending(g)
      /\ Top.argState = "IGNORE" /\ s = "START" => Pending(Top) = Pending(g)
      /\ Top.argState = "START" /\ Kind[Token] = "+" /\ s = "START" => Pending(Top) = Pending(g)
      /\ Top.argState = "START" /\ Kind[Token] = "file" /\ s = "START"
           => Pending(Top) = <<Statement("file", Token)>> \o Pending(g)
      /\ Top.argState = "START" /\ AddsKnobs(Token) /\ s = "START"
           => Pending(Top) = <<Statement("knob", Token)>> \o Pending(g)
      /\ (Top.argState = "DASHF" \/ (Top.argState = "START" /\ Kind[Token] = "-f list"))
           /\ s = "START"
           => Pending(Top) = <<Statement("include", Token)>> \o Pending(g)
  BY <1>1, <1>2, <1>3, <1>4, PendingTurns
<1>6. ASSUME NEW op \in {"knob", "file", "include"}
      PROVE  (<<Statement(op, Token)>> \o Pending(g)) \o U = <<Statement(op, Token)>> \o Upto(r, Len(r))
  <2> DEFINE x == <<Statement(op, Token)>>
  <2>1. x \in Script
    BY <1>2, StatementFacts, LineFacts, ScriptFacts
  <2> HIDE DEF x
  <2>2. Joined(x, Pending(g), U)
    BY <1>1, <1>3, <2>1, ScriptFacts
  <2>3. (x \o Pending(g)) \o U = x \o Upto(r, Len(r))
    BY <1>3, <2>2, Zenon DEF Joined
  <2> QED
    BY <2>3 DEF x
<1>7. Upto(r, Len(r)) \in Script /\ r # <<>>
  BY <1>1, <1>2, <1>3, ScriptFacts
<1>8. /\ Top.argState = "START" /\ Kind[Token] = "-f" /\ s = "DASHF" => Remaining = Upto(r, Len(r))
      /\ Top.argState = "START" /\ Kind[Token] = "-pli" /\ s = "IGNORE" => Remaining = Upto(r, Len(r))
      /\ Top.argState = "IGNORE" /\ s = "START" => Remaining = Upto(r, Len(r))
      /\ Top.argState = "START" /\ Kind[Token] = "+" /\ s = "START" => Remaining = Upto(r, Len(r))
  BY <1>1, <1>3, <1>5, Zenon
<1>9. /\ Top.argState = "START" /\ Kind[Token] = "file" /\ s = "START"
           => Remaining = <<Statement("file", Token)>> \o Upto(r, Len(r))
      /\ Top.argState = "START" /\ AddsKnobs(Token) /\ s = "START"
           => Remaining = <<Statement("knob", Token)>> \o Upto(r, Len(r))
      /\ (Top.argState = "DASHF" \/ (Top.argState = "START" /\ Kind[Token] = "-f list"))
           /\ s = "START"
           => Remaining = <<Statement("include", Token)>> \o Upto(r, Len(r))
  <2>1. \A op \in {"knob", "file", "include"} :
          Pending(Top) = <<Statement(op, Token)>> \o Pending(g)
            => Remaining = <<Statement(op, Token)>> \o Upto(r, Len(r))
    BY <1>1, <1>6, Zenon
  <2> QED
    BY <1>5, <2>1, Zenon
<1> QED
  BY <1>2, <1>7, <1>8, <1>9, Zenon DEF InState

\* Nothing remains once the activations are gone.
LEMMA NothingRemains == stack' = <<>> => Remaining' = <<>>
<1> SUFFICES ASSUME stack' = <<>> PROVE Remaining' = <<>>
  OBVIOUS
<1>1. <<>> \in Seq(PlacedFrames) /\ Len(<<>>) = 0
  OBVIOUS
<1>2. Upto(<<>>, 0) = <<>>
  BY <1>1, UptoFacts
<1>3. Remaining' = Upto(<<>>, Len(<<>>))
  BY RemainingIsUpto
<1> QED
  BY <1>1, <1>2, <1>3

\* The bindings are the patterns and values of the knobs, in order.
LEMMA BindingsFacts ==
  ASSUME TypeOK
  PROVE  /\ Bindings \in Seq(Binding) /\ Len(Bindings) = Len(list) /\ Len(list) \in Nat
         /\ \A k \in 1 .. Len(list) : Bindings[k] = Bind(list[k].pattern, list[k].value)
<1>1. list \in Seq(Knobs) /\ DOMAIN list = 1 .. Len(list) /\ Len(list) \in Nat
  BY DEF TypeOK
<1>2. \A k \in 1 .. Len(list) : list[k] \in Knobs
  BY <1>1, ElementOfSeq
<1>3. \A e \in Knobs : Bind(e.pattern, e.value) \in Binding
  BY DEF Knobs, Bind, Binding
<1>4. Bindings \in [1 .. Len(list) -> Binding]
  BY <1>1, <1>2, <1>3 DEF Bindings
<1>5. Bindings \in Seq(Binding) /\ Len(Bindings) = Len(list)
  BY <1>1, <1>4, SeqDef, LenProperties
<1> QED
  BY <1>1, <1>5 DEF Bindings

\* The knobs that are recorded are the bindings that are added.
LEMMA RecordBinds ==
  ASSUME TypeOK, NEW bs \in Seq(Binding), NEW c, Record(bs, c)
  PROVE  Bindings' = Bindings \o bs
<1> DEFINE new == [i \in DOMAIN bs |->
             [pattern |-> bs[i].pattern, value |-> bs[i].value, comment |-> Read(c)]]
           n == Len(list)
           m == Len(bs)
<1>1. /\ list \in Seq(Knobs) /\ DOMAIN list = 1 .. n /\ n \in Nat
      /\ DOMAIN bs = 1 .. m /\ m \in Nat /\ \A i \in 1 .. m : bs[i] \in Binding
  BY ElementOfSeq DEF TypeOK
<1>2. \A i \in 1 .. m : new[i].pattern = bs[i].pattern /\ new[i].value = bs[i].value
  BY <1>1
<1>3. new \in [1 .. m -> {new[i] : i \in 1 .. m}]
  BY <1>1
<1>4. list' = list \o new
  BY DEF Record
<1> HIDE DEF new
<1>5. new \in Seq({new[i] : i \in 1 .. m}) /\ Len(new) = m
  BY <1>1, <1>3, SeqDef, LenProperties
<1> HIDE DEF n, m
<1>6. /\ DOMAIN list' = 1 .. n + m
      /\ \A k \in 1 .. n + m : list'[k] = IF k <= n THEN list[k] ELSE new[k - n]
  <2> DEFINE All == Knobs \cup {new[i] : i \in 1 .. m}
  <2>1. list \in Seq(All) /\ new \in Seq(All) /\ Len(list) = n
    BY <1>1, <1>5 DEF n
  <2> HIDE DEF All
  <2>2. /\ list \o new \in Seq(All) /\ Len(list \o new) = n + m
        /\ \A k \in 1 .. n + m : (list \o new)[k] = IF k <= n THEN list[k] ELSE new[k - n]
    BY <1>5, <2>1, ConcatProperties
  <2>3. DOMAIN (list \o new) = 1 .. n + m
    BY <2>2, LenProperties
  <2> QED
    BY <1>4, <2>2, <2>3
<1>7. Bindings' = [k \in 1 .. n + m |-> Bind(list'[k].pattern, list'[k].value)]
  BY <1>6 DEF Bindings
<1>8. Bindings \in Seq(Binding) /\ Len(Bindings) = n
      /\ \A k \in 1 .. n : Bindings[k] = Bind(list[k].pattern, list[k].value)
  BY BindingsFacts DEF n
<1>9. /\ Bindings \o bs \in Seq(Binding) /\ Len(Bindings \o bs) = n + m
      /\ \A k \in 1 .. n + m : (Bindings \o bs)[k] = IF k <= n THEN Bindings[k] ELSE bs[k - n]
  BY <1>8, ConcatProperties DEF m
<1>10. ASSUME NEW k \in 1 .. n + m
       PROVE  (Bindings \o bs)[k] = Bind(list'[k].pattern, list'[k].value)
  <2>1. CASE k <= n
    <3>1. k \in 1 .. n
      BY <1>1, <2>1
    <3> QED
      BY <1>6, <1>8, <1>9, <2>1, <3>1
  <2>2. CASE ~(k <= n)
    <3>1. k - n \in 1 .. m
      BY <1>1, <2>2
    <3>2. bs[k - n] = Bind(bs[k - n].pattern, bs[k - n].value)
      BY <1>1, <3>1 DEF Binding, Bind
    <3>3. list'[k] = new[k - n] /\ (Bindings \o bs)[k] = bs[k - n]
      BY <1>6, <1>9, <2>2
    <3> QED
      BY <1>2, <3>1, <3>2, <3>3
  <2> QED
    BY <2>1, <2>2
<1>11. Bindings \o bs = [k \in 1 .. n + m |-> Bind(list'[k].pattern, list'[k].value)]
  <2> DEFINE both == Bindings \o bs
  <2>1. both \in Seq(Binding) /\ Len(both) = n + m
    BY <1>9
  <2>2. \A k \in 1 .. n + m : both[k] = Bind(list'[k].pattern, list'[k].value)
    BY <1>10
  <2> HIDE DEF both
  <2>3. both = [k \in 1 .. n + m |-> both[k]]
    BY <2>1
  <2>4. both = [k \in 1 .. n + m |-> Bind(list'[k].pattern, list'[k].value)]
    BY <2>2, <2>3
  <2> QED
    BY <2>4 DEF both
<1> QED
  BY <1>7, <1>11

\* Tokens that only turn the state of the loop are no lines.
LEMMA TurnMaps ==
  ASSUME TypeOK, StackOK, Turn
  PROVE  StackOK' /\ UNCHANGED Inclusion!vars
<1>1. More /\ UNCHANGED <<list, status>> /\ stack # <<>>
  BY TurnProperties DEF More
<1>2. PICK s \in {"START", "DASHF", "IGNORE"} :
        /\ stack' = Turned(s)
        /\ \/ InState("START") /\ Kind[Token] = "-f" /\ s = "DASHF"
           \/ InState("START") /\ Kind[Token] = "-pli" /\ s = "IGNORE"
           \/ InState("IGNORE") /\ s = "START"
           \/ InState("START") /\ Kind[Token] = "+" /\ s = "START"
  BY DEF Turn, ExpectList, ExpectIgnored, Ignore, LonePlus
<1>3. Top.fresh \in BOOLEAN
  BY <1>1, TopProperties DEF Frames
<1>4. stack' = Moved(s, Top.fresh)
  BY <1>2 DEF Turned
<1>5. /\ stack' \in Seq(PlacedFrames) /\ stack' # <<>>
      /\ Remaining = Upto(stack', Len(stack'))
  BY <1>1, <1>2, <1>3, <1>4, TokenTaken
<1>6. Remaining' = Remaining
  BY <1>5, RemainingIsUpto
<1>7. StackOK'
  BY <1>1, <1>5 DEF StackOK
<1>8. Bindings' = Bindings
  BY <1>1 DEF Bindings
<1> QED
  BY <1>1, <1>6, <1>7, <1>8 DEF Inclusion!vars

\* The knobs of a line.
LEMMA AddingMaps ==
  ASSUME TypeOK, StackOK, PlainFile \/ AddKnob
  PROVE  StackOK' /\ Inclusion!Obey
<1>1. More /\ status = "loading" /\ stack # <<>> /\ InState("START")
  BY DEF PlainFile, AddKnob, InState, More, StackOK
<1>2. Top.fresh \in BOOLEAN /\ Token \in Tokens
  BY <1>1, TopProperties DEF Frames
<1> DEFINE r == Moved("START", Top.fresh)
           after == Upto(r, Len(r))
<1>3. /\ r \in Seq(PlacedFrames) /\ r # <<>> /\ after \in Script
      /\ Kind[Token] = "file" => Remaining = <<Statement("file", Token)>> \o after
      /\ AddsKnobs(Token) => Remaining = <<Statement("knob", Token)>> \o after
  BY <1>1, <1>2, TokenTaken
<1>4. Turned("START") = r
  BY DEF Turned
<1> HIDE DEF r
<1>5. stack' = r => Remaining' = after
  BY RemainingIsUpto
<1> HIDE DEF after
<1>6. CASE PlainFile
  <2> DEFINE x == Statement("file", Token)
  <2>1. /\ Kind[Token] = "file" /\ Record(<<Bind(FilesName, Text[Token])>>, TextAt(<<NoDir, FileText>>))
        /\ stack' = r /\ status' = status
    BY <1>4, <1>6 DEF PlainFile
  <2>2. x \in Lines /\ x.op = "file" /\ x.token = Token
    BY <1>2, StatementFacts
  <2> HIDE DEF x
  <2>3. Remaining = <<x>> \o after
    BY <1>3, <2>1 DEF x
  <2>4. Remaining # <<>> /\ Head(Remaining) = x /\ Tail(Remaining) = after
    BY <1>3, <2>2, <2>3, LineFacts
  <2>5. Bindings' = Append(Bindings, Bind(FilesName, Text[Token]))
    <3>1. Bind(FilesName, Text[Token]) \in Binding
      BY <1>2, TokensAssumption DEF Bind, Binding
    <3>2. <<Bind(FilesName, Text[Token])>> \in Seq(Binding)
      BY <3>1
    <3>3. Bindings' = Bindings \o <<Bind(FilesName, Text[Token])>>
      BY <2>1, <3>2, RecordBinds
    <3>4. Bindings \in Seq(Binding)
      BY BindingsFacts
    <3> QED
      BY <3>1, <3>3, <3>4, AppendIsConcat
  <2>6. Inclusion!Obey
    BY <1>1, <1>5, <2>1, <2>2, <2>4, <2>5, SameWords DEF Inclusion!Obey
  <2>7. StackOK'
    BY <1>1, <1>3, <2>1 DEF StackOK
  <2> QED
    BY <2>6, <2>7
<1>7. CASE AddKnob
  <2> DEFINE x == Statement("knob", Token)
  <2>1. /\ AddsKnobs(Token) /\ Record(AddString(Token), Top.comment)
        /\ IF Refuses(Token) THEN Stop("error") ELSE stack' = r /\ UNCHANGED status
    BY <1>4, <1>7 DEF AddKnob
  <2>2. x \in Lines /\ x.op = "knob" /\ x.token = Token
    BY <1>2, StatementFacts
  <2> HIDE DEF x
  <2>3. Remaining = <<x>> \o after
    BY <1>3, <2>1 DEF x
  <2>4. Remaining # <<>> /\ Head(Remaining) = x /\ Tail(Remaining) = after
    BY <1>3, <2>2, <2>3, LineFacts
  <2>5. Bindings' = Bindings \o AddString(Token)
    BY <1>2, <2>1, AddStringType, RecordBinds
  <2>6. /\ Refuses(Token) => Inclusion!Stop("error")
        /\ ~Refuses(Token) => Remaining' = after /\ UNCHANGED status
    BY <1>5, <2>1, NothingRemains DEF Stop, Inclusion!Stop
  <2>7. Inclusion!Obey
    BY <1>1, <2>2, <2>4, <2>5, <2>6, SameWords DEF Inclusion!Obey
  <2>8. StackOK'
    <3>1. CASE Refuses(Token)
      <4>1. stack' = <<>> /\ status' = "error"
        BY <2>1, <3>1 DEF Stop
      <4>2. <<>> \in Seq(PlacedFrames)
        OBVIOUS
      <4> QED
        BY <4>1, <4>2 DEF StackOK
    <3>2. CASE ~Refuses(Token)
      <4>1. stack' = r /\ status' = "loading"
        BY <1>1, <2>1, <3>2
      <4> QED
        BY <1>3, <4>1 DEF StackOK
    <3> QED
      BY <3>1, <3>2
  <2> QED
    BY <2>7, <2>8
<1> QED
  BY <1>6, <1>7

\* A load that ends leaves no activation and nothing to obey.
LEMMA Stopped ==
  ASSUME NEW why, why # "loading", Stop(why)
  PROVE  StackOK' /\ Inclusion!Stop(why)
<1>1. stack' = <<>> /\ status' = why
  BY DEF Stop
<1>2. <<>> \in Seq(PlacedFrames)
  OBVIOUS
<1>3. Inclusion!Stop(why)
  BY <1>1, NothingRemains DEF Inclusion!Stop
<1>4. StackOK'
  BY <1>1, <1>2 DEF StackOK
<1> QED
  BY <1>3, <1>4

\* What remains in the stack r is args, and then what callers have left.
ReadFirst(args, r, callers) ==
  Upto(r, Len(r)) = Statements(args, 1, "START") \o Upto(callers, Len(callers))

\* A new activation is read before its callers.
LEMMA Pushed ==
  ASSUME NEW callers \in Seq(PlacedFrames), NEW args \in Seq(Tokens),
         NEW c \in Pointers, NEW s \in Strings,
         NEW r, r = Append(callers, Frame(args, c, s))
  PROVE  /\ r \in Seq(PlacedFrames) /\ r # <<>>
         /\ ReadFirst(args, r, callers)
<1> DEFINE f == Frame(args, c, s)
           n == Len(callers)
<1>1. f \in Frames /\ f.args = args /\ f.at = 1 /\ f.argState = "START"
  BY FrameType DEF Frame
<1>2. f \in PlacedFrames /\ Pending(f) = Statements(args, 1, "START")
  BY <1>1 DEF PlacedFrames, Placed, Pending
<1> HIDE DEF f
<1>3. /\ r \in Seq(PlacedFrames) /\ Len(r) = n + 1 /\ r[n + 1] = f /\ n \in Nat
      /\ \A d \in 1 .. n : r[d] = callers[d]
  BY <1>2, AppendProperties DEF f
<1>4. n <= Len(callers)
  BY <1>3
<1> HIDE DEF n
<1>5. n + 1 \in 1 .. Len(r) /\ n + 1 - 1 = n /\ n <= Len(r) /\ r # <<>>
  BY <1>3
<1>6. Upto(r, n + 1) = Pending(f) \o Upto(r, n)
  <2> DEFINE m == n + 1
  <2>1. m \in 1 .. Len(r) /\ m - 1 = n /\ r[m] = f
    BY <1>3, <1>5
  <2> HIDE DEF m
  <2>2. Upto(r, m) = Pending(r[m]) \o Upto(r, m - 1)
    BY <1>3, <2>1, UptoFacts
  <2> QED
    BY <2>1, <2>2, Zenon DEF m
<1>7. Upto(r, n) = Upto(callers, n)
  BY <1>3, <1>4, <1>5, UptoAgree
<1> QED
  BY <1>2, <1>3, <1>5, <1>6, <1>7 DEF n, ReadFirst

\* Loading tokens puts their lines before what the callers have left.
LEMMA TokensInserted ==
  ASSUME NEW callers \in Seq(PlacedFrames), NEW args \in Seq(Tokens),
         NEW c \in Pointers, NEW s \in Strings, LoadTokens(args, c, s, callers)
  PROVE  /\ StackOK'
         /\ TooMany(args) => Inclusion!Stop("aborted")
         /\ ~TooMany(args) =>
              /\ Remaining' = Statements(args, 1, "START") \o Upto(callers, Len(callers))
              /\ status' = "loading"
<1>1. CASE TooMany(args)
  <2>1. Stop("aborted")
    BY <1>1 DEF LoadTokens
  <2> QED
    BY <1>1, <2>1, Stopped
<1>2. CASE ~TooMany(args)
  <2> DEFINE r == Append(callers, Frame(args, c, s))
  <2>1. stack' = r /\ status' = "loading"
    BY <1>2 DEF LoadTokens
  <2>2. /\ r \in Seq(PlacedFrames) /\ r # <<>>
        /\ ReadFirst(args, r, callers)
    BY Pushed
  <2> HIDE DEF r
  <2>3. Remaining' = Upto(r, Len(r))
    BY <2>1, RemainingIsUpto
  <2>4. StackOK'
    BY <2>1, <2>2 DEF StackOK
  <2> QED
    BY <1>2, <2>1, <2>2, <2>3, <2>4 DEF ReadFirst
<1> QED
  BY <1>1, <1>2

\* The same for the file at a path.
LEMMA PathInserted ==
  ASSUME NEW callers \in Seq(PlacedFrames), NEW p \in Paths, NEW c \in Pointers,
         LoadPath(p, c, callers)
  PROVE  StackOK' /\ Inclusion!Insert(p, Upto(callers, Len(callers)))
<1>1. CASE p \notin DOMAIN Contents
  <2>1. Stop("error")
    BY <1>1 DEF LoadPath
  <2> QED
    BY <1>1, <2>1, Stopped DEF Inclusion!Insert
<1>2. CASE p \in DOMAIN Contents
  <2>1. LoadTokens(Contents[p], c, p, callers)
    BY <1>2 DEF LoadPath
  <2>2. Contents[p] \in Seq(Tokens) /\ p \in Strings
    BY <1>2, FilesAssumption, PointersAreTyped
  <2>3. /\ StackOK'
        /\ TooMany(Contents[p]) => Inclusion!Stop("aborted")
        /\ ~TooMany(Contents[p]) =>
             /\ Remaining' = Statements(Contents[p], 1, "START") \o Upto(callers, Len(callers))
             /\ status' = "loading"
    BY <2>1, <2>2, TokensInserted
  <2> QED
    BY <1>2, <2>3, SameWords, Zenon DEF Inclusion!Insert
<1> QED
  BY <1>1, <1>2

\* sknobs_find_file finds what the name stands for.
LEMMA FoundStands ==
  ASSUME TypeOK, NEW n \in FileNames
  PROVE  Inclusion!StandsFor(n, FoundFile(n))
<1>1. /\ Bindings \in Seq(Binding) /\ Len(Bindings) = Len(list) /\ Len(list) \in Nat
      /\ \A k \in 1 .. Len(list) : Bindings[k] = Bind(list[k].pattern, list[k].value)
  BY BindingsFacts
<1>2. DOMAIN Bindings = 1 .. Len(list) /\ DOMAIN list = 1 .. Len(list)
  BY <1>1 DEF TypeOK
<1>3. \A k \in 1 .. Len(list) : /\ Bindings[k].pattern = list[k].pattern
                                /\ Bindings[k].value = list[k].value
  <2>1. ASSUME NEW k \in 1 .. Len(list)
        PROVE  Bindings[k].pattern = list[k].pattern /\ Bindings[k].value = list[k].value
    <3>1. Bindings[k] = Bind(list[k].pattern, list[k].value)
      BY <1>1
    <3> QED
      BY <3>1 DEF Bind
  <2> QED
    BY <2>1
<1>4. Inclusion!Directories = SearchPath /\ SearchPath \subseteq 1 .. Len(list)
  BY <1>2, <1>3 DEF Inclusion!Directories, SearchPath
<1>5. \A i \in SearchPath : Inclusion!Has(i, n) <=> i \in Having(n)
  BY <1>3, <1>4 DEF Inclusion!Has, Having
<1>6. CASE Having(n) = {}
  <2>1. FoundFile(n) = <<NoDir, n>>
    BY <1>6 DEF FoundFile
  <2>2. \A i \in Inclusion!Directories : ~Inclusion!Has(i, n)
    BY <1>4, <1>5, <1>6
  <2> QED
    BY <2>1, <2>2, Zenon DEF Inclusion!StandsFor
<1>7. CASE Having(n) # {}
  <2> DEFINE m == Min(Having(n))
  <2>1. Having(n) \in SUBSET Nat /\ Having(n) \subseteq SearchPath
    <3>1. Having(n) \subseteq SearchPath
      BY DEF Having
    <3>2. 1 .. Len(list) \subseteq Nat
      BY <1>1
    <3> QED
      BY <1>4, <3>1, <3>2, Zenon
  <2>2. m \in Having(n) /\ \A x \in Having(n) : m <= x
    BY <1>7, <2>1, MinOfNaturals
  <2>3. FoundFile(n) = <<list[m].value, n>>
    BY <1>7 DEF FoundFile
  <2> HIDE DEF m
  <2>4. m \in SearchPath /\ Inclusion!Has(m, n) /\ FoundFile(n) = <<Bindings[m].value, n>>
    BY <1>3, <1>4, <1>5, <2>1, <2>2, <2>3
  <2>5. \A j \in Inclusion!Directories : Inclusion!Has(j, n) => m <= j
    BY <1>4, <1>5, <2>2
  <2> QED
    BY <1>4, <2>4, <2>5, Zenon DEF Inclusion!StandsFor
<1> QED
  BY <1>6, <1>7

\* The lines of a file take the place of the line that named it.
LEMMA IncludeMaps ==
  ASSUME TypeOK, StackOK, Include
  PROVE  StackOK' /\ Inclusion!Obey
<1> DEFINE names == Alternatives[Token]
           fresh == (Top.fresh /\ Top.comment.to = "text")
           callers == Moved("START", fresh)
           after == Upto(callers, Len(callers))
           C(k) == IF Having(names[k]) = {} THEN EvalBufferAt(k) ELSE FileBufferPointer
           x == Statement("include", Token)
<1>1. /\ More /\ status = "loading" /\ Token \in Tokens
      /\ InState("DASHF") \/ (InState("START") /\ Kind[Token] = "-f list")
  <2>1. More /\ (InState("DASHF") \/ (InState("START") /\ Kind[Token] = "-f list"))
    BY DEF Include, InState
  <2> QED
    BY <2>1, TopProperties DEF More, StackOK
<1>2. fresh \in BOOLEAN
  <2>1. Top.fresh \in BOOLEAN
    BY <1>1, TopProperties DEF Frames
  <2> QED
    BY <2>1
<1>3. x \in Lines /\ x.op = "include" /\ x.token = Token
  BY <1>1, StatementFacts
<1>4. PICK k \in DOMAIN names : LoadPath(FoundFile(names[k]), C(k), callers)
  BY DEF Include
<1>5. UNCHANGED list
  BY DEF Include
<1>6. names \in Seq(FileNames)
  BY <1>1, TokensAssumption
<1> HIDE DEF fresh
<1>7. /\ callers \in Seq(PlacedFrames) /\ after \in Script
      /\ Remaining = <<x>> \o after
  BY <1>1, <1>2, TokenTaken
<1>8. names[k] \in FileNames /\ k \in Nat \ {0}
  BY <1>4, <1>6, ElementOfSeq
<1>9. C(k) \in Pointers
  BY <1>8, PointersAreTyped
<1>10. FoundFile(names[k]) \in Paths /\ Inclusion!StandsFor(names[k], FoundFile(names[k]))
  BY <1>8, FindProperties, FoundStands
<1> HIDE DEF C, callers
<1>11. StackOK' /\ Inclusion!Insert(FoundFile(names[k]), after)
  BY <1>4, <1>7, <1>9, <1>10, PathInserted
<1> HIDE DEF after, x
<1>12. Remaining # <<>> /\ Head(Remaining) = x /\ Tail(Remaining) = after
  BY <1>3, <1>7, LineFacts
<1>13. Bindings' = Bindings
  BY <1>5 DEF Bindings
<1>14. \E j \in DOMAIN Alternatives[Token], p \in Inclusion!Paths :
         Inclusion!StandsFor(Alternatives[Token][j], p) /\ Inclusion!Insert(p, after)
  <2>1. FoundFile(names[k]) \in Inclusion!Paths
    BY <1>10, SameWords
  <2> QED
    BY <1>4, <1>10, <1>11, <2>1
<1>15. Inclusion!Obey
  BY <1>1, <1>3, <1>12, <1>13, <1>14, Zenon DEF Inclusion!Obey
<1> QED
  BY <1>11, <1>15

\* The end of argv: a missing name is a line that cannot be obeyed, the return of
\* the outermost activation ends the load, and any other return is no step.
LEMMA ReturnMaps ==
  ASSUME TypeOK, StackOK, Return
  PROVE  StackOK' /\ (Inclusion!Obey \/ Inclusion!Finish \/ UNCHANGED Inclusion!vars)
<1> DEFINE n == Len(stack)
           rest == Upto(stack, n - 1)
<1>1. /\ stack # <<>> /\ status = "loading" /\ ~(Top.at <= Len(Top.args))
      /\ stack \in Seq(PlacedFrames) /\ UNCHANGED list
  BY DEF Return, Finished, More, StackOK
<1>2. /\ n \in Nat \ {0} /\ Top \in Frames /\ Placed(Top)
      /\ Remaining = Pending(Top) \o rest /\ rest \in Script /\ Pending(Top) \in Script
  BY <1>1, TopIsFirst
<1>3. Bindings' = Bindings
  BY <1>1 DEF Bindings
<1>4. Top.at > Len(Top.args)
  <2>1. Top.at \in Nat /\ Len(Top.args) \in Nat
    BY <1>2 DEF Frames
  <2> QED
    BY <1>1, <2>1
<1>5. CASE Top.argState # "START"
  <2>1. PICK t \in Tokens : Pending(Top) = <<Statement("fail", t)>>
    BY <1>2, <1>4, <1>5, PendingEnds
  <2> DEFINE x == Statement("fail", t)
  <2>2. x \in Lines /\ x.op = "fail"
    BY StatementFacts
  <2>3. Pending(Top) = <<x>>
    BY <2>1
  <2> HIDE DEF x, rest
  <2>4. Remaining # <<>> /\ Head(Remaining) = x
    BY <1>2, <2>2, <2>3, LineFacts
  <2>5. Stop("error")
    BY <1>5 DEF Return
  <2>6. StackOK' /\ Inclusion!Stop("error")
    BY <2>5, Stopped
  <2>7. Inclusion!Obey
    BY <1>1, <1>3, <2>2, <2>4, <2>6, Zenon DEF Inclusion!Obey
  <2> QED
    BY <2>6, <2>7
<1>6. CASE Top.argState = "START" /\ n = 1
  <2>1. Pending(Top) = <<>>
    BY <1>2, <1>4, <1>6, PendingEnds
  <2>2. rest = <<>>
    BY <1>1, <1>6, UptoFacts
  <2>3. Remaining = <<>>
    BY <1>2, <2>1, <2>2, ScriptFacts
  <2>4. Stop("ok")
    BY <1>6 DEF Return
  <2>5. StackOK' /\ Inclusion!Stop("ok")
    BY <2>4, Stopped
  <2> QED
    BY <1>1, <1>3, <2>3, <2>5 DEF Inclusion!Finish
<1>7. CASE Top.argState = "START" /\ n # 1
  <2> DEFINE r == SubSeq(stack, 1, n - 1)
  <2>1. stack' = r /\ status' = "loading"
    BY <1>1, <1>7 DEF Return
  <2>2. r \in Seq(PlacedFrames)
    BY <1>1, <1>2, SubSeqProperties
  <2>3. Len(r) = n - 1 /\ \A d \in 1 .. n - 1 : r[d] = stack[d]
    BY <1>1, AllButLast
  <2> HIDE DEF r
  <2>4. n - 1 \in Nat /\ n - 1 <= n /\ n - 1 <= Len(r) /\ r # <<>>
    BY <1>2, <1>7, <2>2, <2>3
  <2>5. Upto(r, n - 1) = rest
    BY <1>1, <2>2, <2>3, <2>4, UptoAgree
  <2>6. Pending(Top) = <<>>
    BY <1>2, <1>4, <1>7, PendingEnds
  <2>7. Remaining = rest
    BY <1>2, <2>6, ScriptFacts
  <2>8. Remaining' = Remaining
    BY <2>1, <2>3, <2>5, <2>7, RemainingIsUpto
  <2>9. StackOK'
    BY <2>1, <2>2, <2>4 DEF StackOK
  <2> QED
    BY <1>1, <1>3, <2>1, <2>8, <2>9 DEF Inclusion!vars
<1> QED
  BY <1>5, <1>6, <1>7

\* What is read of a command line, when nothing waits for it.
LEMMA Alone ==
  ASSUME NEW args \in Seq(Tokens)
  PROVE  /\ <<>> \in Seq(PlacedFrames) /\ Upto(<<>>, Len(<<>>)) = <<>>
         /\ Statements(args, 1, "START") \o <<>> = Statements(args, 1, "START")
<1>1. <<>> \in Seq(PlacedFrames) /\ Len(<<>>) = 0
  OBVIOUS
<1>2. Upto(<<>>, 0) = <<>>
  BY <1>1, UptoFacts
<1>3. 1 \in 1 .. Len(args) + 2
  <2>1. Len(args) \in Nat
    OBVIOUS
  <2> QED
    BY <2>1
<1>4. Statements(args, 1, "START") \in Script
  BY <1>3, ReadingFacts, StatementsRead
<1> QED
  BY <1>1, <1>2, <1>4, ScriptFacts

\* The program's calls begin a load.
LEMMA CallMaps ==
  ASSUME TypeOK,
         \/ \E args \in CommandLines, c \in Comments : Load(args, c) \/ LoadString(args, c)
         \/ \E p \in Paths : LoadFile(p) \/ LoadFileIfExists(p)
  PROVE  StackOK' /\ Inclusion!Begin
<1>1. status \in {"ok", "error"} /\ UNCHANGED list
  BY DEF Load, LoadString, LoadFile, LoadFileIfExists, Idle
<1>2. Bindings' = Bindings
  BY <1>1 DEF Bindings
<1>3. CommandLines \subseteq Seq(Tokens)
  BY TokensAssumption
<1>4. ASSUME NEW args \in CommandLines, NEW c \in Comments, Load(args, c)
      PROVE  StackOK' /\ Inclusion!Begin
  <2> DEFINE q == TextAt(<<NoDir, c>>)
             s == <<NoDir, c>>
             r == <<Frame(args, q, s)>>
  <2>1. stack' = r /\ status' = "loading"
    BY <1>4 DEF Load
  <2>2. q \in Pointers /\ s \in Strings /\ args \in Seq(Tokens)
    BY <1>3, PointersAreTyped
  <2>3. r = Append(<<>>, Frame(args, q, s))
    OBVIOUS
  <2> HIDE DEF q, s, r
  <2>4. r \in Seq(PlacedFrames) /\ r # <<>> /\ ReadFirst(args, r, <<>>)
    <3>1. <<>> \in Seq(PlacedFrames)
      OBVIOUS
    <3> QED
      BY <2>2, <2>3, <3>1, Pushed
  <2>5. Remaining' = Statements(args, 1, "START")
    BY <2>1, <2>2, <2>4, Alone, RemainingIsUpto DEF ReadFirst
  <2>6. StackOK'
    BY <2>1, <2>4 DEF StackOK
  <2>7. Inclusion!Begin
    BY <1>1, <1>2, <2>1, <2>5, SameWords, Zenon DEF Inclusion!Begin
  <2> QED
    BY <2>6, <2>7
<1>5. ASSUME NEW args \in CommandLines, NEW c \in Comments, LoadString(args, c)
      PROVE  StackOK' /\ Inclusion!Begin
  <2>1. LoadTokens(args, TextAt(<<NoDir, c>>), <<NoDir, c>>, <<>>)
    BY <1>5 DEF LoadString
  <2>2. TextAt(<<NoDir, c>>) \in Pointers /\ <<NoDir, c>> \in Strings /\ args \in Seq(Tokens)
    BY <1>3, PointersAreTyped
  <2>3. /\ StackOK'
        /\ TooMany(args) => Inclusion!Stop("aborted")
        /\ ~TooMany(args) =>
             /\ Remaining' = Statements(args, 1, "START") \o Upto(<<>>, Len(<<>>))
             /\ status' = "loading"
    BY <2>1, <2>2, Alone, TokensInserted
  <2>4. ~TooMany(args) => Remaining' = Statements(args, 1, "START") /\ status' = "loading"
    BY <2>2, <2>3, Alone
  <2>5. Inclusion!Begin
    BY <1>1, <1>2, <2>3, <2>4, SameWords, Zenon DEF Inclusion!Begin
  <2> QED
    BY <2>3, <2>5
<1>6. ASSUME NEW p \in Paths, LoadPath(p, TextAt(p), <<>>)
      PROVE  StackOK' /\ Inclusion!Begin
  <2>1. TextAt(p) \in Pointers
    BY PointersAreTyped
  <2>2. <<>> \in Seq(PlacedFrames) /\ Upto(<<>>, Len(<<>>)) = <<>>
    <3>1. <<>> \in Seq(Tokens)
      OBVIOUS
    <3> QED
      BY <3>1, Alone
  <2>3. StackOK' /\ Inclusion!Insert(p, Upto(<<>>, Len(<<>>)))
    BY <1>6, <2>1, <2>2, PathInserted
  <2>4. p \in Inclusion!Paths /\ Inclusion!Insert(p, <<>>)
    BY <2>2, <2>3, SameWords
  <2>5. Inclusion!Begin
    BY <1>1, <1>2, <2>4, Zenon DEF Inclusion!Begin
  <2> QED
    BY <2>3, <2>5
<1>7. ASSUME NEW p \in Paths, LoadFile(p)
      PROVE  StackOK' /\ Inclusion!Begin
  BY <1>6, <1>7 DEF LoadFile
<1>8. ASSUME NEW p \in Paths, LoadFileIfExists(p)
      PROVE  StackOK' /\ Inclusion!Begin
  <2>1. CASE p \in Existing
    BY <1>6, <1>8, <2>1 DEF LoadFileIfExists
  <2>2. CASE p \notin Existing
    <3>1. Stop("ok")
      BY <1>8, <2>2 DEF LoadFileIfExists
    <3>2. StackOK' /\ Inclusion!Stop("ok")
      BY <3>1, Stopped
    <3>3. p \in Inclusion!Paths
      BY SameWords
    <3>4. Inclusion!Begin
      BY <1>1, <1>2, <2>2, <3>2, <3>3, Zenon DEF Inclusion!Begin
    <3> QED
      BY <3>2, <3>4
  <2> QED
    BY <2>1, <2>2
<1> QED
  BY <1>4, <1>5, <1>7, <1>8

\* Every step of the loader is a step of Expansion, or none.
LEMMA NextMaps == TypeOK /\ StackOK /\ [Next]_vars => StackOK' /\ [Inclusion!Next]_(Inclusion!vars)
<1> SUFFICES ASSUME TypeOK, StackOK, [Next]_vars
             PROVE  StackOK' /\ [Inclusion!Next]_(Inclusion!vars)
  OBVIOUS
<1>1. CASE \/ \E args \in CommandLines, c \in Comments :
                Load(args, c) \/ LoadString(args, c)
           \/ \E p \in Paths : LoadFile(p) \/ LoadFileIfExists(p)
  BY <1>1, CallMaps DEF Inclusion!Next
<1>2. CASE Turn
  BY <1>2, TurnMaps
<1>3. CASE PlainFile \/ AddKnob
  BY <1>3, AddingMaps DEF Inclusion!Next
<1>4. CASE Include
  BY <1>4, IncludeMaps DEF Inclusion!Next
<1>5. CASE Return
  BY <1>5, ReturnMaps DEF Inclusion!Next
<1>6. CASE UNCHANGED vars
  <2>1. stack' = stack /\ list' = list /\ status' = status
    BY <1>6 DEF vars
  <2>2. StackOK'
    BY <2>1 DEF StackOK
  <2>3. Remaining' = Remaining /\ Bindings' = Bindings
    BY <2>1, RemainingIsUpto DEF Bindings
  <2> QED
    BY <2>1, <2>2, <2>3 DEF Inclusion!vars
<1> QED
  BY <1>1, <1>2, <1>3, <1>4, <1>5, <1>6 DEF Next, Step, Turn

\* The database and the stack as the program finds them.
LEMMA InitMaps == Init => TypeOK /\ StackOK /\ Inclusion!Init
<1> SUFFICES ASSUME Init PROVE TypeOK /\ StackOK /\ Inclusion!Init
  OBVIOUS
<1>1. TypeOK
  BY InitType
<1>2. stack = <<>> /\ status = "ok"
  BY DEF Init
<1>3. <<>> \in Seq(PlacedFrames) /\ Len(<<>>) = 0
  OBVIOUS
<1>4. StackOK
  BY <1>2, <1>3 DEF StackOK
<1>5. Remaining = <<>>
  BY <1>2, <1>3, RemainingIsUpto, UptoFacts
<1>6. Bindings \in Seq(Inclusion!Binding)
  BY <1>1, BindingsFacts, SameWords
<1> QED
  BY <1>1, <1>2, <1>4, <1>5, <1>6 DEF Inclusion!Init

\* Loading is textual inclusion: whatever the command lines, the files and the search
\* path, sknobs_load, sknobs_load_string and sknobs_load_file together obey one line
\* after the other in reading order, the lines of an included file in place of the -f
\* that named it.
THEOREM LoadingIsInclusion == Spec => ImplementsExpansion
<1>1. Init => TypeOK /\ StackOK /\ Inclusion!Init
  BY InitMaps
<1>2. TypeOK /\ StackOK /\ [Next]_vars => (TypeOK /\ StackOK)'
  BY NextType, NextMaps
<1>3. TypeOK /\ StackOK /\ [Next]_vars => [Inclusion!Next]_(Inclusion!vars)
  BY NextMaps
<1> QED
  BY <1>1, <1>2, <1>3, PTL DEF Spec, ImplementsExpansion, Inclusion!Spec
=============================================================================
