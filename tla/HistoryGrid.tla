----------------------------- MODULE HistoryGrid -----------------------------
(***************************************************************************)
(* How the proxy renders a conversation's history as images                 *)
(* (collapseHistory() in src/src/core/history.ts, and its caller in          *)
(* src/src/core/transform.ts): the oldest messages, cut between two rounds   *)
(* of tool calls, are cut into chunks on a grid, and each chunk is rendered  *)
(* by itself.  A chunk that comes out as before is read from the provider's  *)
(* cache; so the grid must not move while the cache lives.  It gets coarser  *)
(* when there would be too many images, or to fill the pages when the cache  *)
(* is gone, and a session never goes back to a finer one.                   *)
(*                                                                         *)
(* A message is what decides where it may be cut and how much room it takes: *)
(* the tool calls it makes, those it answers, the text it adds to the        *)
(* transcript and, when its user wrote more than fits as text, the length of *)
(* the prompt that is rendered beside it.                                   *)
(***************************************************************************)
EXTENDS Integers, Sequences, FiniteSetsExt

CONSTANTS
  CallId,              \* identifiers of tool calls
  KeepTail,            \* keepTail
  MinCollapsePrefix,   \* minCollapsePrefix
  CollapseChunk,       \* collapseChunk, here more than 0
  FreezeChunk,         \* freezeChunk, here more than 0
  ProtectedPrefix,     \* protectedPrefix
  PageChars,           \* pageChars
  Budget,              \* the image budgets a request may have left
  Text,                \* the lengths of messages
  Prompt,              \* the lengths of prompts that are rendered
  MarkedAt,            \* the places of messages that callers mark
  MaxMessages          \* bound on the conversations explored

ASSUME GridAssumption ==
  /\ KeepTail \in Nat \ {0} /\ MinCollapsePrefix \in Nat \ {0}
  /\ CollapseChunk \in Nat \ {0} /\ FreezeChunk \in Nat \ {0}
  /\ ProtectedPrefix \in Nat /\ PageChars \in Nat \ {0}
  /\ Budget \subseteq Nat \ {0} /\ Text \subseteq Nat /\ Prompt \subseteq Nat \ {0}
  /\ MarkedAt \subseteq Nat \ {0}
  /\ MaxMessages \in Nat

VARIABLES
  messages,            \* the conversation as its client holds it
  floor,               \* the freeze step the session is pinned to
  rendered             \* the render that was last sent, if there is one

gridVars == <<messages, floor, rendered>>

Message == [calls : SUBSET CallId, results : SUBSET CallId, chars : Nat, prompt : Nat]

Says(n) == [calls |-> {}, results |-> {}, chars |-> n, prompt |-> 0]
Prompts(n) == [calls |-> {}, results |-> {}, chars |-> 0, prompt |-> n]
Calls(ids) == [calls |-> ids, results |-> {}, chars |-> 1, prompt |-> 0]
Answers(ids) == [calls |-> {}, results |-> ids, chars |-> 1, prompt |-> 0]

\* A render: how many messages it covers, its step, and where its chunks end.
NoRender == [len |-> 0, step |-> 0, ends |-> {}]

-----------------------------------------------------------------------------
(* Where a history may be cut.                                             *)

\* Mutant of NextContinues: a cut does not look past itself.
NoLookahead(limit) == FALSE

\* The message after the limit goes on with the round before it.
NextContinues(limit) == limit < Len(messages) /\ messages[limit + 1].calls # {}

\* The scan of the first limit messages: open are the calls without an answer, and
\* a round goes on until a message that makes no call.
Scan(limit) ==
  LET scan[i \in 0..limit] ==
        IF i = 0 THEN [open |-> {}, inRound |-> FALSE, closed |-> 0]
        ELSE LET before == scan[i - 1]
                 m == messages[i]
                 ended == before.inRound /\ before.open = {} /\ m.calls = {}
                 open == (before.open \cup m.calls) \ m.results
                 inRound == (before.inRound /\ ~ended) \/ m.calls # {}
             IN  [open |-> open, inRound |-> inRound,
                  closed |-> IF open = {} /\ ~inRound THEN i
                             ELSE IF ended THEN i - 1 ELSE before.closed]
  IN  scan[limit]

\* findClosedPrefixBoundary(), as a number of messages.
ClosedPrefix(cutoff) ==
  LET limit == Min({cutoff, Len(messages)})
      scan == Scan(limit)
  IN  IF cutoff <= 0 THEN 0
      ELSE IF scan.inRound /\ scan.open = {} /\ ~NextContinues(limit) THEN limit
      ELSE scan.closed

Cutoff ==
  LET raw == Len(messages) - KeepTail
      snapped == Max({MinCollapsePrefix + ProtectedPrefix, (raw \div CollapseChunk) * CollapseChunk})
  IN  Min({raw, snapped})

-----------------------------------------------------------------------------
(* What a render costs, in pages.                                          *)

Pages(chars) == (chars + PageChars - 1) \div PageChars

Total(weight, indices) == MapThenSumSet(LAMBDA i : weight[i], indices)

\* What the messages after the first from, up to the to-th, add.
Chars(from, to) == Total([i \in DOMAIN messages |-> messages[i].chars], (from + 1)..to)
Prompted(from, to) == Total([i \in DOMAIN messages |-> messages[i].prompt], (from + 1)..to)

PackedPages(to) == Pages(Chars(ProtectedPrefix, to)) + Pages(Prompted(ProtectedPrefix, to))

\* Where the chunks of a grid begin.
Starts(step, to) == {a \in ProtectedPrefix..(to - 1) : (a - ProtectedPrefix) % step = 0}

\* pagesFor(): every chunk has pages of its own.
PagesFor(step, to) ==
  LET chunk(a) == LET b == Min({a + step, to}) IN Pages(Chars(a, b)) + Pages(Prompted(a, b))
  IN  Total([a \in Starts(step, to) |-> chunk(a)], Starts(step, to))

\* A range that no grid can fit keeps its oldest messages, which anchor the grid.
TrimmedLen(to, budget) ==
  LET fits == {k \in 0..(to - ProtectedPrefix) :
                 Chars(ProtectedPrefix, ProtectedPrefix + k)
                   + Prompted(ProtectedPrefix, ProtectedPrefix + k) <= budget * PageChars}
  IN  ClosedPrefix(ProtectedPrefix + Max(fits))

LongEnough(to) == to - ProtectedPrefix >= MinCollapsePrefix

\* How many messages are collapsed: 0 for none.
CollapseLen(budget) ==
  LET closed == ClosedPrefix(Cutoff)
      len == IF LongEnough(closed) /\ PackedPages(closed) > budget
             THEN TrimmedLen(closed, budget) ELSE closed
  IN  IF LongEnough(len) THEN len ELSE 0

-----------------------------------------------------------------------------
(* The grid.                                                               *)

\* The grids the code tries, from the finest to one chunk.
Steps(range) ==
  LET doubled[k \in 0..range] == IF k = 0 THEN FreezeChunk ELSE 2 * doubled[k - 1]
  IN  {doubled[k] : k \in 0..range}

\* Mutant of AtFloor: the session's floor is forgotten.
AtAnyStep(step, range) == TRUE

AtFloor(step, range) == step >= floor \/ step >= range

\* Mutant of FitsGoal: pages are filled whatever there is room for.
FitsPacked(step, to, marks, budget, packFill) ==
  LET packed == Max({1, Pages(Chars(ProtectedPrefix, to))})
  IN  PagesFor(step, to) + Cardinality(marks) <= IF packFill THEN packed + 1 ELSE budget

\* The images of a grid are within the budget and, where pages are to be filled,
\* no more than one above the fewest that the text needs.
FitsGoal(step, to, marks, budget, packFill) ==
  LET packed == Max({1, Pages(Chars(ProtectedPrefix, to))})
      goal == IF packFill THEN Min({budget, packed + 1}) ELSE budget
  IN  PagesFor(step, to) + Cardinality(marks) <= goal

\* The step is doubled until it is no finer than the floor and fits the goal, or
\* one chunk is all.
StepFor(to, marks, budget, packFill) ==
  LET range == to - ProtectedPrefix
  IN  Min({step \in Steps(range) :
             /\ AtFloor(step, range)
             /\ step >= range \/ FitsGoal(step, to, marks, budget, packFill)})

\* The grid is anchored where the history begins.
GridEnds(step, to) == {e \in (ProtectedPrefix + 1)..(to - 1) : (e - ProtectedPrefix) % step = 0}

-----------------------------------------------------------------------------
(* The client.                                                             *)

GridInit ==
  /\ messages = <<>>
  /\ floor = 0
  /\ rendered = NoRender

\* The calls that are open after n messages.
OpenAfter(n) ==
  LET open[i \in 0..n] == IF i = 0 THEN {} ELSE (open[i - 1] \cup messages[i].calls) \ messages[i].results
  IN  open[n]

Open == OpenAfter(Len(messages))

Append1(m) ==
  /\ Len(messages) < MaxMessages
  /\ messages' = Append(messages, m)
  /\ UNCHANGED <<floor, rendered>>

\* Clients go on when all calls are answered, in one message or in several.
Say == Open = {} /\ \E n \in Text : Append1(Says(n))
SayAtLength == Open = {} /\ \E n \in Prompt : Append1(Prompts(n))
Call == Open = {} /\ \E ids \in (SUBSET CallId) \ {{}} : Append1(Calls(ids))
Answer == \E ids \in (SUBSET Open) \ {{}} : Append1(Answers(ids))

\* The client takes back its last messages; what was rendered of them is gone.
Rewind ==
  \E n \in 0..(Len(messages) - 1) :
    /\ OpenAfter(n) = {}
    /\ messages' = SubSeq(messages, 1, n)
    /\ rendered' = [rendered EXCEPT !.ends = {e \in @ : e <= n}]
    /\ UNCHANGED floor

-----------------------------------------------------------------------------
(* The request.                                                            *)

\* The history is collapsed, and the step recorded.  The caller's marks end
\* chunks of their own.  When the images weigh too much, the text is sent.
Collapse(budget, packFill, marks) ==
  LET to == CollapseLen(budget)
      step == StepFor(to, marks, budget, packFill)
      render == [len |-> to, step |-> step, ends |-> GridEnds(step, to) \cup marks \cup {to}]
  IN  /\ to # 0 /\ marks \subseteq (ProtectedPrefix + 1)..to
      /\ floor' = Max({floor, step})
      /\ rendered' \in {render, rendered}
      /\ UNCHANGED messages

\* The caller marks one message or none.
Marks == {{}} \cup {{i} : i \in MarkedAt \cap DOMAIN messages}

GridNext ==
  \/ Say \/ SayAtLength \/ Call \/ Answer \/ Rewind
  \/ \E budget \in Budget, packFill \in BOOLEAN, marks \in Marks :
       Collapse(budget, packFill, marks)

GridSpec == GridInit /\ [][GridNext]_gridVars

-----------------------------------------------------------------------------
\* Wherever the cutoff falls, the history is cut at the last place before it that
\* separates no call from its answer and no two rounds that follow each other
\* directly: the live tail never begins with an answer to a call that is gone.
CutsBetweenRounds ==
  LET Adjacent(n) == n \in 1..(Len(messages) - 1) /\ messages[n].results # {} /\ messages[n + 1].calls # {}
      Good(n) == OpenAfter(n) = {} /\ ~Adjacent(n)
  IN  \A cutoff \in 0..Len(messages) : ClosedPrefix(cutoff) = Max({n \in 0..cutoff : Good(n)})

\* Whether the messages after a, up to b, are a chunk of the render.
IsChunk(r, a, b) ==
  /\ {a, b} \subseteq r.ends \cup {ProtectedPrefix}
  /\ r.ends \cap (a + 1)..(b - 1) = {}

\* The chunks of a render that its grid completes, untouched by a mark.
Frozen(r) ==
  {a \in ProtectedPrefix..(r.len - r.step) :
     (a - ProtectedPrefix) % r.step = 0 /\ IsChunk(r, a, a + r.step)}

\* A complete chunk of the last render comes out again, byte for byte, as long as
\* the conversation still has its messages and the caller marks none of them:
\* unless the cache was gone, or the grid of the last render has come to need
\* more images than there is room for, or the session was pinned to a coarser one
\* by a render that was not sent.  (collapseHistory() says of its grid that "old
\* chunks stay byte-identical as the conversation grows".)
WarmRenderKeepsChunks ==
  [][rendered' # rendered /\ rendered # NoRender /\ floor = rendered.step
     => \A budget \in Budget, marks \in Marks :
          /\ Collapse(budget, FALSE, marks)
          /\ FitsGoal(rendered.step, rendered'.len, marks, budget, FALSE)
          => \A a \in Frozen(rendered) :
               LET b == a + rendered.step
               IN  b <= rendered'.len /\ marks \cap (a + 1)..(b - 1) = {}
                   => IsChunk(rendered', a, b)]_gridVars

\* The images that a history becomes are no more than there is room for, when its
\* caller marks nothing and its user wrote no prompt that is rendered.
ImagesWithinBudget ==
  \A budget \in Budget, packFill \in BOOLEAN :
    LET to == CollapseLen(budget)
    IN  to # 0 /\ Prompted(0, to) = 0
        => PagesFor(StepFor(to, {}, budget, packFill), to) <= budget
==============================================================================
