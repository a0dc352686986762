--------------------------- MODULE DirectoryListing ---------------------------
(***************************************************************************)
(* Listing a directory through one handle (dokanlib/sys/directory.c,       *)
(* dokanlib/dokan/directory.c).                                            *)
(*                                                                         *)
(* Each query asks for a page.  The driver remembers how far the last page *)
(* went (ccb->Context) and the pattern of the first query; the library     *)
(* keeps what FindFiles found (DirListHead) from page to page.  Either may *)
(* go on without the other: the driver gives a query up after a while,     *)
(* the library still answers it.                                           *)
(***************************************************************************)
EXTENDS NameExpression, Lists, SequencesExt

CONSTANTS
  Directories,  \* contents the directory may have: sequences of names
  Patterns,     \* search patterns
  Size,         \* Size[name]: bytes its entry needs in the buffer
  Pages,        \* what a query may ask for: the length of its buffer, and
                \* whether it wants a single entry (SL_RETURN_SINGLE_ENTRY)
  Indexes,      \* values given with SL_INDEX_SPECIFIED
  MaxQueries,   \* bound: the queries made on the handle, one after the other
  MaxChanges,   \* bound: how often the directory changes
  Serial,       \* has DokanMain a single loop thread (ThreadCount = 1)?
  Expressions,  \* the patterns and the names for which the answers of
  FileNames     \* DokanIsNameInExpression are looked at

Queries    == 1..MaxQueries
Longest(S) == CHOOSE n \in {Len(s) : s \in S} : \A s \in S : Len(s) <= n
MaxEntries == Longest(Directories)
Names      == UNION {ToSet(d) : d \in Directories}
MaxName    == Longest(Names)
NoPattern  == <<"no pattern">>      \* DOKAN_DIR_MATCH_ALL
Unset      == <<"unset">>

ASSUME DirectoryListingAssumption ==
  /\ MaxQueries \in Nat /\ MaxChanges \in Nat /\ Serial \in BOOLEAN
  /\ Directories # {} /\ \A d \in Directories : d \in Seq(Names) /\ IsInjective(d)
  /\ MaxEntries \in Nat /\ \A d \in Directories : Len(d) <= MaxEntries
  /\ MaxName \in Nat /\ Patterns \cap {NoPattern, Unset} = {}
  /\ Pages \subseteq [buffer : Nat, single : BOOLEAN] /\ Indexes \subseteq 1..MaxEntries
  /\ \A name \in Names : Size[name] \in Nat \ {0}
  /\ Expressions \subseteq Seq(STRING)
  /\ FileNames \subseteq Seq(STRING \ Wildcards)

VARIABLES
  directory,    \* what the application would find now
  changes,      \* how often that has changed
  callback,     \* "FindFiles" or "FindFilesWithPattern", which the application has
  selects,      \* does its FindFilesWithPattern look at the pattern?
  pattern,      \* ccb->SearchPattern and DOKAN_DIR_MATCH_ALL
  context,      \* ccb->Context
  irp,          \* each query, as its issuer sees it
  event,        \* ... and how far the library is with it
  request,      \* EventContext->Directory: FileIndex, BufferLength, SL_RETURN_SINGLE_ENTRY
  patternCheck, \* the local variable of that name
  answer,       \* EventInfo: its status, the page, Directory.Index
  list,         \* openInfo->DirListHead
  listed,       \* history: the changes there had been when list was filled
  scan          \* history: what the issuer got since it last asked for index 0

appVars    == <<callback, selects>>
driverVars == <<pattern, context>>
listVars   == <<list, listed>>
vars == <<directory, changes, appVars, driverVars, irp, event, request, patternCheck,
          answer, listVars, scan>>

NoRequest == [index |-> 0, page |-> [buffer |-> 0, single |-> FALSE], since |-> 0]
NoAnswer  == [status |-> "none", page |-> <<>>, index |-> 0, failed |-> FALSE]

\* The scan of the issuer: the index it has come to, the names it has got,
\* what the list was filled with for the first of them, the readings of the
\* directory they are from, when it was asked for, how it ended, and with which
\* buffer.
NoScan == [at |-> MaxEntries + 1, names |-> <<>>, found |-> <<>>, readings |-> {},
           since |-> 0, end |-> "no", buffer |-> 0]

Init ==
  /\ directory \in Directories /\ changes = 0
  /\ callback \in {"FindFiles", "FindFilesWithPattern"} /\ selects \in BOOLEAN
  /\ callback = "FindFiles" => selects
  /\ pattern = Unset /\ context = 0
  /\ irp = [q \in Queries |-> "new"] /\ event = [q \in Queries |-> "none"]
  /\ request = [q \in Queries |-> NoRequest]
  /\ patternCheck = [q \in Queries |-> TRUE]
  /\ answer = [q \in Queries |-> NoAnswer]
  /\ list = <<>> /\ listed = 0
  /\ scan = NoScan

-----------------------------------------------------------------------------
(* The driver.                                                             *)

\* DokanQueryDirectory, and the queueing of its event.  The first query of a
\* handle settles the pattern.  The index is that of the last answer, 0 with
\* SL_RESTART_SCAN, or any given with SL_INDEX_SPECIFIED.
QueryDirectory(q) ==
  /\ irp[q] = "new" /\ \A p \in 1 .. q - 1 : irp[p] \notin {"new", "pending"}
  /\ pattern' \in IF pattern = Unset THEN Patterns \cup {NoPattern} ELSE {pattern}
  /\ \E i \in {0, context} \cup Indexes, p \in Pages :
       request' = [request EXCEPT ![q] = [index |-> i, page |-> p, since |-> changes]]
  /\ irp' = [irp EXCEPT ![q] = "pending"]
  /\ event' = [event EXCEPT ![q] = "queued"]
  /\ UNCHANGED <<directory, changes, appVars, context, patternCheck, answer, listVars, scan>>

\* ReleaseTimeoutPendingIrp: the issuer gets an error and may ask again.
GiveUp(q) ==
  /\ irp[q] = "pending" /\ irp' = [irp EXCEPT ![q] = "givenUp"]
  /\ UNCHANGED <<directory, changes, appVars, driverVars, event, request, patternCheck,
                 answer, listVars, scan>>

-----------------------------------------------------------------------------
(* The library: DispatchDirectoryInformation.                              *)

InDispatch(q) == event[q] \in {"finding", "matching", "answering"}

\* A loop thread takes the oldest event.
Taken(q) ==
  /\ event[q] = "queued" /\ \A p \in 1 .. q - 1 : event[p] # "queued"
  /\ Serial => \A p \in Queries : ~InDispatch(p)

\* An information class that the library does not know: an answer with
\* everything else zero.
AnswerUnknownClass(q) ==
  /\ Taken(q)
  /\ event' = [event EXCEPT ![q] = "answering"]
  /\ answer' = [answer EXCEPT ![q] =
       [status |-> "NOT_IMPLEMENTED", page |-> <<>>, index |-> 0, failed |-> FALSE]]
  /\ UNCHANGED <<directory, changes, appVars, driverVars, irp, request, patternCheck,
                 listVars, scan>>

\* Index 0 clears the list; an empty one has to be found.
BeginQuery(q) ==
  LET kept == IF request[q].index = 0 THEN <<>> ELSE list IN
  /\ Taken(q)
  /\ list' = kept
  /\ event' = [event EXCEPT ![q] = IF kept = <<>> THEN "finding" ELSE "matching"]
  /\ UNCHANGED <<directory, changes, appVars, driverVars, irp, request, patternCheck,
                 answer, listed, scan>>

\* Does a name match ccb->SearchPattern?
Matches(name, unwritten) ==
  pattern = NoPattern \/ DokanIsNameInExpression(pattern, name, unwritten)

\* The callback returns a status, having reported entries through
\* DokanFillFileData.
FindFiles(q) ==
  /\ event[q] = "finding"
  /\ patternCheck' = [patternCheck EXCEPT ![q] = (callback = "FindFiles")]
  /\ \/ \E u \in Unwritten(MaxName) :
          LET reported == {name \in Names : callback = "FindFiles" \/ ~selects \/ Matches(name, u)}
          IN
          /\ list' = list \o Chosen(directory, reported) /\ listed' = changes
          /\ event' = [event EXCEPT ![q] = "matching"]
          /\ UNCHANGED answer
     \/ /\ list' = <<>> /\ UNCHANGED listed
        /\ event' = [event EXCEPT ![q] = "answering"]
        /\ answer' = [answer EXCEPT ![q] =
             [status |-> IF request[q].index = 0 THEN "NO_SUCH_FILE" ELSE "NO_MORE_FILES",
              page   |-> <<>>, index |-> request[q].index, failed |-> TRUE]]
  /\ UNCHANGED <<directory, changes, appVars, driverVars, irp, request, scan>>

\* The longest beginning of names that fits into the buffer.
Bytes(names) ==
  LET sum[k \in 0 .. Len(names)] == IF k = 0 THEN 0 ELSE sum[k - 1] + Size[names[k]]
  IN sum[Len(names)]
Filled(names, p) ==
  LET fits == {k \in 0 .. Len(names) :
                 Bytes(SubSeq(names, 1, k)) <= p.buffer /\ (p.single => k <= 1)}
  IN SubSeq(names, 1, CHOOSE k \in fits : \A i \in fits : i <= k)

NextIndexLast(from, page)  == from + Len(page) - 1  \* slips: the last entry,
NextIndexAfter(from, page) == from + Len(page) + 1  \* one too far

\* eventInfo->Directory.Index: the number of the next entry.
NextIndex(from, page) == from + Len(page)

\* A slip: one entry is as good as none.
NoMatchOrOne(from, page) == Len(page) <= IF from = 0 THEN 0 ELSE 1

NoMatch(from, page) == page = <<>>

\* MatchFiles, which returns the next index, or -1 when it has put nothing
\* into the buffer.
MatchFiles(q) ==
  /\ event[q] = "matching" /\ event' = [event EXCEPT ![q] = "answering"]
  /\ \E u \in Unwritten(MaxName) :
       LET wanted == Chosen(list, {name \in Names : patternCheck[q] => Matches(name, u)})
           from   == request[q].index
           page   == Filled(SubSeq(wanted, from + 1, Len(wanted)), request[q].page)
       IN IF NoMatch(from, page)
          THEN /\ answer' = [answer EXCEPT ![q] =
                    [status |-> "NO_MORE_FILES", page |-> <<>>, index |-> from, failed |-> FALSE]]
               /\ list' = <<>>
          ELSE /\ answer' = [answer EXCEPT ![q] =
                    [status |-> "SUCCESS", page |-> page, index |-> NextIndex(from, page),
                     failed |-> FALSE]]
               /\ UNCHANGED list
  /\ UNCHANGED <<directory, changes, appVars, driverVars, irp, request, patternCheck,
                 listed, scan>>

\* What the issuer has got: a page for index 0 starts a scan, one for the
\* index where the scan has come to extends it, anything else is no scan.
Extended(q) ==
  LET a == answer[q]
      r == request[q]
  IN CASE a.status = "SUCCESS" /\ r.index = 0 ->
            [at |-> a.index, names |-> a.page, found |-> list, readings |-> {listed},
             since |-> r.since, end |-> "no", buffer |-> 0]
       [] a.status = "SUCCESS" /\ r.index = scan.at /\ scan.end = "no" ->
            [scan EXCEPT !.at = a.index, !.names = @ \o a.page, !.readings = @ \cup {listed}]
       [] a.status = "NO_MORE_FILES" /\ r.index = scan.at /\ scan.end = "no" ->
            [scan EXCEPT !.end = IF a.failed THEN "failed" ELSE "reached",
                         !.buffer = r.page.buffer, !.readings = @ \cup {listed}]
       [] OTHER -> NoScan

\* SendEventInformation and DokanCompleteDirectoryControl.  Nothing happens
\* when the driver has given the query up.  The event and the answer are freed.
Answer(q) ==
  /\ event[q] = "answering" /\ event' = [event EXCEPT ![q] = "answered"]
  /\ IF irp[q] = "pending"
     THEN /\ irp' = [irp EXCEPT ![q] = "done"]
          /\ context' = answer[q].index
          /\ scan' = Extended(q)
     ELSE UNCHANGED <<irp, context, scan>>
  /\ request' = [request EXCEPT ![q] = NoRequest]
  /\ answer' = [answer EXCEPT ![q] = NoAnswer]
  /\ patternCheck' = [patternCheck EXCEPT ![q] = TRUE]
  /\ UNCHANGED <<directory, changes, appVars, pattern, listVars>>

-----------------------------------------------------------------------------
\* Somebody creates or deletes files.
Change ==
  /\ changes < MaxChanges /\ changes' = changes + 1
  /\ directory' \in Directories \ {directory}
  /\ UNCHANGED <<appVars, driverVars, irp, event, request, patternCheck, answer, listVars,
                 scan>>

Next ==
  \/ \E q \in Queries :
       \/ QueryDirectory(q) \/ GiveUp(q)
       \/ AnswerUnknownClass(q) \/ BeginQuery(q) \/ FindFiles(q) \/ MatchFiles(q) \/ Answer(q)
  \/ Change

Spec == Init /\ [][Next]_vars

-----------------------------------------------------------------------------
(* Properties.                                                             *)

\* The type of every variable.  The index stored in the CCB never exceeds the
\* number of entries.
TypeOK ==
  /\ directory \in Directories /\ changes \in 0..MaxChanges
  /\ callback \in {"FindFiles", "FindFilesWithPattern"} /\ selects \in BOOLEAN
  /\ pattern \in Patterns \cup {NoPattern, Unset}
  /\ context \in 0..MaxEntries
  /\ irp \in [Queries -> {"new", "pending", "done", "givenUp"}]
  /\ event \in [Queries -> {"none", "queued", "finding", "matching", "answering", "answered"}]
  /\ request \in [Queries -> {NoRequest}
                     \cup [index : 0..MaxEntries, page : Pages, since : 0..MaxChanges]]
  /\ patternCheck \in [Queries -> BOOLEAN]
  /\ \A q \in Queries : answer[q].index \in 0..MaxEntries /\ ToSet(answer[q].page) \subseteq Names
  /\ ToSet(list) \subseteq Names /\ listed \in 0..MaxChanges
  /\ scan.at \in 0 .. MaxEntries + 1 /\ scan.readings \subseteq 0..MaxChanges

\* (No variable is involved in the three properties of DokanIsNameInExpression:
\* the states without a query are enough to look at them.)

\* The patterns that the comment above the function speaks of.
Commented ==
  {e \in Expressions : \A i \in DOMAIN e : e[i] \notin {DOS_STAR, DOS_QM, DOS_DOT}}

\* What the comment says: DokanIsNameInExpression matches "?" with any one
\* character and "*" with any string.  Where the code reads zeroes behind the
\* name, that is.
MatchAsDocumented ==
  (pattern = Unset) =>
    \A e \in Commented, name \in FileNames :
      DokanIsNameInExpression(e, name, Zeroes) <=> InExpression(e, name)

\* What is left of it: whatever lies behind the name, a name that the comment
\* says is matched is listed; and, with zeroes there, no other is, unless a "?"
\* has run past the end of the name and into the final star.
MatchMissesNothing ==
  (pattern = Unset) =>
    \A e \in Commented, name \in FileNames :
      /\ InExpression(e, name) =>
           \A u \in Unwritten(Len(name)) : DokanIsNameInExpression(e, name, u)
      /\ DokanIsNameInExpression(e, name, Zeroes) => InExpression(e, name) \/ StarMakesUp(e)

\* The unset lastDot is not looked at when DOS_STAR stands in front and a dot
\* follows, nor what lies behind the name when no star comes after a "?" or
\* DOS_QM: in such a search the answer is the same each time.
MatchSettled ==
  (pattern = Unset) =>
    \A e \in Expressions, name \in FileNames :
      Settled(e, name) => Defined(e, name, Len(name))

\* The pages of a listing are made with the same entries in mind: the
\* application has selected what the library selects, and the library's
\* answer depends on the name and the pattern only.
Agree ==
  /\ callback = "FindFiles" \/ selects
  /\ pattern \in {Unset, NoPattern}
       \/ \A name \in Names : Defined(pattern, name, MaxName)

Matching == {name \in Names : Matches(name, Zeroes)}
Expected == Chosen(scan.found, Matching)

\* However the pages are cut, restarted, given up and asked for again, the
\* names an issuer gets in a scan are the first of those that match, each once
\* and in order, from the directory as it was when the scan was asked for or
\* later: nothing is left of an earlier scan.  Two readings of the directory get
\* mixed only when the answer that emptied the list was given up.
PagesInOrder ==
  /\ \A n \in scan.readings : n >= scan.since
  /\ Agree =>
    /\ Cardinality(scan.readings) <= 1 => IsPrefix(scan.names, Expected)
    /\ Cardinality(scan.readings) > 1 => \E q \in Queries : irp[q] = "givenUp"

\* A scan that ends has brought every name that matches, unless the next one
\* did not fit into the buffer of the last query: the library then says that
\* there are no more files.
ListingComplete ==
  Agree /\ scan.end = "reached" /\ Cardinality(scan.readings) = 1 =>
    \/ scan.names = Expected
    \/ Size[Expected[Len(scan.names) + 1]] > scan.buffer
=============================================================================
