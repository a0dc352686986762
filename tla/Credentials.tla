------------------------------ MODULE Credentials ------------------------------
(***************************************************************************)
(* The tokens of the drive (gDrive/src: gdrive.cpp, Preferences.cpp;       *)
(* comm: comm.cpp, ResponseParser.cpp).                                    *)
(*                                                                         *)
(* A program loads the tokens from preferences.db when it starts.  If the  *)
(* access token has expired it renews it and saves everything anew: one    *)
(* DELETE, then one INSERT per key, each a transaction of its own, with    *)
(* the results ignored.  All programs of a user share the file, one drive  *)
(* each; a statement fails when another program has the file locked.       *)
(*                                                                         *)
(* Tokens are known by the number of the renewal they come from: 1 is the  *)
(* registration, 0 the empty string.  Time is in ticks.                    *)
(***************************************************************************)
EXTENDS Integers, Sequences, SequencesExt

CONSTANTS
  Programs,  \* processes, each started several times
  Life,      \* expires_in: how long an access token is good for
  Offset,    \* local time minus UTC
  MaxTime,   \* bound: the last tick
  MaxRuns    \* bound: how many times the programs are started

ASSUME CredentialsAssumption ==
  /\ Life \in Nat /\ Offset \in Int /\ MaxTime \in Nat /\ MaxRuns \in Nat
  /\ IsFiniteSet(Programs)

\* The keys in the order of a std::map, TOKEN_TYPE apart, which is not used.
Keys   == <<"ACCESS_TOKEN", "AUTH_REQUEST", "EXPIRES", "REFRESH_TOKEN">>
Tokens == 0 .. MaxRuns + 1

VARIABLES
  now,
  issued,   \* the time at which each renewal was answered
  renewals, \* how many there were
  db,       \* the rows of PREFERENCES: <<key, token>>
  state,    \* how far each program is
  step,     \* ... how many statements of its save are behind it
  loaded,   \* ... AUTH_REQUEST and the refresh token that it read
  token,    \* ... the access token it uses or saves
  runs,
  \* history
  began,    \* the time at which a program took the saved token for good, or -1
  torn,     \* "cut": a save was cut short; "lost": a statement failed;
            \* "mixed": two saves overlapped
  emptied   \* did a save lose the refresh token by being cut short, or by the
            \* failure of its INSERT?

programVars == <<state, step, loaded, token, runs>>
history     == <<began, torn, emptied>>
vars == <<now, issued, renewals, db, programVars, history>>

Blank == [auth |-> 0, refresh |-> 0]

Init ==
  /\ now = 0 /\ issued = [g \in Tokens |-> 0] /\ renewals = 1
  /\ db = [i \in DOMAIN Keys |-> <<Keys[i], 1>>]
  /\ state = [p \in Programs |-> "off"] /\ step = [p \in Programs |-> 0]
  /\ loaded = [p \in Programs |-> Blank] /\ token = [p \in Programs |-> 0] /\ runs = 0
  /\ began = [p \in Programs |-> -1] /\ torn = {} /\ emptied = FALSE

To(p, s) == state' = [state EXCEPT ![p] = s]

\* Another program may have the file locked, for writing or for reading.
Writing(p) == \E q \in Programs \ {p} : state[q] = "saving"
Reading(p) == \E q \in Programs \ {p} : state[q] = "loading"

-----------------------------------------------------------------------------
(* Loading.                                                                *)

Start(p) ==
  /\ state[p] = "off" /\ runs < MaxRuns /\ runs' = runs + 1 /\ To(p, "loading")
  /\ UNCHANGED <<now, issued, renewals, db, step, loaded, token, history>>

\* Preferences::loadData: the first row of each key counts.
FirstRows(rows) ==
  [k \in ToSet(Keys) |->
     IF \E i \in DOMAIN rows : rows[i][1] = k
     THEN rows[SelectInSeq(rows, LAMBDA row : row[1] = k)][2] ELSE 0]

\* A slip: the time is saved as local time and read as UTC.
RequestTimeLocal(g) == issued[g] + Offset

\* AUTH_REQUEST of token g as it is read back: saved as UTC, taken for local
\* time.
RequestTime(g) == issued[g] - Offset

\* checkValidCredentials.  With no AUTH_REQUEST the fields of the time are
\* never set; with no EXPIRES it is zero.
Valid(data) ==
  IF data["AUTH_REQUEST"] = 0 THEN BOOLEAN
  ELSE {now - RequestTime(data["AUTH_REQUEST"]) <= IF data["EXPIRES"] = 0 THEN 0 ELSE Life}

\* loadData takes the token that was saved, or goes on to renew it.
LoadData(p) ==
  /\ state[p] = "loading"
  /\ \E rows \in {db} \cup (IF Writing(p) THEN {<<>>} ELSE {}) :
       LET data == FirstRows(rows) IN
       /\ loaded' = [loaded EXCEPT ![p] = [auth |-> data["AUTH_REQUEST"],
                                            refresh |-> data["REFRESH_TOKEN"]]]
       /\ \E valid \in Valid(data) :
            /\ To(p, IF valid THEN "serving" ELSE "renewing")
            /\ token' = [token EXCEPT ![p] = IF valid THEN data["ACCESS_TOKEN"] ELSE 0]
            /\ began' = [began EXCEPT ![p] = IF valid THEN now ELSE -1]
  /\ UNCHANGED <<now, issued, renewals, db, step, runs, torn, emptied>>

-----------------------------------------------------------------------------
(* Renewing.                                                               *)

\* renewAuth, with a refresh token, is answered.
RenewAuth(p) ==
  /\ state[p] = "renewing" /\ loaded[p].refresh # 0
  /\ renewals' = renewals + 1
  /\ issued' = [issued EXCEPT ![renewals + 1] = now]
  /\ token' = [token EXCEPT ![p] = renewals + 1]
  /\ To(p, "saving") /\ step' = [step EXCEPT ![p] = 0]
  /\ torn' = IF Writing(p) THEN torn \cup {"mixed"} ELSE torn
  /\ UNCHANGED <<now, db, loaded, runs, began, emptied>>

\* Without an answer, or with a refusal, parseAuthData passes a NULL string to
\* char2wide, and the program ends there.
RenewFailed(p) ==
  /\ state[p] = "renewing" /\ To(p, "off") /\ loaded' = [loaded EXCEPT ![p] = Blank]
  /\ UNCHANGED <<now, issued, renewals, db, step, token, runs, history>>

-----------------------------------------------------------------------------
(* Saving.                                                                 *)

\* The statement is carried out, or fails unnoticed because of a lock.
Statement(p, rows, losesRefresh) ==
  \/ /\ db' = rows /\ UNCHANGED <<torn, emptied>>
  \/ /\ Writing(p) \/ Reading(p)
     /\ torn' = torn \cup {"lost"} /\ emptied' = (emptied \/ losesRefresh) /\ UNCHANGED db

\* A slip: the old rows stay.
NoDelete(rows) == rows

\* DELETE FROM PREFERENCES.
Delete(rows) == <<>>

SaveDelete(p) ==
  /\ state[p] = "saving" /\ step[p] = 0 /\ step' = [step EXCEPT ![p] = 1]
  /\ Statement(p, Delete(db), FALSE)
  /\ UNCHANGED <<now, issued, renewals, state, loaded, token, runs, began>>

\* A slip: the answer to a renewal has no refresh token.
RefreshAnswered(p) == 0

\* renewAuth keeps the refresh token that was loaded.
RefreshToken(p) == loaded[p].refresh

Value(p, key) ==
  CASE key = "REFRESH_TOKEN" -> RefreshToken(p)
    [] key = "EXPIRES"       -> 1
    [] OTHER                 -> token[p]

\* INSERT INTO PREFERENCES; EXPIRES is always Life.  The drive is mounted after the last one.
SaveInsert(p) ==
  LET i == step[p] IN
  /\ state[p] = "saving" /\ i > 0
  /\ Statement(p, Append(db, <<Keys[i], Value(p, Keys[i])>>), Keys[i] = "REFRESH_TOKEN")
  /\ IF i < Len(Keys) THEN step' = [step EXCEPT ![p] = i + 1] /\ UNCHANGED state
     ELSE step' = [step EXCEPT ![p] = 0] /\ To(p, "serving")
  /\ UNCHANGED <<now, issued, renewals, loaded, token, runs, began>>

\* The program ends, or is killed; a save is cut short, after its DELETE and
\* before its INSERT of the refresh token, the last one.
End(p) ==
  /\ state[p] # "off" /\ To(p, "off") /\ step' = [step EXCEPT ![p] = 0]
  /\ torn' = IF state[p] = "saving" THEN torn \cup {"cut"} ELSE torn
  /\ emptied' = (emptied \/ step[p] > 0)
  /\ loaded' = [loaded EXCEPT ![p] = Blank] /\ token' = [token EXCEPT ![p] = 0]
  /\ began' = [began EXCEPT ![p] = -1]
  /\ UNCHANGED <<now, issued, renewals, db, runs>>

\* A tick is long: a load or a save takes less.
Tick ==
  /\ now < MaxTime /\ now' = now + 1
  /\ \A p \in Programs : state[p] \notin {"loading", "saving"}
  /\ UNCHANGED <<issued, renewals, db, programVars, history>>

-----------------------------------------------------------------------------
Program(p) ==
  \/ Start(p) \/ LoadData(p) \/ RenewAuth(p) \/ RenewFailed(p)
  \/ SaveDelete(p) \/ SaveInsert(p) \/ End(p)

Next == Tick \/ \E p \in Programs : Program(p)

Spec == Init /\ [][Next]_vars

-----------------------------------------------------------------------------
(* Properties.                                                             *)

\* The type of every variable; a key has one row, unless two saves overlapped
\* or a DELETE failed.
TypeOK ==
  /\ now \in 0..MaxTime /\ issued \in [Tokens -> 0..MaxTime] /\ renewals \in Tokens
  /\ \A i \in DOMAIN db : db[i][1] \in ToSet(Keys) /\ db[i][2] \in Tokens
  /\ torn \cap {"lost", "mixed"} = {} => \A i, j \in DOMAIN db : db[i][1] = db[j][1] => i = j
  /\ state \in [Programs -> {"off", "loading", "renewing", "saving", "serving"}]
  /\ step \in [Programs -> 0..Len(Keys)] /\ loaded \in [Programs -> [auth : Tokens, refresh : Tokens]]
  /\ token \in [Programs -> Tokens] /\ runs \in 0..MaxRuns
  /\ began \in [Programs -> -1..MaxTime] /\ torn \subseteq {"cut", "lost", "mixed"}
  /\ emptied \in BOOLEAN

\* The refresh token, which nothing but a new registration brings back, is in
\* the file whenever no save is under way: neither renewals that fail nor
\* saves of two programs that overlap lose it, only a save that ends between
\* its DELETE and the INSERT of that key, or whose INSERT of it fails.
RefreshKept ==
  (\A p \in Programs : state[p] # "saving") =>
    FirstRows(db)["REFRESH_TOKEN"] # 0 \/ emptied

\* A program that takes the saved access token for good has one that has not
\* expired yet, however saves were cut short, as long as local time is not
\* behind UTC.  The saved time must have been there, and no two saves may have
\* overlapped and no statement failed: else a token is judged by the time of
\* another.
StartsFresh ==
  \A p \in Programs :
    /\ began[p] >= 0 /\ loaded[p].auth # 0
    /\ torn \cap {"lost", "mixed"} = {} /\ Offset >= 0
    => token[p] # 0 /\ began[p] - issued[token[p]] <= Life
=============================================================================
