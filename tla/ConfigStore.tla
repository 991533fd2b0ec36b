------------------------------ MODULE ConfigStore ------------------------------
(***************************************************************************)
(* The configuration file that the CLI's processes share: `temporal config   *)
(* set`, delete and delete-profile (commands.config.go), StoreClientOAuth,   *)
(* and the requests of a client that refresh its OAuth token and store it    *)
(* (cliext/config.oauth.go, getToken in cliext/client.go).                   *)
(*                                                                         *)
(* The only property of a profile here is its address.  A token is a number, *)
(* access and refresh token in one.  The authorization server is external:   *)
(* it refreshes a token that is still valid, and may or may not invalidate   *)
(* it by that.                                                              *)
(***************************************************************************)
EXTENDS Naturals

CONSTANTS
  Process,  \* the processes that use the file
  Thread,   \* their threads; a process that sends requests may have several
  Owner,    \* Owner[t]: the process that t belongs to
  Task,     \* Task[p]: what p was asked to do
  Profile,  \* names of profiles
  Address,  \* addresses
  Initial,  \* the content of the file at the start
  Issued,   \* tokens issued before that
  MaxToken, \* bound: tokens issued at most
  Faulty    \* the processes that may be killed, and whose calls may fail

Unset == "unset"            \* no address
Absent == [exists |-> FALSE] \* no such profile
None == 0                   \* no token

Section == [address : Address \cup {Unset}, oauth : Nat]
Content == [Profile -> Section \cup {Absent}]
Empty == [f \in Profile |-> Absent]

ASSUME TaskAssumption ==
  /\ Owner \in [Thread -> Process]
  /\ Task \in [Process -> [kind : {"use", "login", "logout", "set", "delete", "deleteProfile"},
                           profile : Profile,
                           address : Address \cup {Unset}]] \* the one to set
ASSUME InitialAssumption ==
  /\ Initial \in Content
  /\ Issued \in Nat
  /\ \A f \in Profile : Initial[f] # Absent => Initial[f].oauth \in 0 .. Issued
  /\ \A f, g \in Profile : \* each was logged in on its own
       f # g /\ Initial[f] # Absent /\ Initial[g] # Absent /\ Initial[f].oauth = Initial[g].oauth
         => Initial[f].oauth = None
-----------------------------------------------------------------------------
VARIABLES
  file,    \* the content of the file; a truncated file reads as Empty
  run,     \* is a process ready to start, running or gone?
  mem,     \* mem[p]: OAuthConfig.Token of process p
  frame,   \* where each thread is, and its local variables
  valid,   \* the tokens the authorization server would refresh
  expired, \* the tokens whose access token has expired
  last,    \* the last token issued
  \* auxiliary: what happened, for the properties
  stored,     \* the content last written completely
  logins,     \* profiles that are logged in, as far as the file should know
  overlapped, \* has a process read the file while another was writing it?
  spent       \* spent[p]: the tokens that p exchanged and that are void since

vars == <<file, run, mem, frame, valid, expired, last, stored, logins, overlapped, spent>>
server == <<valid, expired, last>>
history == <<stored, logins, overlapped, spent>>

\* cur is curAccessToken, tok the token of the token source and then what it
\* returned, buf the content that was read and then the one to write.
Idle == [at |-> "idle", cur |-> None, tok |-> None, buf |-> Empty]
Writing == {"truncate", "write"}
Storing == {"remember", "read"} \cup Writing
Frame == [at : {"idle", "ask", "source"} \cup Storing, cur : Nat, tok : Nat, buf : Content]

OAuthOf(section) == IF section = Absent THEN None ELSE section.oauth
AddressOf(section) == IF section = Absent THEN Unset ELSE section.address
Kind(t) == Task[Owner[t]].kind
ProfileOf(t) == Task[Owner[t]].profile
MemOf(t) == mem[Owner[t]]

Init ==
  /\ file = Initial
  /\ run = [p \in Process |-> "ready"]
  /\ mem = [p \in Process |-> None]
  /\ frame = [t \in Thread |-> Idle]
  /\ valid = {OAuthOf(Initial[f]) : f \in Profile} \ {None}
  /\ expired = {}
  /\ last = Issued
  /\ stored = Initial
  /\ logins = {f \in Profile : OAuthOf(Initial[f]) # None}
  /\ overlapped = FALSE
  /\ spent = [p \in Process |-> {}]

\* Thread t goes on at l, or returns and forgets its variables.
Goto(t, l) == frame' = [frame EXCEPT ![t].at = l]
Return(t) == frame' = [frame EXCEPT ![t] = Idle]
-----------------------------------------------------------------------------
(* Processes *)

Running == {p \in Process : run[p] = "running"}
ThreadsOf(p) == {t \in Thread : Owner[t] = p}

\* A process that sends requests loads its token first (Build); one that logs
\* in has just been issued one.
Start(p) ==
  /\ run[p] = "ready"
  /\ run' = [run EXCEPT ![p] = "running"]
  /\ IF Task[p].kind = "login"
     THEN /\ last < MaxToken
          /\ last' = last + 1
          /\ valid' = valid \cup {last'}
          /\ mem' = [mem EXCEPT ![p] = last']
     ELSE /\ mem' = [mem EXCEPT ![p] = IF Task[p].kind = "use" THEN OAuthOf(file[Task[p].profile])
                                       ELSE None]
          /\ UNCHANGED <<last, valid>>
  /\ frame' = [t \in Thread |-> IF Owner[t] = p /\ Kind(t) # "use"
                                THEN [Idle EXCEPT !.at = "read"] ELSE frame[t]]
  /\ UNCHANGED <<file, expired, history>>

Exit(p) ==
  /\ run[p] = "running"
  /\ \A t \in ThreadsOf(p) : frame[t] = Idle
  /\ run' = [run EXCEPT ![p] = "gone"]
  /\ mem' = [mem EXCEPT ![p] = None]
  /\ UNCHANGED <<file, frame, server, history>>

\* A thread that has a new token to store.
Renews(t) ==
  /\ Kind(t) = "use"
  /\ \/ frame[t].at \in {"read"} \cup Writing
     \/ frame[t].at = "remember" /\ frame[t].tok # frame[t].cur

\* What is lost when the threads in T do not get any further: all logins once
\* the file is truncated, otherwise those whose new token was to be stored.
Lost(T) ==
  IF \E t \in T : frame[t].at = "write" THEN Profile
  ELSE {ProfileOf(t) : t \in {u \in T : Renews(u)}}

Kill(p) ==
  /\ p \in Faulty
  /\ run[p] = "running"
  /\ run' = [run EXCEPT ![p] = "gone"]
  /\ mem' = [mem EXCEPT ![p] = None]
  /\ frame' = [t \in Thread |-> IF Owner[t] = p THEN Idle ELSE frame[t]]
  /\ logins' = logins \ Lost(ThreadsOf(p))
  /\ UNCHANGED <<file, server, stored, overlapped, spent>>
-----------------------------------------------------------------------------
(* getToken *)

\* A request begins, the process having OAuth credentials.
Ask(t) ==
  /\ Owner[t] \in Running
  /\ frame[t] = Idle
  /\ Kind(t) = "use"
  /\ MemOf(t) # None
  /\ frame' = [frame EXCEPT ![t].at = "ask", ![t].cur = MemOf(t)]
  /\ UNCHANGED <<file, run, mem, server, history>>

\* The token source takes the token that is in memory by now.
NewTokenSource(t) ==
  /\ frame[t].at = "ask"
  /\ frame' = [frame EXCEPT ![t].at = "source", ![t].tok = MemOf(t)]
  /\ UNCHANGED <<file, run, mem, server, history>>

\* It returns that token,
Reuse(t) ==
  /\ frame[t].at = "source"
  /\ frame[t].tok \notin expired
  /\ Goto(t, "remember")
  /\ UNCHANGED <<file, run, mem, server, history>>

\* or exchanges it, and the server may void it,
Refresh(t) ==
  /\ frame[t].at = "source"
  /\ frame[t].tok \in expired \cap valid
  /\ last < MaxToken
  /\ last' = last + 1
  /\ \E void \in {{}, {frame[t].tok}} :
       /\ valid' = (valid \ void) \cup {last'}
       /\ spent' = [spent EXCEPT ![Owner[t]] = @ \cup void]
  /\ frame' = [frame EXCEPT ![t].at = "remember", ![t].tok = last']
  /\ UNCHANGED <<file, run, mem, expired, stored, logins, overlapped>>

\* or fails, and the request with it; the server may have exchanged the token
\* and its answer be lost.
RefreshFails(t) ==
  /\ frame[t].at = "source"
  /\ frame[t].tok \in expired
  /\ \/ frame[t].tok \notin valid /\ UNCHANGED <<valid, logins>>
     \/ /\ Owner[t] \in Faulty
        /\ valid' \in {valid, valid \ {frame[t].tok}}
        /\ logins' = logins \ {ProfileOf(t)}
  /\ Return(t)
  /\ UNCHANGED <<file, run, mem, expired, last, stored, overlapped, spent>>

Remember_NotStored(t) ==
  /\ frame[t].at = "remember"
  /\ mem' = [mem EXCEPT ![Owner[t]] = frame[t].tok]
  /\ Return(t)
  /\ UNCHANGED <<file, run, server, history>>

Remember_StoredOnly(t) ==
  /\ frame[t].at = "remember"
  /\ IF frame[t].tok # frame[t].cur THEN Goto(t, "read") ELSE Return(t)
  /\ UNCHANGED <<file, run, mem, server, history>>

\* A token other than the one in memory at the start replaces it and is stored.
Remember(t) ==
  /\ frame[t].at = "remember"
  /\ IF frame[t].tok # frame[t].cur
     THEN mem' = [mem EXCEPT ![Owner[t]] = frame[t].tok] /\ Goto(t, "read")
     ELSE UNCHANGED mem /\ Return(t)
  /\ UNCHANGED <<file, run, server, history>>

\* Access tokens live longer than it takes to store one.
Expire(n) ==
  /\ \A t \in Thread : frame[t].at \notin Storing
  /\ expired' = expired \cup {n}
  /\ UNCHANGED <<file, run, mem, frame, valid, last, history>>
-----------------------------------------------------------------------------
(* Reading, changing and writing the file *)

Setting == {"set", "delete", "deleteProfile"}
Bearer == {"use", "login"} \* they have a token to store

\* What envconfig makes of the file: it knows nothing of OAuth.
Loaded(content) ==
  [f \in Profile |-> IF content[f] = Absent THEN Absent ELSE [content[f] EXCEPT !.oauth = None]]

\* config delete and delete-profile need the profile.
NotFound(t) == Kind(t) \in Setting \ {"set"} /\ file[ProfileOf(t)] = Absent

Read(t) ==
  /\ frame[t].at = "read"
  /\ IF NotFound(t) THEN Return(t)
     ELSE frame' = [frame EXCEPT ![t].at = "truncate",
                                 ![t].buf = IF Kind(t) \in Setting THEN Loaded(file) ELSE file]
  /\ overlapped' = (overlapped \/ \E u \in Thread : frame[u].at \in Writing)
  /\ UNCHANGED <<file, run, mem, server, stored, logins, spent>>

Changed_Emptied(t, old) ==
  CASE Kind(t) = "deleteProfile" -> Absent
    [] Kind(t) = "delete"        -> [old EXCEPT !.address = ""]
    [] Kind(t) = "set"           -> [address |-> Task[Owner[t]].address, oauth |-> None]
    [] OTHER -> [address |-> AddressOf(old), oauth |-> MemOf(t)]

\* What becomes of the section of the profile; getToken leaves the address
\* alone, who logs in may give one.
Changed(t, old) ==
  CASE Kind(t) = "deleteProfile" -> Absent
    [] Kind(t) = "delete"        -> [old EXCEPT !.address = Unset]
    [] Kind(t) = "set"           -> [address |-> Task[Owner[t]].address, oauth |-> None]
    [] OTHER -> [address |-> IF Kind(t) = "use" \/ Task[Owner[t]].address = Unset
                             THEN AddressOf(old) ELSE Task[Owner[t]].address,
                 oauth |-> MemOf(t)]

\* os.WriteFile truncates the file
Truncate(t) ==
  /\ frame[t].at = "truncate"
  /\ frame' = [frame EXCEPT ![t].at = "write",
                            ![t].buf[ProfileOf(t)] = Changed(t, frame[t].buf[ProfileOf(t)])]
  /\ file' = Empty
  /\ UNCHANGED <<run, mem, server, history>>

\* and then fills it.  The commands that set and delete write no tokens: they
\* log out every profile.
Write(t) ==
  /\ frame[t].at = "write"
  /\ file' = frame[t].buf
  /\ stored' = frame[t].buf
  /\ logins' = IF Kind(t) \in Setting THEN {}
               ELSE IF Kind(t) = "logout" THEN logins \ {ProfileOf(t)}
               ELSE logins \cup {ProfileOf(t)}
  /\ Return(t)
  /\ UNCHANGED <<run, mem, server, overlapped, spent>>

\* A failure to read or write ends the command, or is logged by getToken.
StoreFails(t) ==
  /\ Owner[t] \in Faulty
  /\ frame[t].at \in {"read"} \cup Writing
  /\ Return(t)
  /\ logins' = logins \ Lost({t})
  /\ UNCHANGED <<file, run, mem, server, stored, overlapped, spent>>
-----------------------------------------------------------------------------
AllGone == \A p \in Process : run[p] = "gone"

Next ==
  \/ \E p \in Process : Start(p) \/ Exit(p) \/ Kill(p)
  \/ \E t \in Thread :
       \/ Ask(t) \/ NewTokenSource(t) \/ Reuse(t) \/ Refresh(t) \/ RefreshFails(t) \/ Remember(t)
       \/ Read(t) \/ Truncate(t) \/ Write(t) \/ StoreFails(t)
  \/ \E n \in 1 .. last : Expire(n)
  \/ AllGone /\ UNCHANGED vars

Spec == Init /\ [][Next]_vars
-----------------------------------------------------------------------------
(* Properties *)

\* The type of every variable.
TypeOK ==
  /\ {file, stored} \subseteq Content
  /\ run \in [Process -> {"ready", "running", "gone"}]
  /\ mem \in [Process -> 0 .. last]
  /\ frame \in [Thread -> Frame]
  /\ {valid, expired} \subseteq SUBSET (1 .. last)
  /\ last \in Nat
  /\ logins \subseteq Profile
  /\ overlapped \in BOOLEAN
  /\ spent \in [Process -> SUBSET (1 .. last)]

\* Whenever nobody is at work, each profile that is logged in has a token in
\* the file that the server would refresh: its user need not log in again,
\* whatever requests of whatever processes refreshed and stored at once, as
\* long as no two of them had the file open at once.  A crash, a failed write
\* or a lost answer costs its own profile the login, and all profiles theirs
\* only between the truncation and the end of the write.
FileUsable ==
  ~ overlapped /\ (\A t \in Thread : frame[t] = Idle) =>
    \A f \in logins : OAuthOf(file[f]) \in valid

\* A process never locks itself out: when it has exchanged the token that it
\* holds for another one, and voided it by that, one of its requests is about
\* to replace it, whatever its other requests remember in between, and also
\* when the new token cannot be stored.
MemoryUsable ==
  \A p \in Running :
    mem[p] \in spent[p] =>
      \E t \in ThreadsOf(p) :
        frame[t].at = "remember" /\ frame[t].tok # frame[t].cur /\ frame[t].tok \in valid

\* "This function preserves all other content in the config file": a new token
\* changes nothing of the other profiles.
OthersPreserved ==
  [][\A t \in Thread :
       Write(t) /\ Kind(t) \notin Setting =>
         \A f \in Profile \ {ProfileOf(t)} : file'[f] = stored[f]]_vars
=============================================================================
