--------------------------- MODULE ConfigStore_proofs ---------------------------
(***************************************************************************)
(* The configuration file, for any processes, threads, profiles and tokens. *)
(* Whatever runs at once: a token stays with its profile, a token that has   *)
(* not expired is still valid, and no command locks itself out.  As long as  *)
(* no two processes had the file open at once, it holds a token that can be  *)
(* refreshed for every profile that is logged in.                            *)
(***************************************************************************)
EXTENDS ConfigStore, TLAPS

\* The tokens that are, or were, the profile's: in the file, in a copy of it,
\* and with the processes that use the profile.
FileToken(f) == OAuthOf(file[f])
CopyToken(t, f) == OAuthOf(frame[t].buf[f])

Held(f) ==
  ({FileToken(f)} \cup {CopyToken(t, f) : t \in Thread}
     \cup {mem[p] : p \in {q \in Process : Task[q].profile = f}}
     \cup UNION {{frame[t].cur, frame[t].tok} : t \in {u \in Thread : ProfileOf(u) = f}})
  \ {None}

\* A token is not with two profiles.
NotMixed == \A f, g \in Profile : f # g => Held(f) \cap Held(g) = {}

\* A token that has not expired is valid: the server gives up only what it has
\* refreshed, and only what has expired is refreshed.
FreshValid == \A f \in Profile : Held(f) \subseteq expired \cup valid

\* What a thread has in its hands.
FrameOf(t) ==
  /\ frame[t].at \in {"ask", "source", "remember"} => Kind(t) = "use"
  /\ frame[t].at # "idle" /\ Kind(t) \in Bearer => MemOf(t) # None
  /\ frame[t].at \in {"source", "remember"} => frame[t].tok # None
  /\ frame[t].at = "write" /\ Kind(t) \in Bearer => CopyToken(t, ProfileOf(t)) # None
  /\ frame[t].at = "idle" => frame[t] = Idle
  /\ frame[t].at # "idle" => Owner[t] \in Running
  /\ frame[t].at = "truncate" /\ Kind(t) \in Setting =>
       \A f \in Profile : CopyToken(t, f) = None
  /\ frame[t].at = "truncate" /\ Kind(t) = "delete" =>
       frame[t].buf[ProfileOf(t)] \in Section

FrameInv == \A t \in Thread : FrameOf(t)

\* Nothing that is about to be stored has expired.
StoringOf(t) ==
  /\ frame[t].at = "remember" => frame[t].tok \notin expired
  /\ frame[t].at \in {"read", "truncate", "write"} => MemOf(t) \notin expired
  /\ frame[t].at = "write" => CopyToken(t, ProfileOf(t)) \notin expired

StoringInv == \A t \in Thread : StoringOf(t)

IInv == TypeOK /\ NotMixed /\ FreshValid /\ FrameInv /\ StoringInv
-----------------------------------------------------------------------------
(* What it is needed for. *)

\* A token that its process has exchanged and voided stays void.
SpentInv ==
  \A p \in Process :
    /\ spent[p] \cap valid = {}
    /\ run[p] = "ready" => spent[p] = {}

\* A login is good for: token n, or the one that a thread is about to store.
Kept(f, n) == n \in valid \/ \E t \in Thread : ProfileOf(t) = f /\ Renews(t)

\* Two threads that have read the file and not written it have overlapped.
OneWriter == \A t, u \in Thread : frame[t].at \in Writing /\ frame[u].at \in Writing => t = u

\* The file, while it is whole, keeps the logins,
FileInv ==
  (\A t \in Thread : frame[t].at # "write") => \A f \in logins : Kept(f, FileToken(f))

\* and so does a copy that will be written, those of the other profiles.
CopyOf(t) ==
  frame[t].at \in Writing /\ Kind(t) \notin Setting =>
    \A f \in logins \ {ProfileOf(t)} : Kept(f, CopyToken(t, f))

CopyInv == \A t \in Thread : CopyOf(t)

LoginInv == ~ overlapped => OneWriter /\ FileInv /\ CopyInv
-----------------------------------------------------------------------------
(* What the operators on sections do. *)

\* A profile is there or not.
LEMMA NotAbsent == \A s \in Section : s # Absent
<1> SUFFICES ASSUME NEW s \in Section, s = Absent PROVE FALSE
  OBVIOUS
<1>1. DOMAIN s = {"address", "oauth"}
  BY DEF Section
<1>2. DOMAIN s = {"exists"}
  BY DEF Absent
<1> QED
  BY <1>1, <1>2

\* The token of a section is a token, or none.
LEMMA TokenType ==
  ASSUME NEW s \in Section \cup {Absent}
  PROVE  OAuthOf(s) \in Nat /\ OAuthOf(Absent) = None /\ (s # Absent => OAuthOf(s) = s.oauth)
BY DEF OAuthOf, Section, None

\* What envconfig loads has the same profiles, and no token.
LEMMA LoadedType ==
  ASSUME NEW c \in Content
  PROVE  /\ Loaded(c) \in Content
         /\ \A f \in Profile : OAuthOf(Loaded(c)[f]) = None
         /\ \A f \in Profile : c[f] # Absent => Loaded(c)[f] \in Section
BY NotAbsent DEF Loaded, Content, Section, OAuthOf, None

\* An empty file.
LEMMA EmptyType == Empty \in Content /\ \A f \in Profile : OAuthOf(Empty[f]) = None
BY DEF Empty, Content, OAuthOf

\* A thread that does nothing holds no token.
LEMMA IdleType ==
  /\ Idle \in Frame /\ Idle.at = "idle" /\ Idle.cur = None /\ Idle.tok = None
  /\ \A f \in Profile : OAuthOf(Idle.buf[f]) = None
BY EmptyType DEF Idle, Frame, None

\* What a process can have been asked to do.
LEMMA Kinds ==
  ASSUME NEW t \in Thread
  PROVE  Kind(t) \in Setting \cup Bearer \cup {"logout"} /\ Setting \cap Bearer = {}
<1>1. Kind(t) \in {"use", "login", "logout", "set", "delete", "deleteProfile"}
  BY TaskAssumption DEF Kind
<1> QED
  BY <1>1 DEF Setting, Bearer

\* What a thread makes of a section: the token it has in memory, or none.
LEMMA ChangedType ==
  ASSUME NEW t \in Thread, NEW old \in Section \cup {Absent}, MemOf(t) \in Nat,
         Kind(t) = "delete" => old \in Section,
         Kind(t) \in Setting => OAuthOf(old) = None
  PROVE  /\ Changed(t, old) \in Section \cup {Absent}
         /\ OAuthOf(Changed(t, old)) \in {None, MemOf(t)}
         /\ Kind(t) \notin Setting => OAuthOf(Changed(t, old)) = MemOf(t)
<1>1. Task[Owner[t]].address \in Address \cup {Unset}
  BY TaskAssumption
<1>2. CASE Kind(t) = "deleteProfile"
  BY <1>2, TokenType DEF Changed, Setting
<1>3. CASE Kind(t) = "delete"
  <2>1. /\ Changed(t, old) = [old EXCEPT !.address = Unset]
        /\ old \in Section /\ old.oauth = None
    BY <1>3, NotAbsent, TokenType DEF Changed, Setting
  <2>2. Changed(t, old) \in Section /\ Changed(t, old).oauth = None
    BY <2>1 DEF Section
  <2> QED
    BY <1>3, <2>2, NotAbsent, TokenType DEF Setting
<1>4. CASE Kind(t) = "set"
  <2>1. Changed(t, old) = [address |-> Task[Owner[t]].address, oauth |-> None]
    BY <1>4 DEF Changed
  <2>2. Changed(t, old) \in Section /\ Changed(t, old).oauth = None
    BY <1>1, <2>1 DEF Section, None
  <2> QED
    BY <1>4, <2>2, NotAbsent, TokenType DEF Setting
<1>5. CASE Kind(t) \notin {"deleteProfile", "delete", "set"}
  <2> DEFINE a == IF Kind(t) = "use" \/ Task[Owner[t]].address = Unset
                    THEN AddressOf(old) ELSE Task[Owner[t]].address
  <2>1. a \in Address \cup {Unset}
    BY <1>1 DEF AddressOf, Section
  <2>2. Changed(t, old) = [address |-> a, oauth |-> MemOf(t)]
    BY <1>5, Zenon DEF Changed
  <2> HIDE DEF a
  <2>3. Changed(t, old) \in Section /\ Changed(t, old).oauth = MemOf(t)
    BY <2>1, <2>2 DEF Section
  <2> QED
    BY <2>3, NotAbsent, TokenType
<1> QED
  BY <1>2, <1>3, <1>4, <1>5
-----------------------------------------------------------------------------
(* Tokens. *)

\* Whoever has a token, has one of its profile.
LEMMA HeldTokens ==
  ASSUME TypeOK
  PROVE  /\ \A f \in Profile : FileToken(f) \in Held(f) \cup {None}
         /\ \A t \in Thread, f \in Profile : CopyToken(t, f) \in Held(f) \cup {None}
         /\ \A p \in Process : mem[p] \in Held(Task[p].profile) \cup {None}
         /\ \A t \in Thread : /\ frame[t].cur \in Held(ProfileOf(t)) \cup {None}
                              /\ frame[t].tok \in Held(ProfileOf(t)) \cup {None}
                              /\ Owner[t] \in Process
                              /\ ProfileOf(t) \in Profile
                              /\ MemOf(t) \in Held(ProfileOf(t)) \cup {None}
         /\ \A p \in Process : Task[p].profile \in Profile
<1>1. \A p \in Process : Task[p].profile \in Profile
  BY TaskAssumption
<1>2. \A p \in Process : mem[p] \in Held(Task[p].profile) \cup {None}
  BY DEF Held
<1>3. \A t \in Thread : Owner[t] \in Process
  BY TaskAssumption
<1>4. \A t \in Thread : /\ frame[t].cur \in Held(ProfileOf(t)) \cup {None}
                        /\ frame[t].tok \in Held(ProfileOf(t)) \cup {None}
  BY DEF Held
<1>5. \A f \in Profile : FileToken(f) \in Held(f) \cup {None}
  BY DEF Held
<1>6. \A t \in Thread, f \in Profile : CopyToken(t, f) \in Held(f) \cup {None}
  BY DEF Held
<1> QED
  BY <1>1, <1>2, <1>3, <1>4, <1>5, <1>6 DEF ProfileOf, MemOf

\* The tokens issued in a step.
New == last + 1 .. last'

\* A step that moves tokens only within their profiles, gives new ones to one
\* profile and makes only expired ones invalid keeps the profiles apart.
LEMMA TokensKept ==
  ASSUME TypeOK, NotMixed, FreshValid, NEW F \in Profile,
         last' \in {last, last + 1},
         \A f \in Profile : FileToken(f)' \in Held(f) \cup {None},
         \A t \in Thread, f \in Profile : CopyToken(t, f)' \in Held(f) \cup {None},
         \A p \in Process :
           mem'[p] \in Held(Task[p].profile) \cup {None}
                         \cup (IF Task[p].profile = F THEN New ELSE {}),
         \A t \in Thread :
           {frame'[t].cur, frame'[t].tok} \subseteq
              Held(ProfileOf(t)) \cup {None} \cup (IF ProfileOf(t) = F THEN New ELSE {}),
         New \subseteq valid', expired \subseteq expired', valid \subseteq valid' \cup expired'
  PROVE  NotMixed' /\ FreshValid'
<1> DEFINE N(f) == IF f = F THEN New ELSE {}
<1>1. \A f \in Profile : Held(f)' \subseteq Held(f) \cup N(f)
  <2> SUFFICES ASSUME NEW f \in Profile, NEW n \in Held(f)'
               PROVE  n \in Held(f) \cup N(f)
    OBVIOUS
  <2>1. n # None
    BY DEF Held
  <2>2. \/ n = FileToken(f)'
        \/ \E t \in Thread : n = CopyToken(t, f)'
        \/ \E p \in Process : Task[p].profile = f /\ n = mem'[p]
        \/ \E t \in Thread : ProfileOf(t) = f /\ n \in {frame'[t].cur, frame'[t].tok}
    BY DEF Held, ProfileOf
  <2>3. CASE n = FileToken(f)'
    BY <2>1, <2>3
  <2>4. CASE \E t \in Thread : n = CopyToken(t, f)'
    BY <2>1, <2>4
  <2>5. CASE \E p \in Process : Task[p].profile = f /\ n = mem'[p]
    BY <2>1, <2>5
  <2>6. CASE \E t \in Thread : ProfileOf(t) = f /\ n \in {frame'[t].cur, frame'[t].tok}
    BY <2>1, <2>6
  <2> QED
    BY <2>2, <2>3, <2>4, <2>5, <2>6
<1>2. \A f \in Profile : Held(f) \subseteq 1..last
  BY DEF TypeOK, FreshValid
<1>3. \A n \in New : n \notin 1..last
  BY DEF New, TypeOK
<1>4. NotMixed'
  <2> SUFFICES ASSUME NEW f \in Profile, NEW g \in Profile, f # g,
                      NEW n \in Held(f)', n \in Held(g)'
               PROVE  FALSE
    BY DEF NotMixed
  <2>1. n \in Held(f) \cup N(f) /\ n \in Held(g) \cup N(g)
    BY <1>1
  <2>2. ~ (n \in Held(f) /\ n \in Held(g))
    BY DEF NotMixed
  <2> QED
    BY <1>2, <1>3, <2>1, <2>2
<1>5. FreshValid'
  <2> SUFFICES ASSUME NEW f \in Profile, NEW n \in Held(f)'
               PROVE  n \in expired' \cup valid'
    BY DEF FreshValid
  <2>1. n \in Held(f) \cup New
    BY <1>1
  <2>2. n \in Held(f) => n \in expired \cup valid
    BY DEF FreshValid
  <2> QED
    BY <2>1, <2>2
<1> QED
  BY <1>4, <1>5

\* Tokens are numbers that have been issued.
LEMMA TokenBounds ==
  ASSUME TypeOK, FreshValid
  PROVE  /\ \A f \in Profile : Held(f) \subseteq 1..last
         /\ \A t \in Thread : {frame[t].cur, frame[t].tok, MemOf(t)} \subseteq 0..last
         /\ \A p \in Process : mem[p] \in 0..last
         /\ last \in Nat
         /\ None \notin expired /\ None \notin valid /\ last + 1 \notin expired
         /\ 0..last \subseteq Nat
<1>1. \A f \in Profile : Held(f) \subseteq 1..last
  BY DEF TypeOK, FreshValid
<1> QED
  BY <1>1, HeldTokens DEF TypeOK, None
-----------------------------------------------------------------------------
(* The invariant, step by step. *)

\* A thread that does not move keeps what it has, if nothing of its process
\* changes.
LEMMA OthersKeep ==
  ASSUME NEW u \in Thread, frame'[u] = frame[u], MemOf(u)' = MemOf(u),
         expired' = expired, run' = run, FrameOf(u), StoringOf(u)
  PROVE  FrameOf(u)' /\ StoringOf(u)'
BY DEF FrameOf, StoringOf, CopyToken, MemOf, Running, ProfileOf, Kind

\* The file as it is at the start, and no token issued to two profiles.
LEMMA InitIInv == Init => IInv
<1> SUFFICES ASSUME Init PROVE IInv
  OBVIOUS
<1>1. \A f \in Profile : Initial[f] \in Section \cup {Absent}
  BY InitialAssumption DEF Content
<1>2. \A f \in Profile : OAuthOf(Initial[f]) \in 0 .. Issued
  BY <1>1, TokenType, InitialAssumption DEF None
<1>3. /\ \A f \in Profile : FileToken(f) = OAuthOf(Initial[f])
      /\ \A t \in Thread, f \in Profile : CopyToken(t, f) = None
      /\ \A t \in Thread : frame[t] = Idle /\ frame[t].cur = None /\ frame[t].tok = None
      /\ \A p \in Process : mem[p] = None
  BY IdleType DEF Init, FileToken, CopyToken
<1>4. TypeOK
  <2>1. /\ {file, stored} \subseteq Content /\ last \in Nat
        /\ frame \in [Thread -> Frame]
        /\ run \in [Process -> {"ready", "running", "gone"}]
    BY IdleType, InitialAssumption DEF Init
  <2>2. mem \in [Process -> 0 .. last]
    BY InitialAssumption DEF Init, None
  <2>3. valid \subseteq 1 .. last
    BY <1>2 DEF Init, None
  <2> QED
    BY <2>1, <2>2, <2>3 DEF Init, TypeOK
<1>5. \A f \in Profile : Held(f) = {OAuthOf(Initial[f])} \ {None}
  BY <1>3 DEF Held
<1>6. NotMixed
  <2>1. \A f \in Profile : OAuthOf(Initial[f]) # None =>
          Initial[f] # Absent /\ OAuthOf(Initial[f]) = Initial[f].oauth
    BY <1>1, TokenType
  <2>2. \A f, g \in Profile : f # g /\ OAuthOf(Initial[f]) = OAuthOf(Initial[g]) =>
          OAuthOf(Initial[f]) = None
    BY <2>1, InitialAssumption
  <2> QED
    BY <1>5, <2>2 DEF NotMixed
<1>7. FreshValid
  BY <1>5 DEF FreshValid, Init
<1>8. FrameInv /\ StoringInv
  BY <1>3, IdleType DEF FrameInv, FrameOf, StoringInv, StoringOf
<1> QED
  BY <1>4, <1>6, <1>7, <1>8 DEF IInv

\* What one thread does to the file and with what it has in its hands.
LEMMA ThreadMoves ==
  ASSUME IInv, NEW t \in Thread, UNCHANGED <<run, mem, expired, last>>,
         valid' \subseteq valid, valid \subseteq valid' \cup expired,
         file' \in Content, stored' \in Content, logins' \in SUBSET Profile,
         overlapped' \in BOOLEAN, spent' = spent,
         \A f \in Profile : FileToken(f)' \in Held(f) \cup {None},
         frame' \in [Thread -> Frame], \A u \in Thread \ {t} : frame'[u] = frame[u],
         {frame'[t].cur, frame'[t].tok} \subseteq Held(ProfileOf(t)) \cup {None},
         \A f \in Profile : CopyToken(t, f)' \in Held(f) \cup {None},
         FrameOf(t)' /\ StoringOf(t)'
  PROVE  IInv'
<1>1. TypeOK /\ NotMixed /\ FreshValid /\ FrameInv /\ StoringInv
  BY DEF IInv
<1>2. TypeOK'
  BY <1>1 DEF TypeOK
<1>3. NotMixed' /\ FreshValid'
  <2>1. ProfileOf(t) \in Profile
    BY <1>1, HeldTokens
  <2>3. \A u \in Thread, f \in Profile : CopyToken(u, f)' \in Held(f) \cup {None}
    BY <1>1, HeldTokens DEF CopyToken
  <2>4. New = {} /\ expired' = expired /\ last' = last
    BY <1>1, TokenBounds DEF New
  <2>5. \A u \in Thread : {frame'[u].cur, frame'[u].tok} \subseteq Held(ProfileOf(u)) \cup {None}
    BY <1>1, HeldTokens
  <2> QED
    BY <1>1, <2>1, <2>3, <2>4, <2>5, HeldTokens, TokensKept
<1>4. FrameInv' /\ StoringInv'
  BY <1>1, OthersKeep DEF FrameInv, StoringInv, MemOf
<1> QED
  BY <1>2, <1>3, <1>4 DEF IInv

\* What is known of a thread.
LEMMA ThreadFacts ==
  ASSUME IInv, NEW t \in Thread
  PROVE  /\ TypeOK /\ NotMixed /\ FreshValid /\ FrameInv /\ StoringInv
         /\ FrameOf(t) /\ StoringOf(t)
         /\ frame \in [Thread -> Frame] /\ frame[t] \in Frame
         /\ Owner[t] \in Process /\ ProfileOf(t) \in Profile
         /\ frame[t].cur \in Held(ProfileOf(t)) \cup {None}
         /\ frame[t].tok \in Held(ProfileOf(t)) \cup {None}
         /\ MemOf(t) \in Held(ProfileOf(t)) \cup {None}
         /\ \A f \in Profile : CopyToken(t, f) \in Held(f) \cup {None}
         /\ \A f \in Profile : FileToken(f) \in Held(f) \cup {None}
         /\ {frame[t].cur, frame[t].tok, MemOf(t)} \subseteq 0..last
         /\ 0..last \subseteq Nat /\ last \in Nat
         /\ file \in Content /\ stored \in Content /\ logins \in SUBSET Profile
         /\ overlapped \in BOOLEAN
         /\ None \notin expired
<1>1. TypeOK /\ NotMixed /\ FreshValid /\ FrameInv /\ StoringInv
  BY DEF IInv
<1>2. FrameOf(t) /\ StoringOf(t)
  BY <1>1 DEF FrameInv, StoringInv
<1>3. /\ frame \in [Thread -> Frame] /\ frame[t] \in Frame
      /\ file \in Content /\ stored \in Content /\ logins \in SUBSET Profile
         /\ overlapped \in BOOLEAN
  BY <1>1 DEF TypeOK
<1> QED
  BY <1>1, <1>2, <1>3, HeldTokens, TokenBounds

\* A request takes the token in memory as the current one,
LEMMA AskInv ==
  ASSUME IInv, NEW t \in Thread, Ask(t)
  PROVE  IInv'
<1>1. /\ frame' = [frame EXCEPT ![t].at = "ask", ![t].cur = MemOf(t)]
      /\ Owner[t] \in Running /\ Kind(t) = "use" /\ MemOf(t) # None
      /\ UNCHANGED <<file, run, mem, valid, expired, last, stored, logins, overlapped, spent>>
  BY DEF Ask, server, history
<1>2. /\ frame' \in [Thread -> Frame]
      /\ \A u \in Thread \ {t} : frame'[u] = frame[u]
      /\ frame'[t].at = "ask" /\ frame'[t].cur = MemOf(t)
      /\ frame'[t].tok = frame[t].tok /\ frame'[t].buf = frame[t].buf
  BY <1>1, ThreadFacts DEF Frame
<1>3. FrameOf(t)' /\ StoringOf(t)'
  BY <1>1, <1>2 DEF FrameOf, StoringOf, Kind, Running, MemOf
<1>4. \A f \in Profile : CopyToken(t, f)' = CopyToken(t, f)
  BY <1>2 DEF CopyToken
<1>5. \A f \in Profile : FileToken(f)' = FileToken(f)
  BY <1>1 DEF FileToken
<1> QED
  BY <1>1, <1>2, <1>3, <1>4, <1>5, ThreadFacts, ThreadMoves

\* and its token source the one in memory by then,
LEMMA NewTokenSourceInv ==
  ASSUME IInv, NEW t \in Thread, NewTokenSource(t)
  PROVE  IInv'
<1>1. /\ frame' = [frame EXCEPT ![t].at = "source", ![t].tok = MemOf(t)]
      /\ frame[t].at = "ask"
      /\ UNCHANGED <<file, run, mem, valid, expired, last, stored, logins, overlapped, spent>>
  BY DEF NewTokenSource, server, history
<1>2. /\ frame' \in [Thread -> Frame]
      /\ \A u \in Thread \ {t} : frame'[u] = frame[u]
      /\ frame'[t].at = "source" /\ frame'[t].tok = MemOf(t)
      /\ frame'[t].cur = frame[t].cur /\ frame'[t].buf = frame[t].buf
  BY <1>1, ThreadFacts DEF Frame
<1>3. FrameOf(t)' /\ StoringOf(t)'
  <2>1. /\ Kind(t) = "use" /\ MemOf(t) # None /\ Owner[t] \in Running
        /\ Kind(t)' = Kind(t) /\ MemOf(t)' = MemOf(t) /\ Running' = Running
    BY <1>1, ThreadFacts DEF FrameOf, Kind, Running, MemOf, Bearer
  <2> QED
    BY <1>2, <2>1 DEF FrameOf, StoringOf
<1>4. \A f \in Profile : CopyToken(t, f)' = CopyToken(t, f)
  BY <1>2 DEF CopyToken
<1>5. \A f \in Profile : FileToken(f)' = FileToken(f)
  BY <1>1 DEF FileToken
<1> QED
  BY <1>1, <1>2, <1>3, <1>4, <1>5, ThreadFacts, ThreadMoves

\* which it returns as long as it has not expired.
LEMMA ReuseInv ==
  ASSUME IInv, NEW t \in Thread, Reuse(t)
  PROVE  IInv'
<1>1. /\ frame' = [frame EXCEPT ![t].at = "remember"]
      /\ frame[t].at = "source" /\ frame[t].tok \notin expired
      /\ UNCHANGED <<file, run, mem, valid, expired, last, stored, logins, overlapped, spent>>
  BY DEF Reuse, Goto, server, history
<1>2. /\ frame' \in [Thread -> Frame]
      /\ \A u \in Thread \ {t} : frame'[u] = frame[u]
      /\ frame'[t].at = "remember" /\ frame'[t].tok = frame[t].tok
      /\ frame'[t].cur = frame[t].cur /\ frame'[t].buf = frame[t].buf
  BY <1>1, ThreadFacts DEF Frame, Storing, Writing
<1>3. FrameOf(t)' /\ StoringOf(t)'
  <2>1. /\ Kind(t) = "use" /\ MemOf(t) # None /\ Owner[t] \in Running /\ frame[t].tok # None
        /\ Kind(t)' = Kind(t) /\ MemOf(t)' = MemOf(t) /\ Running' = Running
    BY <1>1, ThreadFacts DEF FrameOf, Kind, Running, MemOf, Bearer
  <2> QED
    BY <1>1, <1>2, <2>1 DEF FrameOf, StoringOf
<1>4. \A f \in Profile : CopyToken(t, f)' = CopyToken(t, f)
  BY <1>2 DEF CopyToken
<1>5. \A f \in Profile : FileToken(f)' = FileToken(f)
  BY <1>1 DEF FileToken
<1> QED
  BY <1>1, <1>2, <1>3, <1>4, <1>5, ThreadFacts, ThreadMoves

\* A thread that returns forgets what it had in its hands.
LEMMA Returned ==
  ASSUME IInv, NEW t \in Thread, Return(t)
  PROVE  /\ frame' \in [Thread -> Frame]
         /\ \A u \in Thread \ {t} : frame'[u] = frame[u]
         /\ frame'[t] = Idle
         /\ frame'[t].cur = None /\ frame'[t].tok = None
         /\ \A f \in Profile : CopyToken(t, f)' = None
         /\ FrameOf(t)' /\ StoringOf(t)'
<1>1. /\ frame' \in [Thread -> Frame]
      /\ \A u \in Thread \ {t} : frame'[u] = frame[u]
      /\ frame'[t] = Idle
  BY ThreadFacts, IdleType DEF Return
<1>2. \A f \in Profile : CopyToken(t, f)' = None
  BY <1>1, IdleType DEF CopyToken
<1>3. FrameOf(t)' /\ StoringOf(t)'
  BY <1>1, IdleType DEF FrameOf, StoringOf
<1> QED
  BY <1>1, <1>2, <1>3, IdleType

\* The file is read, without its tokens by the commands that set something.
LEMMA ReadInv ==
  ASSUME IInv, NEW t \in Thread, Read(t)
  PROVE  IInv'
<1>1. /\ frame[t].at = "read" /\ overlapped' \in BOOLEAN
      /\ UNCHANGED <<file, run, mem, valid, expired, last, stored, logins, spent>>
  BY ThreadFacts DEF Read, server
<1>4. \A f \in Profile : FileToken(f)' = FileToken(f)
  BY <1>1 DEF FileToken
<1>2. CASE NotFound(t)
  <2>1. Return(t)
    BY <1>2 DEF Read
  <2> QED
    BY <1>1, <1>4, <2>1, Returned, ThreadFacts, ThreadMoves
<1>3. CASE ~ NotFound(t)
  <2> DEFINE copy == IF Kind(t) \in Setting THEN Loaded(file) ELSE file
  <2>1. frame' = [frame EXCEPT ![t].at = "truncate", ![t].buf = copy]
    BY <1>3 DEF Read
  <2>2. copy \in Content
    BY LoadedType, ThreadFacts
  <2>3. /\ Kind(t) \in Setting => \A f \in Profile : OAuthOf(copy[f]) = None
        /\ Kind(t) = "delete" => copy[ProfileOf(t)] \in Section
    <3>1. Kind(t) = "delete" => file[ProfileOf(t)] # Absent
      BY <1>3 DEF NotFound, Setting
    <3> QED
      BY <3>1, LoadedType, ThreadFacts DEF Setting
  <2>4. \A f \in Profile : OAuthOf(copy[f]) \in Held(f) \cup {None}
    BY LoadedType, ThreadFacts DEF FileToken
  <2> HIDE DEF copy
  <2>5. /\ frame' \in [Thread -> Frame]
        /\ \A u \in Thread \ {t} : frame'[u] = frame[u]
        /\ frame'[t].at = "truncate" /\ frame'[t].buf = copy
        /\ frame'[t].cur = frame[t].cur /\ frame'[t].tok = frame[t].tok
    BY <2>1, <2>2, ThreadFacts DEF Frame, Storing, Writing
  <2>6. \A f \in Profile : CopyToken(t, f)' = OAuthOf(copy[f])
    BY <2>5 DEF CopyToken
  <2>7. FrameOf(t)' /\ StoringOf(t)'
    BY <1>1, <2>3, <2>5, <2>6, ThreadFacts DEF FrameOf, StoringOf, Kind, ProfileOf, Running, MemOf
  <2> QED
    BY <1>1, <1>4, <2>4, <2>5, <2>6, <2>7, ThreadFacts, ThreadMoves
<1> QED
  BY <1>2, <1>3

\* A failure to read or to write leaves the file as it is then.
LEMMA StoreFailsInv ==
  ASSUME IInv, NEW t \in Thread, StoreFails(t)
  PROVE  IInv'
<1>1. /\ Return(t) /\ logins' \subseteq logins
      /\ UNCHANGED <<file, run, mem, valid, expired, last, stored, overlapped, spent>>
  BY DEF StoreFails, server
<1>2. \A f \in Profile : FileToken(f)' = FileToken(f)
  BY <1>1 DEF FileToken
<1> QED
  BY <1>1, <1>2, Returned, ThreadFacts, ThreadMoves

\* The server gives up at most the token that has expired.
LEMMA RefreshFailsInv ==
  ASSUME IInv, NEW t \in Thread, RefreshFails(t)
  PROVE  IInv'
<1>1. /\ Return(t) /\ logins' \subseteq logins
      /\ valid' \in {valid, valid \ {frame[t].tok}} /\ frame[t].tok \in expired
      /\ UNCHANGED <<file, run, mem, expired, last, stored, overlapped, spent>>
  BY DEF RefreshFails
<1>2. \A f \in Profile : FileToken(f)' = FileToken(f)
  BY <1>1 DEF FileToken
<1>3. valid' \subseteq valid /\ valid \subseteq valid' \cup expired
  BY <1>1
<1> QED
  BY <1>1, <1>2, <1>3, Returned, ThreadFacts, ThreadMoves

\* The file is emptied; the thread has the section of its profile ready.
LEMMA TruncateInv ==
  ASSUME IInv, NEW t \in Thread, Truncate(t)
  PROVE  IInv'
<1> DEFINE F == ProfileOf(t)
           section == Changed(t, frame[t].buf[F])
<1>1. /\ frame[t].at = "truncate"
      /\ frame' = [frame EXCEPT ![t].at = "write", ![t].buf[F] = section]
      /\ file' = Empty
      /\ UNCHANGED <<run, mem, valid, expired, last, stored, logins, overlapped, spent>>
  BY DEF Truncate, server, history
<1>2. frame[t].buf \in Content /\ frame[t].buf[F] \in Section \cup {Absent}
  BY ThreadFacts DEF Frame, Content
<1>3. /\ section \in Section \cup {Absent} /\ OAuthOf(section) \in {None, MemOf(t)}
      /\ Kind(t) \notin Setting => OAuthOf(section) = MemOf(t)
  <2>1. MemOf(t) \in Nat
    BY ThreadFacts
  <2>2. /\ Kind(t) = "delete" => frame[t].buf[F] \in Section
        /\ Kind(t) \in Setting => OAuthOf(frame[t].buf[F]) = None
    BY <1>1, ThreadFacts DEF FrameOf, CopyToken
  <2> QED
    BY <1>2, <2>1, <2>2, ChangedType
<1> HIDE DEF section
<1>4. /\ frame' \in [Thread -> Frame]
      /\ \A u \in Thread \ {t} : frame'[u] = frame[u]
      /\ frame'[t].at = "write"
      /\ frame'[t].buf = [frame[t].buf EXCEPT ![F] = section]
      /\ frame'[t].cur = frame[t].cur /\ frame'[t].tok = frame[t].tok
  BY <1>1, <1>2, <1>3, ThreadFacts DEF Frame, Storing, Writing, Content
<1>5. /\ CopyToken(t, F)' \in {None, MemOf(t)}
      /\ Kind(t) \notin Setting => CopyToken(t, F)' = MemOf(t)
      /\ \A f \in Profile \ {F} : CopyToken(t, f)' = CopyToken(t, f)
  BY <1>2, <1>3, <1>4, ThreadFacts DEF CopyToken, Content
<1>6. FrameOf(t)' /\ StoringOf(t)'
  <2>1. MemOf(t)' = MemOf(t) /\ Running' = Running /\ ProfileOf(t)' = F /\ Kind(t)' = Kind(t)
    BY <1>1 DEF MemOf, Running, ProfileOf, Kind
  <2>2. /\ MemOf(t) \notin expired /\ Owner[t] \in Running
        /\ Kind(t) \in Bearer => MemOf(t) # None /\ Kind(t) \notin Setting
    BY <1>1, Kinds, ThreadFacts DEF StoringOf, FrameOf
  <2> QED
    BY <1>1, <1>4, <1>5, <2>1, <2>2, ThreadFacts DEF FrameOf, StoringOf
<1>7. \A f \in Profile : FileToken(f)' = None
  BY <1>1, EmptyType DEF FileToken
<1>8. file' \in Content
  BY <1>1, EmptyType
<1>9. \A f \in Profile : CopyToken(t, f)' \in Held(f) \cup {None}
  BY <1>5, ThreadFacts
<1> QED
  BY <1>1, <1>4, <1>6, <1>7, <1>8, <1>9, ThreadFacts, ThreadMoves

\* The file is filled with what the thread has ready.
LEMMA WriteInv ==
  ASSUME IInv, NEW t \in Thread, Write(t)
  PROVE  IInv'
<1>1. /\ file' = frame[t].buf /\ stored' = frame[t].buf /\ logins' \subseteq Profile
      /\ Return(t)
      /\ UNCHANGED <<run, mem, valid, expired, last, overlapped, spent>>
  <2>1. logins' \subseteq logins \cup {ProfileOf(t)}
    BY Kinds, Zenon DEF Write
  <2> QED
    BY <2>1, ThreadFacts DEF Write, server
<1>2. frame[t].buf \in Content
  BY ThreadFacts DEF Frame
<1>3. \A f \in Profile : FileToken(f)' = CopyToken(t, f)
  BY <1>1 DEF FileToken, CopyToken
<1> QED
  BY <1>1, <1>2, <1>3, Returned, ThreadFacts, ThreadMoves

\* The server issues a token, and may give up the one that has expired.
LEMMA RefreshInv ==
  ASSUME IInv, NEW t \in Thread, Refresh(t)
  PROVE  IInv'
<1> DEFINE n == last + 1
<1>1. PICK void \in {{}, {frame[t].tok}} :
        /\ valid' = (valid \ void) \cup {last'}
        /\ spent' = [spent EXCEPT ![Owner[t]] = @ \cup void]
  BY DEF Refresh
<1>2. /\ frame[t].at = "source" /\ frame[t].tok \in expired \cap valid
      /\ last' = n
      /\ frame' = [frame EXCEPT ![t].at = "remember", ![t].tok = last']
      /\ UNCHANGED <<file, run, mem, expired, stored, logins, overlapped>>
  BY DEF Refresh
<1>3. /\ frame' \in [Thread -> Frame]
      /\ \A u \in Thread \ {t} : frame'[u] = frame[u]
      /\ frame'[t].at = "remember" /\ frame'[t].tok = n
      /\ frame'[t].cur = frame[t].cur /\ frame'[t].buf = frame[t].buf
  BY <1>2, ThreadFacts DEF Frame, Storing, Writing
<1>4. TypeOK'
  <2>1. valid' \subseteq 1 .. n /\ expired' \subseteq 1 .. n /\ mem' \in [Process -> 0 .. n] /\ n \in Nat
    BY <1>1, <1>2, ThreadFacts DEF TypeOK
  <2>2. spent' \in [Process -> SUBSET (1 .. n)]
    <3>1. void \subseteq 1 .. n /\ spent \in [Process -> SUBSET (1 .. n)]
      BY <1>1, <1>2, ThreadFacts DEF TypeOK
    <3> HIDE DEF n
    <3> QED
      BY <1>1, <3>1
  <2> QED
    BY <1>2, <1>3, <2>1, <2>2, ThreadFacts DEF TypeOK
<1>5. NotMixed' /\ FreshValid'
  <2>1. New = {n} /\ n \in valid' /\ expired' = expired
    BY <1>1, <1>2, ThreadFacts DEF New
  <2>2. valid \subseteq valid' \cup expired'
    BY <1>1, <1>2
  <2>3. \A f \in Profile : FileToken(f)' = FileToken(f)
    BY <1>2 DEF FileToken
  <2>4. \A u \in Thread, f \in Profile : CopyToken(u, f)' = CopyToken(u, f)
    BY <1>3 DEF CopyToken
  <2>5. \A u \in Thread : {frame'[u].cur, frame'[u].tok} \subseteq
           Held(ProfileOf(u)) \cup {None} \cup (IF ProfileOf(u) = ProfileOf(t) THEN New ELSE {})
    BY <1>3, <2>1, HeldTokens, ThreadFacts
  <2> HIDE DEF n
  <2> QED
    BY <1>2, <2>1, <2>2, <2>3, <2>4, <2>5, HeldTokens, ThreadFacts, TokensKept DEF n
<1>6. FrameInv' /\ StoringInv'
  <2>1. n \notin expired /\ frame[t].cur # n
    BY ThreadFacts, TokenBounds
  <2>2. FrameOf(t)' /\ StoringOf(t)'
    <3>1. /\ Kind(t) = "use" /\ MemOf(t) # None /\ Owner[t] \in Running /\ n # None
          /\ Kind(t)' = Kind(t) /\ MemOf(t)' = MemOf(t) /\ Running' = Running
      BY <1>2, ThreadFacts DEF FrameOf, Kind, Running, MemOf, Bearer, None
    <3> QED
      BY <1>2, <1>3, <2>1, <3>1 DEF FrameOf, StoringOf
  <2>3. \A u \in Thread \ {t} : FrameOf(u)' /\ StoringOf(u)'
    BY <1>2, <1>3, ThreadFacts, OthersKeep DEF FrameInv, StoringInv, MemOf
  <2> QED
    BY <2>2, <2>3 DEF FrameInv, StoringInv
<1> QED
  BY <1>4, <1>5, <1>6 DEF IInv

\* The new token replaces the one in memory.
LEMMA RememberInv ==
  ASSUME IInv, NEW t \in Thread, Remember(t)
  PROVE  IInv'
<1>1. /\ frame[t].at = "remember"
      /\ UNCHANGED <<file, run, valid, expired, last, stored, logins, overlapped, spent>>
  BY DEF Remember, server, history
<1>2. CASE frame[t].tok = frame[t].cur
  <2>1. Return(t) /\ mem' = mem
    BY <1>2 DEF Remember
  <2>2. \A f \in Profile : FileToken(f)' = FileToken(f)
    BY <1>1 DEF FileToken
  <2> QED
    BY <1>1, <2>1, <2>2, Returned, ThreadFacts, ThreadMoves
<1>3. CASE frame[t].tok # frame[t].cur
  <2> DEFINE p == Owner[t]
             n == frame[t].tok
  <2>1. /\ mem' = [mem EXCEPT ![p] = n]
        /\ frame' = [frame EXCEPT ![t].at = "read"]
    BY <1>3 DEF Remember, Goto
  <2>2. /\ frame' \in [Thread -> Frame]
        /\ \A u \in Thread \ {t} : frame'[u] = frame[u]
        /\ frame'[t].at = "read" /\ frame'[t].tok = frame[t].tok
        /\ frame'[t].cur = frame[t].cur /\ frame'[t].buf = frame[t].buf
    BY <2>1, ThreadFacts DEF Frame, Storing, Writing
  <2>3. /\ mem' \in [Process -> 0 .. last]
        /\ mem'[p] = n /\ \A q \in Process \ {p} : mem'[q] = mem[q]
    BY <2>1, ThreadFacts DEF TypeOK
  <2>4. TypeOK'
    BY <1>1, <2>2, <2>3, ThreadFacts DEF TypeOK
  <2>5. NotMixed' /\ FreshValid'
    <3>1. New = {}
      BY <1>1, ThreadFacts DEF New
    <3>2. \A f \in Profile : FileToken(f)' = FileToken(f)
      BY <1>1 DEF FileToken
    <3>3. \A u \in Thread, f \in Profile : CopyToken(u, f)' = CopyToken(u, f)
      BY <2>2 DEF CopyToken
    <3>4. \A u \in Thread : frame'[u].cur = frame[u].cur /\ frame'[u].tok = frame[u].tok
      BY <2>2
    <3>5. \A q \in Process : mem'[q] \in Held(Task[q].profile) \cup {None}
      BY <2>3, HeldTokens, ThreadFacts DEF ProfileOf
    <3> HIDE DEF p, n
    <3> QED
      BY <1>1, <3>1, <3>2, <3>3, <3>4, <3>5, HeldTokens, ThreadFacts, TokensKept
  <2>6. FrameInv'
    <3>1. n # None /\ Owner[t] \in Running /\ Kind(t) = "use"
      BY <1>1, ThreadFacts DEF FrameOf
    <3>2. \A u \in Thread : /\ MemOf(u)' \in {MemOf(u), n} /\ Kind(u)' = Kind(u)
                            /\ ProfileOf(u)' = ProfileOf(u)
      BY <2>3, HeldTokens, ThreadFacts DEF MemOf, Kind, ProfileOf
    <3>3. Running' = Running
      BY <1>1 DEF Running
    <3>4. FrameOf(t)'
      <4>1. MemOf(t)' = n
        BY <2>3 DEF MemOf
      <4> HIDE DEF n
      <4> QED
        BY <2>2, <3>1, <3>2, <3>3, <4>1 DEF FrameOf
    <3>5. ASSUME NEW u \in Thread \ {t} PROVE FrameOf(u)'
      <4>1. FrameOf(u) /\ frame'[u] = frame[u] /\ \A f \in Profile : CopyToken(u, f)' = CopyToken(u, f)
        BY <2>2, ThreadFacts DEF FrameInv, CopyToken
      <4>2. ProfileOf(u) \in Profile
        BY ThreadFacts
      <4>3. CopyToken(u, ProfileOf(u))' = CopyToken(u, ProfileOf(u))
        BY <4>1 DEF CopyToken, ProfileOf
      <4> HIDE DEF n
      <4> QED
        BY <3>1, <3>2, <3>3, <4>1, <4>2, <4>3 DEF FrameOf
    <3> QED
      BY <3>4, <3>5 DEF FrameInv
  <2>7. StoringInv'
    <3>1. n \notin expired
      BY <1>1, ThreadFacts DEF StoringOf
    <3>2. StoringOf(t)'
      BY <1>1, <2>2, <2>3, <3>1 DEF StoringOf, MemOf
    <3>3. ASSUME NEW u \in Thread \ {t} PROVE StoringOf(u)'
      <4>1. Owner[u] \in Process /\ MemOf(u)' \in {MemOf(u), n}
        BY <2>3, HeldTokens, ThreadFacts DEF MemOf
      <4>2. StoringOf(u) /\ frame'[u] = frame[u] /\ expired' = expired
        BY <1>1, <2>2, ThreadFacts DEF StoringInv
      <4>3. CopyToken(u, ProfileOf(u))' = CopyToken(u, ProfileOf(u))
        BY <4>2 DEF CopyToken, ProfileOf
      <4> HIDE DEF n
      <4> QED
        BY <3>1, <4>1, <4>2, <4>3 DEF StoringOf
    <3> QED
      BY <3>2, <3>3 DEF StoringInv
  <2> QED
    BY <2>4, <2>5, <2>6, <2>7 DEF IInv
<1> QED
  BY <1>2, <1>3

\* A token expires while no thread stores one.
LEMMA ExpireInv ==
  ASSUME IInv, NEW n \in 1 .. last, Expire(n)
  PROVE  IInv'
<1>1. /\ \A t \in Thread : frame[t].at \notin Storing
      /\ expired' = expired \cup {n}
      /\ UNCHANGED <<file, run, mem, frame, valid, last, stored, logins, overlapped, spent>>
  BY DEF Expire, history
<1>2. TypeOK /\ NotMixed /\ FreshValid /\ FrameInv
  BY DEF IInv
<1>3. TypeOK'
  BY <1>1, <1>2 DEF TypeOK
<1>4. NotMixed' /\ FreshValid'
  <2>1. \A f \in Profile : Held(f)' = Held(f)
    BY <1>1 DEF Held, FileToken, CopyToken, ProfileOf
  <2> QED
    BY <1>1, <1>2, <2>1 DEF NotMixed, FreshValid
<1>5. FrameInv'
  BY <1>1, <1>2 DEF FrameInv, FrameOf, CopyToken, Running, ProfileOf, Kind, MemOf
<1>6. StoringInv'
  BY <1>1 DEF StoringInv, StoringOf, Storing, Writing
<1> QED
  BY <1>3, <1>4, <1>5, <1>6 DEF IInv

\* A process starts, with a token of its profile or a new one.
LEMMA StartInv ==
  ASSUME IInv, NEW p \in Process, Start(p)
  PROVE  IInv'
<1> DEFINE F == Task[p].profile
           Begun == [Idle EXCEPT !.at = "read"]
<1>1. TypeOK /\ NotMixed /\ FreshValid /\ FrameInv /\ StoringInv
  BY DEF IInv
<1>2. /\ run[p] = "ready" /\ run' = [run EXCEPT ![p] = "running"]
      /\ frame' = [t \in Thread |-> IF Owner[t] = p /\ Kind(t) # "use" THEN Begun ELSE frame[t]]
      /\ UNCHANGED <<file, expired, stored, logins, overlapped, spent>>
  BY DEF Start, history
<1>3. F \in Profile /\ FileToken(F) \in Held(F) \cup {None}
  BY <1>1, HeldTokens
<1>4. PICK m : /\ mem' = [mem EXCEPT ![p] = m]
               /\ \/ last' = last /\ valid' = valid /\ m \in {None, FileToken(F)}
                  \/ last' = last + 1 /\ valid' = valid \cup {last'} /\ m = last'
               /\ Task[p].kind # "use" => m \in {None, last + 1}
               /\ Task[p].kind = "login" => m = last + 1
  <2>1. CASE Task[p].kind = "login"
    BY <2>1 DEF Start
  <2>2. CASE Task[p].kind # "login"
    BY <2>2 DEF Start, FileToken
  <2> QED
    BY <2>1, <2>2
<1>5. /\ Begun \in Frame /\ Begun.at = "read" /\ Begun.cur = None /\ Begun.tok = None
      /\ \A f \in Profile : OAuthOf(Begun.buf[f]) = None
  BY IdleType DEF Frame, Idle, Storing
<1> HIDE DEF Begun
<1>6. /\ frame' \in [Thread -> Frame]
      /\ \A t \in Thread : \/ frame'[t] = frame[t]
                           \/ frame'[t] = Begun /\ Owner[t] = p /\ Kind(t) # "use"
  BY <1>1, <1>2, <1>5 DEF TypeOK
<1>7. /\ run' \in [Process -> {"ready", "running", "gone"}]
      /\ Running' = Running \cup {p} /\ p \notin Running
  BY <1>1, <1>2 DEF TypeOK, Running
<1>8. last' \in {last, last + 1} /\ m \in Held(F) \cup {None} \cup New /\ New \subseteq valid'
  BY <1>1, <1>3, <1>4, TokenBounds DEF New
<1>9. TypeOK'
  <2>1. m \in 0 .. last'
    BY <1>1, <1>3, <1>4, TokenBounds DEF None
  <2>2. mem' \in [Process -> 0 .. last']
    BY <1>1, <1>4, <2>1, <1>8, TokenBounds DEF TypeOK
  <2>3. valid' \subseteq 1 .. last' /\ expired' \subseteq 1 .. last' /\ last' \in Nat
    BY <1>1, <1>2, <1>4 DEF TypeOK
  <2>4. spent' \in [Process -> SUBSET (1 .. last')]
    <3>1. 1 .. last \subseteq 1 .. last'
      BY <1>1, <1>8, TokenBounds
    <3> QED
      BY <1>1, <1>2, <3>1 DEF TypeOK
  <2> QED
    BY <1>1, <1>2, <1>6, <1>7, <2>2, <2>3, <2>4 DEF TypeOK
<1>10. NotMixed' /\ FreshValid'
  <2>1. \A f \in Profile : FileToken(f)' = FileToken(f)
    BY <1>2 DEF FileToken
  <2>2. \A t \in Thread, f \in Profile : CopyToken(t, f)' \in {CopyToken(t, f), None}
    BY <1>5, <1>6 DEF CopyToken
  <2>3. \A t \in Thread : frame'[t].cur \in {frame[t].cur, None} /\ frame'[t].tok \in {frame[t].tok, None}
    BY <1>5, <1>6
  <2>4. \A q \in Process : mem'[q] \in Held(Task[q].profile) \cup {None}
                                         \cup (IF Task[q].profile = F THEN New ELSE {})
    <3>1. \A q \in Process : mem'[q] = IF q = p THEN m ELSE mem[q]
      BY <1>1, <1>4 DEF TypeOK
    <3> QED
      BY <1>1, <1>8, <3>1, HeldTokens
  <2>5. expired' = expired /\ valid \subseteq valid'
    BY <1>2, <1>4
  <2> HIDE DEF F
  <2> QED
    BY <1>1, <1>3, <1>8, <2>1, <2>2, <2>3, <2>4, <2>5, HeldTokens, TokensKept
<1>11. FrameInv'
  <2> SUFFICES ASSUME NEW t \in Thread PROVE FrameOf(t)'
    BY DEF FrameInv
  <2>1. CASE frame'[t] = frame[t]
    <3>1. CASE frame[t].at = "idle"
      BY <1>1, <2>1, <3>1 DEF FrameInv, FrameOf
    <3>2. CASE frame[t].at # "idle"
      <4>1. Owner[t] \in Process \ {p}
        BY <1>1, <1>7, <3>2, HeldTokens DEF FrameInv, FrameOf
      <4>2. MemOf(t)' = MemOf(t)
        BY <1>1, <1>4, <4>1 DEF MemOf, TypeOK
      <4> QED
        BY <1>1, <1>7, <2>1, <4>2 DEF FrameInv, FrameOf, CopyToken, ProfileOf, Kind
    <3> QED
      BY <3>1, <3>2
  <2>2. CASE frame'[t] = Begun /\ Owner[t] = p /\ Kind(t) # "use"
    <3>1. MemOf(t)' = m
      BY <1>1, <1>4, <2>2 DEF MemOf, TypeOK
    <3>2. Kind(t) \in Bearer => m # None
      BY <1>1, <1>4, <2>2, TokenBounds DEF Kind, None, Bearer
    <3> QED
      BY <1>5, <1>7, <2>2, <3>1, <3>2 DEF FrameOf, Kind
  <2> QED
    BY <1>6, <2>1, <2>2
<1>12. StoringInv'
  <2> SUFFICES ASSUME NEW t \in Thread PROVE StoringOf(t)'
    BY DEF StoringInv
  <2>1. CASE frame'[t] = frame[t] /\ frame[t].at # "idle"
    <3>1. Owner[t] \in Process \ {p}
      BY <1>1, <1>7, <2>1, HeldTokens DEF FrameInv, FrameOf
    <3>2. MemOf(t)' = MemOf(t)
      BY <1>1, <1>4, <3>1 DEF MemOf, TypeOK
    <3> QED
      BY <1>1, <1>2, <2>1, <3>2 DEF StoringInv, StoringOf, CopyToken, ProfileOf
  <2>2. CASE frame'[t] = frame[t] /\ frame[t].at = "idle"
    BY <2>2 DEF StoringOf
  <2>3. CASE frame'[t] = Begun /\ Owner[t] = p /\ Kind(t) # "use"
    <3>1. MemOf(t)' = m
      BY <1>1, <1>4, <2>3 DEF MemOf, TypeOK
    <3>2. m \in {None, last + 1}
      BY <1>4, <2>3 DEF Kind
    <3>3. m \notin expired'
      BY <1>1, <1>2, <3>2, TokenBounds
    <3> QED
      BY <1>5, <2>3, <3>1, <3>3 DEF StoringOf
  <2> QED
    BY <1>6, <2>1, <2>2, <2>3
<1> QED
  BY <1>9, <1>10, <1>11, <1>12 DEF IInv

\* A process ends by itself or is killed; its memory is gone.
LEMMA EndInv ==
  ASSUME IInv, NEW p \in Process, Exit(p) \/ Kill(p)
  PROVE  IInv'
<1>1. TypeOK /\ NotMixed /\ FreshValid /\ FrameInv /\ StoringInv
  BY DEF IInv
<1>2. /\ run' = [run EXCEPT ![p] = "gone"] /\ mem' = [mem EXCEPT ![p] = None]
      /\ UNCHANGED <<file, valid, expired, last, stored, overlapped, spent>>
  BY DEF Exit, Kill, server, history
<1>3. \A t \in Thread : frame'[t] = IF Owner[t] = p THEN Idle ELSE frame[t]
  <2>1. CASE Exit(p)
    BY <2>1 DEF Exit, ThreadsOf
  <2>2. CASE Kill(p)
    BY <2>2 DEF Kill
  <2> QED
    BY <2>1, <2>2
<1>4. frame' \in [Thread -> Frame]
  <2>1. CASE Exit(p)
    BY <1>1, <2>1 DEF Exit, TypeOK
  <2>2. CASE Kill(p)
    BY <1>1, <2>2, IdleType DEF Kill, TypeOK
  <2> QED
    BY <2>1, <2>2
<1>5. logins' \subseteq logins
  BY DEF Exit, Kill, history
<1>6. /\ mem' \in [Process -> 0 .. last]
      /\ mem'[p] = None /\ \A q \in Process \ {p} : mem'[q] = mem[q]
  BY <1>1, <1>2 DEF TypeOK, None
<1>7. TypeOK'
  BY <1>1, <1>2, <1>4, <1>5, <1>6 DEF TypeOK
<1>8. Running' = Running \ {p}
  BY <1>1, <1>2 DEF TypeOK, Running
<1>9. NotMixed' /\ FreshValid'
  <2>1. New = {} /\ expired' = expired /\ valid' = valid /\ last' = last
    BY <1>1, <1>2, TokenBounds DEF New
  <2>2. \A f \in Profile : FileToken(f)' = FileToken(f)
    BY <1>2 DEF FileToken
  <2>3. \A t \in Thread, f \in Profile : CopyToken(t, f)' \in {CopyToken(t, f), None}
    BY <1>3, IdleType DEF CopyToken
  <2>4. \A t \in Thread : frame'[t].cur \in {frame[t].cur, None} /\ frame'[t].tok \in {frame[t].tok, None}
    BY <1>3, IdleType
  <2>5. \A q \in Process : mem'[q] \in {mem[q], None}
    BY <1>6
  <2>6. Task[p].profile \in Profile
    BY <1>1, HeldTokens
  <2> QED
    BY <1>1, <2>1, <2>2, <2>3, <2>4, <2>5, <2>6, HeldTokens, TokensKept
<1>10. ASSUME NEW t \in Thread PROVE FrameOf(t)' /\ StoringOf(t)'
  <2>1. CASE Owner[t] = p
    BY <1>3, <2>1, IdleType DEF FrameOf, StoringOf
  <2>2. CASE Owner[t] # p
    <3>1. MemOf(t)' = MemOf(t) /\ frame'[t] = frame[t]
      BY <1>1, <1>3, <1>6, <2>2, HeldTokens DEF MemOf
    <3>2. FrameOf(t)'
      BY <1>1, <1>8, <2>2, <3>1 DEF FrameInv, FrameOf, CopyToken, ProfileOf, Kind
    <3>3. StoringOf(t)'
      BY <1>1, <1>2, <3>1 DEF StoringInv, StoringOf, CopyToken, ProfileOf
    <3> QED
      BY <3>2, <3>3
  <2> QED
    BY <2>1, <2>2
<1>11. FrameInv' /\ StoringInv'
  BY <1>10 DEF FrameInv, StoringInv
<1> QED
  BY <1>7, <1>9, <1>11 DEF IInv

\* Nothing happens.
LEMMA StutterIInv ==
  ASSUME IInv, UNCHANGED vars
  PROVE  IInv'
<1>1. TypeOK'
  BY DEF IInv, TypeOK, vars
<1>2. \A f \in Profile : Held(f)' = Held(f)
  BY DEF Held, FileToken, CopyToken, ProfileOf, vars
<1>3. NotMixed' /\ FreshValid'
  BY <1>2 DEF IInv, NotMixed, FreshValid, vars
<1>4. FrameInv' /\ StoringInv'
  BY OthersKeep DEF IInv, FrameInv, StoringInv, MemOf, vars
<1> QED
  BY <1>1, <1>3, <1>4 DEF IInv

\* Every step of every process keeps the invariant, whatever runs beside it.
LEMMA StepIInv == IInv /\ [Next]_vars => IInv'
<1> SUFFICES ASSUME IInv, [Next]_vars PROVE IInv'
  OBVIOUS
<1>1. CASE UNCHANGED vars
  BY <1>1, StutterIInv
<1>2. ASSUME NEW p \in Process, Start(p) \/ Exit(p) \/ Kill(p) PROVE IInv'
  BY <1>2, StartInv, EndInv
<1>3. ASSUME NEW t \in Thread,
             \/ Ask(t) \/ NewTokenSource(t) \/ Reuse(t) \/ Refresh(t) \/ RefreshFails(t)
             \/ Remember(t) \/ Read(t) \/ Truncate(t) \/ Write(t) \/ StoreFails(t)
      PROVE IInv'
  BY <1>3, AskInv, NewTokenSourceInv, ReuseInv, RefreshInv, RefreshFailsInv, RememberInv, ReadInv, TruncateInv,
     WriteInv, StoreFailsInv
<1>4. ASSUME NEW n \in 1 .. last, Expire(n) PROVE IInv'
  BY <1>4, ExpireInv
<1> QED
  BY <1>1, <1>2, <1>3, <1>4 DEF Next

\* Whatever runs at once, whatever fails or is killed: tokens stay with their
\* profiles, and what has not expired is valid.
THEOREM Invariance == Spec => []IInv
<1>1. Init => IInv
  BY InitIInv
<1>2. IInv /\ [Next]_vars => IInv'
  BY StepIInv
<1> QED
  BY <1>1, <1>2, PTL DEF Spec

\* Every variable keeps its type.
THEOREM TypeCorrect == Spec => []TypeOK
<1>1. IInv => TypeOK
  BY DEF IInv
<1> QED
  BY <1>1, Invariance, PTL

\* The file and the processes never hold one token for two profiles: getToken
\* stores a new one only where the old one was.
THEOREM TokensStayApart == Spec => []NotMixed
<1>1. IInv => NotMixed
  BY DEF IInv
<1> QED
  BY <1>1, Invariance, PTL
-----------------------------------------------------------------------------
(* Steps of a thread. *)

ThreadStep(t) ==
  \/ Ask(t) \/ NewTokenSource(t) \/ Reuse(t) \/ Refresh(t) \/ RefreshFails(t) \/ Remember(t)
  \/ Read(t) \/ Truncate(t) \/ Write(t) \/ StoreFails(t)

\* What each of them changes, for the arguments below.
LEMMA ThreadStepEffect ==
  ASSUME IInv, NEW t \in Thread, ThreadStep(t)
  PROVE  /\ \A u \in Thread \ {t} : frame'[u] = frame[u]
         /\ Owner[t] \in Running /\ run' = run
         /\ valid \ {frame[t].tok} \subseteq valid'
         /\ frame[t].at # "source" => UNCHANGED <<valid, spent>>
         /\ frame[t].at # "remember" => mem' = mem
         /\ expired' = expired
<1>1. Owner[t] \in Running
  <2>1. frame[t].at # "idle" => Owner[t] \in Running
    BY ThreadFacts DEF FrameOf
  <2>2. Ask(t) \/ frame[t].at # "idle"
    BY DEF ThreadStep, NewTokenSource, Reuse, Refresh, RefreshFails, Remember, Read, Truncate,
           Write, StoreFails, Writing
  <2> QED
    BY <2>1, <2>2 DEF Ask
<1>2. CASE Ask(t) \/ NewTokenSource(t) \/ Reuse(t)
  BY <1>1, <1>2, ThreadFacts DEF Ask, NewTokenSource, Reuse, Goto, server, history
<1>3. CASE Refresh(t)
  BY <1>1, <1>3, ThreadFacts DEF Refresh
<1>4. CASE RefreshFails(t)
  BY <1>1, <1>4, ThreadFacts DEF RefreshFails, Return
<1>5. CASE Remember(t)
  BY <1>1, <1>5, ThreadFacts DEF Remember, Return, Goto, server, history
<1>6. CASE Read(t)
  BY <1>1, <1>6, ThreadFacts DEF Read, Return, server
<1>7. CASE Truncate(t)
  BY <1>1, <1>7, ThreadFacts DEF Truncate, server, history
<1>8. CASE Write(t) \/ StoreFails(t)
  BY <1>1, <1>8, ThreadFacts DEF Write, StoreFails, Return, server
<1> QED
  BY <1>2, <1>3, <1>4, <1>5, <1>6, <1>7, <1>8 DEF ThreadStep

\* A token that has not expired is valid.
LEMMA FreshIsValid ==
  ASSUME IInv, NEW f \in Profile, NEW n \in Held(f) \cup {None}, n \notin expired, n # None
  PROVE  n \in valid
BY DEF IInv, FreshValid

\* So is a token that is remembered or written.
LEMMA StoringIsValid ==
  ASSUME IInv, NEW t \in Thread
  PROVE  /\ frame[t].at = "remember" => frame[t].tok \in valid
         /\ frame[t].at = "write" /\ Kind(t) \in Bearer => CopyToken(t, ProfileOf(t)) \in valid
BY ThreadFacts, FreshIsValid DEF StoringOf, FrameOf
-----------------------------------------------------------------------------
(* A process is not locked out. *)

\* A token that can be refreshed is about to be remembered.
Relief(p) ==
  \E t \in ThreadsOf(p) :
    frame[t].at = "remember" /\ frame[t].tok # frame[t].cur /\ frame[t].tok \in valid

\* What is spent stays void: the server never issues a token twice.
LEMMA SpentStep ==
  ASSUME IInv, SpentInv, [Next]_vars
  PROVE  SpentInv'
<1>0. TypeOK /\ spent \in [Process -> SUBSET (1 .. last)] /\ last + 1 \notin 1 .. last
  BY DEF IInv, TypeOK
<1>1. CASE UNCHANGED <<valid, spent, run>>
  BY <1>1 DEF SpentInv
<1>2. CASE UNCHANGED vars
  BY <1>1, <1>2 DEF vars
<1>3. ASSUME NEW p \in Process, Start(p) PROVE SpentInv'
  <2>1. /\ spent' = spent /\ run' = [run EXCEPT ![p] = "running"]
        /\ valid' \subseteq valid \cup {last + 1}
    BY <1>3 DEF Start, history
  <2>2. run \in [Process -> {"ready", "running", "gone"}]
    BY <1>0 DEF TypeOK
  <2> QED
    BY <1>0, <2>1, <2>2 DEF SpentInv
<1>4. ASSUME NEW p \in Process, Exit(p) \/ Kill(p) PROVE SpentInv'
  <2>1. /\ spent' = spent /\ run' = [run EXCEPT ![p] = "gone"] /\ valid' = valid
    BY <1>4 DEF Exit, Kill, server, history
  <2>2. run \in [Process -> {"ready", "running", "gone"}]
    BY <1>0 DEF TypeOK
  <2> QED
    BY <1>0, <2>1, <2>2 DEF SpentInv
<1>5. ASSUME NEW t \in Thread, Refresh(t) PROVE SpentInv'
  <2>1. PICK void \in {{}, {frame[t].tok}} :
          /\ valid' = (valid \ void) \cup {last + 1}
          /\ spent' = [spent EXCEPT ![Owner[t]] = @ \cup void]
    BY <1>5 DEF Refresh
  <2>2. void \subseteq valid /\ valid \subseteq 1 .. last /\ run' = run
    BY <1>0, <1>5, <2>1 DEF Refresh, TypeOK
  <2>3. run[Owner[t]] = "running"
    BY <1>5, ThreadStepEffect DEF ThreadStep, Running
  <2> SUFFICES ASSUME NEW p \in Process
               PROVE  spent'[p] \cap valid' = {} /\ (run[p] = "ready" => spent'[p] = {})
    BY <2>2 DEF SpentInv
  <2>4. spent[p] \subseteq 1 .. last /\ spent[p] \cap valid = {}
    BY <1>0 DEF SpentInv
  <2>5. CASE p = Owner[t]
    BY <1>0, <2>1, <2>2, <2>3, <2>4, <2>5
  <2>6. CASE p # Owner[t]
    BY <1>0, <2>1, <2>2, <2>4, <2>6 DEF SpentInv
  <2> QED
    BY <2>5, <2>6
<1>6. ASSUME NEW t \in Thread, RefreshFails(t) PROVE SpentInv'
  <2>1. valid' \subseteq valid /\ UNCHANGED <<spent, run>>
    BY <1>6 DEF RefreshFails
  <2> QED
    BY <2>1 DEF SpentInv
<1>7. ASSUME NEW t \in Thread, ThreadStep(t), ~ Refresh(t), ~ RefreshFails(t) PROVE SpentInv'
  <2>1. UNCHANGED <<valid, spent, run>>
    BY <1>7 DEF ThreadStep, Ask, NewTokenSource, Reuse, Remember, Read, Truncate, Write, StoreFails,
                server, history
  <2> QED
    BY <1>1, <2>1
<1>8. ASSUME NEW n \in 1 .. last, Expire(n) PROVE SpentInv'
  BY <1>1, <1>8 DEF Expire, history
<1> QED
  BY <1>2, <1>3, <1>4, <1>5, <1>6, <1>7, <1>8 DEF Next, ThreadStep

\* A token about to be remembered has not expired, so that no refresh voids it.
LEMMA ReliefStays ==
  ASSUME IInv, NEW p \in Process, Relief(p), NEW t \in Thread, ThreadStep(t),
         ~ (Remember(t) /\ Owner[t] = p)
  PROVE  Relief(p)'
<1>1. PICK u \in ThreadsOf(p) :
        frame[u].at = "remember" /\ frame[u].tok # frame[u].cur /\ frame[u].tok \in valid
  BY DEF Relief
<1>2. u \in Thread /\ Owner[u] = p
  BY DEF ThreadsOf
<1>3. u # t
  BY <1>1, <1>2, IdleType
     DEF ThreadStep, Ask, NewTokenSource, Reuse, Refresh, RefreshFails, Remember, Read, Truncate,
         Write, StoreFails, Writing
<1>4. frame'[u] = frame[u]
  BY <1>2, <1>3, ThreadStepEffect
<1>5. frame[u].tok \in valid'
  <2>1. frame[u].tok \notin expired
    BY <1>1, <1>2, ThreadFacts DEF StoringOf
  <2>2. CASE Refresh(t) \/ RefreshFails(t)
    <3>1. frame[t].tok \in expired
      BY <2>2 DEF Refresh, RefreshFails
    <3> QED
      BY <1>1, <2>1, <3>1, ThreadStepEffect
  <2>3. CASE ~ Refresh(t) /\ ~ RefreshFails(t)
    <3>1. valid' = valid
      BY <2>3 DEF ThreadStep, Ask, NewTokenSource, Reuse, Remember, Read, Truncate, Write, StoreFails,
                  server
    <3> QED
      BY <1>1, <3>1
  <2> QED
    BY <2>2, <2>3
<1> QED
  BY <1>1, <1>2, <1>4, <1>5 DEF Relief, ThreadsOf

\* The tokens in memory, for the steps of threads.
LEMMA MemoryThread ==
  ASSUME IInv, SpentInv, MemoryUsable, NEW t \in Thread, ThreadStep(t),
         NEW p \in Running, mem'[p] \in spent'[p]
  PROVE  Relief(p)'
<1> DEFINE q == Owner[t]
<1>0. /\ p \in Process /\ q \in Process /\ mem \in [Process -> 0 .. last]
      /\ spent \in [Process -> SUBSET (1 .. last)] /\ frame \in [Thread -> Frame]
  BY ThreadFacts DEF Running, TypeOK
<1>1. mem[p] \in spent[p] => Relief(p)
  BY DEF MemoryUsable, Relief
<1>2. CASE Refresh(t)
  <2>1. PICK void \in {{}, {frame[t].tok}} : spent' = [spent EXCEPT ![q] = @ \cup void]
    BY <1>2 DEF Refresh
  <2>2. mem' = mem
    BY <1>2 DEF Refresh
  <2>3. CASE p = q
    <3>1. /\ frame' = [frame EXCEPT ![t].at = "remember", ![t].tok = last']
          /\ last' = last + 1 /\ last' \in valid'
      BY <1>2 DEF Refresh
    <3>2. frame[t].cur # last + 1
      BY ThreadFacts
    <3>3. frame'[t].at = "remember" /\ frame'[t].tok = last' /\ frame'[t].cur = frame[t].cur
      BY <1>0, <3>1 DEF Frame
    <3> QED
      BY <2>3, <3>1, <3>2, <3>3 DEF Relief, ThreadsOf
  <2>4. CASE p # q
    <3>1. mem[p] \in spent[p]
      BY <1>0, <2>1, <2>2, <2>4
    <3> QED
      BY <1>0, <1>1, <2>4, <3>1, ReliefStays
  <2> QED
    BY <2>3, <2>4
<1>3. CASE Remember(t)
  <2>1. frame[t].at = "remember" /\ spent' = spent /\ valid' = valid
    BY <1>3 DEF Remember, server, history
  <2>2. CASE frame[t].tok # frame[t].cur
    <3>1. mem' = [mem EXCEPT ![q] = frame[t].tok]
      BY <1>3, <2>2 DEF Remember
    <3>2. frame[t].tok \in valid
      BY <2>1, StoringIsValid
    <3>3. p # q
      <4> SUFFICES ASSUME p = q PROVE FALSE
        OBVIOUS
      <4>1. mem'[p] = frame[t].tok
        BY <1>0, <3>1
      <4> QED
        BY <1>0, <2>1, <3>2, <4>1 DEF SpentInv
    <3>4. mem[p] \in spent[p]
      BY <1>0, <2>1, <3>1, <3>3
    <3> QED
      BY <1>0, <1>1, <3>3, <3>4, ReliefStays
  <2>3. CASE frame[t].tok = frame[t].cur
    <3>1. mem' = mem /\ Return(t)
      BY <1>3, <2>3 DEF Remember
    <3>2. PICK u \in ThreadsOf(p) :
            frame[u].at = "remember" /\ frame[u].tok # frame[u].cur /\ frame[u].tok \in valid
      BY <1>1, <2>1, <3>1 DEF Relief
    <3>3. u \in Thread /\ u # t
      BY <2>3, <3>2 DEF ThreadsOf
    <3>4. frame'[u] = frame[u]
      BY <3>3, ThreadStepEffect
    <3> QED
      BY <2>1, <3>2, <3>4 DEF Relief, ThreadsOf
  <2> QED
    BY <2>2, <2>3
<1>4. CASE ~ Refresh(t) /\ ~ Remember(t)
  <2>1. mem' = mem /\ spent' = spent
    BY <1>4 DEF ThreadStep, Ask, NewTokenSource, Reuse, RefreshFails, Read, Truncate, Write,
                StoreFails, history
  <2> QED
    BY <1>0, <1>1, <1>4, <2>1, ReliefStays
<1> QED
  BY <1>2, <1>3, <1>4

\* The tokens in memory, for every step.
LEMMA MemoryStep ==
  ASSUME IInv, SpentInv, MemoryUsable, [Next]_vars
  PROVE  MemoryUsable'
<1>0. /\ MemoryUsable <=> \A p \in Running : mem[p] \in spent[p] => Relief(p)
      /\ MemoryUsable' <=> \A p \in Running' : mem'[p] \in spent'[p] => Relief(p)'
  BY DEF MemoryUsable, Relief
<1>1. CASE UNCHANGED vars
  BY <1>1 DEF MemoryUsable, Running, ThreadsOf, vars
<1>2. ASSUME NEW p \in Process, Start(p) PROVE MemoryUsable'
  <2>1. /\ run' = [run EXCEPT ![p] = "running"] /\ spent' = spent /\ spent[p] = {}
        /\ run \in [Process -> {"ready", "running", "gone"}] /\ mem \in [Process -> 0 .. last]
        /\ frame \in [Thread -> Frame] /\ valid \subseteq valid'
    BY <1>2 DEF Start, history, SpentInv, IInv, TypeOK
  <2>2. \A q \in Process \ {p} : mem'[q] = mem[q]
    BY <1>2, <2>1 DEF Start
  <2>3. \A t \in Thread : Owner[t] # p => frame'[t] = frame[t]
    BY <1>2 DEF Start
  <2>4. Running' = Running \cup {p}
    BY <2>1 DEF Running
  <2> SUFFICES ASSUME NEW q \in Running', mem'[q] \in spent'[q] PROVE Relief(q)'
    BY <1>0
  <2>5. q \in Running \ {p} /\ mem[q] \in spent[q]
    BY <2>1, <2>2, <2>4 DEF Running
  <2>6. Relief(q)
    BY <1>0, <2>5
  <2> QED
    BY <2>1, <2>3, <2>5, <2>6 DEF Relief, ThreadsOf
<1>3. ASSUME NEW p \in Process, Exit(p) \/ Kill(p) PROVE MemoryUsable'
  <2>1. /\ run' = [run EXCEPT ![p] = "gone"] /\ UNCHANGED <<spent, valid>>
        /\ run \in [Process -> {"ready", "running", "gone"}] /\ mem \in [Process -> 0 .. last]
        /\ mem' = [mem EXCEPT ![p] = None]
    BY <1>3 DEF Exit, Kill, server, history, IInv, TypeOK
  <2>2. \A t \in Thread : Owner[t] # p => frame'[t] = frame[t]
    BY <1>3 DEF Exit, Kill
  <2>3. Running' = Running \ {p}
    BY <2>1 DEF Running
  <2> SUFFICES ASSUME NEW q \in Running', mem'[q] \in spent'[q] PROVE Relief(q)'
    BY <1>0
  <2>4. q \in Running \ {p} /\ mem[q] \in spent[q]
    BY <2>1, <2>3 DEF Running
  <2>5. Relief(q)
    BY <1>0, <2>4
  <2> QED
    BY <2>1, <2>2, <2>4, <2>5 DEF Relief, ThreadsOf
<1>4. ASSUME NEW t \in Thread, ThreadStep(t) PROVE MemoryUsable'
  <2>1. Running' = Running
    BY <1>4, ThreadStepEffect DEF Running
  <2> QED
    BY <1>0, <1>4, <2>1, MemoryThread
<1>5. ASSUME NEW n \in 1 .. last, Expire(n) PROVE MemoryUsable'
  BY <1>5 DEF Expire, MemoryUsable, Running, ThreadsOf, history
<1> QED
  BY <1>1, <1>2, <1>3, <1>4, <1>5 DEF Next, ThreadStep

\* A process never locks itself out, whatever its requests and other processes
\* do: a token that it has voided is about to be replaced.
THEOREM MemoryStaysUsable == Spec => []MemoryUsable
<1>1. Init => SpentInv /\ MemoryUsable
  <2> SUFFICES ASSUME Init PROVE SpentInv /\ MemoryUsable
    OBVIOUS
  <2>1. Running = {} /\ \A p \in Process : spent[p] = {}
    BY DEF Init, Running
  <2> QED
    BY <2>1 DEF SpentInv, MemoryUsable
<1>2. IInv /\ SpentInv /\ MemoryUsable /\ [Next]_vars => SpentInv' /\ MemoryUsable'
  BY SpentStep, MemoryStep
<1> QED
  BY <1>1, <1>2, Invariance, PTL DEF Spec
-----------------------------------------------------------------------------
(* The file keeps the logins. *)

\* Who is in the middle of writing is there by reading the file.
LEMMA WritingEffect ==
  ASSUME IInv, NEW t \in Thread, ThreadStep(t)
  PROVE  /\ frame'[t].at \in Writing => Read(t) \/ Truncate(t)
         /\ frame'[t].at = "write" <=> Truncate(t)
         /\ Truncate(t) => frame[t].at = "truncate"
         /\ frame[t].at = "write" <=> Write(t) \/ (StoreFails(t) /\ frame[t].at = "write")
         /\ Write(t) \/ StoreFails(t) \/ file' = file \/ Truncate(t)
         /\ StoreFails(t) => file' = file
         /\ ~ Read(t) => overlapped' = overlapped
<1>1. frame \in [Thread -> Frame]
  BY ThreadFacts
<1>2. Return(t) => frame'[t].at = "idle"
  BY <1>1, IdleType DEF Return
<1>3. CASE Ask(t) \/ NewTokenSource(t) \/ Reuse(t) \/ Refresh(t)
  <2>1. frame'[t].at \in {"ask", "source", "remember"}
    BY <1>1, <1>3 DEF Ask, NewTokenSource, Reuse, Refresh, Goto, Frame
  <2>2. frame[t].at \in {"idle", "ask", "source"} /\ file' = file /\ overlapped' = overlapped
    BY <1>3, IdleType DEF Ask, NewTokenSource, Reuse, Refresh, history
  <2> QED
    BY <2>1, <2>2 DEF Writing, Truncate, Write
<1>4. CASE Remember(t)
  <2>1. frame'[t].at \in {"idle", "read"}
    BY <1>1, <1>2, <1>4 DEF Remember, Goto, Frame
  <2>2. frame[t].at = "remember" /\ file' = file /\ overlapped' = overlapped
    BY <1>4 DEF Remember, history
  <2> QED
    BY <2>1, <2>2 DEF Writing, Truncate, Write
<1>5. CASE RefreshFails(t)
  BY <1>2, <1>5 DEF RefreshFails, Writing, Truncate, Write
<1>6. CASE Read(t)
  <2>1. frame'[t].at \in {"idle", "truncate"}
    BY <1>1, <1>2, <1>6 DEF Read, Frame
  <2>2. frame[t].at = "read" /\ file' = file
    BY <1>6 DEF Read
  <2> QED
    BY <1>6, <2>1, <2>2 DEF Truncate, Write
<1>7. CASE Truncate(t)
  <2>1. frame'[t].at = "write"
    BY <1>1, <1>7 DEF Truncate, Frame
  <2>2. frame[t].at = "truncate" /\ overlapped' = overlapped
    BY <1>7 DEF Truncate, history
  <2> QED
    BY <1>7, <2>1, <2>2 DEF Write, StoreFails, Read
<1>8. CASE Write(t)
  <2>1. frame'[t].at = "idle" /\ frame[t].at = "write" /\ overlapped' = overlapped
    BY <1>2, <1>8 DEF Write
  <2> QED
    BY <1>8, <2>1 DEF Writing, Truncate, Read, StoreFails
<1>9. CASE StoreFails(t)
  <2>1. frame'[t].at = "idle" /\ file' = file /\ overlapped' = overlapped
    BY <1>2, <1>9 DEF StoreFails
  <2>2. ~ Truncate(t)
    <3>1. Truncate(t) => frame'[t].at = "write"
      BY <1>1 DEF Truncate, Frame
    <3> QED
      BY <2>1, <3>1
  <2> QED
    BY <1>9, <2>1, <2>2 DEF Writing, Write
<1> QED
  BY <1>3, <1>4, <1>5, <1>6, <1>7, <1>8, <1>9 DEF ThreadStep

\* A thread with a new token to store goes on to store it, or its profile is
\* logged in no longer.
LEMMA RenewsStays ==
  ASSUME IInv, NEW t \in Thread, ThreadStep(t), Renews(t), ~ Write(t), ProfileOf(t) \in logins'
  PROVE  Renews(t)'
<1>1. Kind(t) = "use" /\ Kind(t)' = "use" /\ frame \in [Thread -> Frame]
  BY ThreadFacts DEF Renews, Kind
<1>2. frame[t].at \in {"remember", "read", "truncate", "write"}
  BY DEF Renews, Writing
<1>3. CASE Remember(t)
  <2>1. frame[t].tok # frame[t].cur
    BY <1>3 DEF Renews, Remember, Writing
  <2>2. frame'[t].at = "read"
    BY <1>1, <1>3, <2>1 DEF Remember, Goto, Frame
  <2> QED
    BY <1>1, <2>2 DEF Renews
<1>4. CASE Read(t)
  <2>1. frame' = [frame EXCEPT ![t].at = "truncate", ![t].buf = file]
    BY <1>1, <1>4 DEF Read, NotFound, Setting
  <2>2. frame'[t].at = "truncate"
    BY <1>1, <2>1 DEF Frame
  <2> QED
    BY <1>1, <2>2 DEF Renews, Writing
<1>5. CASE Truncate(t)
  <2>1. frame'[t].at = "write"
    BY <1>5, WritingEffect
  <2> QED
    BY <1>1, <2>1 DEF Renews, Writing
<1>6. CASE StoreFails(t)
  <2>1. ProfileOf(t) \in Lost({t})
    BY ThreadFacts DEF Lost
  <2> QED
    BY <1>6, <2>1 DEF StoreFails
<1>7. ~ (Ask(t) \/ NewTokenSource(t) \/ Reuse(t) \/ Refresh(t) \/ RefreshFails(t))
  BY <1>2, IdleType DEF Ask, NewTokenSource, Reuse, Refresh, RefreshFails
<1> QED
  BY <1>3, <1>4, <1>5, <1>6, <1>7 DEF ThreadStep

\* A login stays good for, whatever a thread does, but for the write that puts
\* another token in the place of this one.
LEMMA KeptStays ==
  ASSUME IInv, NEW t \in Thread, ThreadStep(t), NEW f \in Profile \cap logins',
         NEW n \in Held(f) \cup {None}, Kept(f, n), ~ (Write(t) /\ f = ProfileOf(t))
  PROVE  Kept(f, n)'
<1>1. CASE \E u \in Thread : ProfileOf(u) = f /\ Renews(u)
  <2>1. PICK u \in Thread : ProfileOf(u) = f /\ Renews(u)
    BY <1>1
  <2>2. Renews(u)'
    <3>1. CASE u = t
      BY <2>1, <3>1, RenewsStays
    <3>2. CASE u # t
      <4>1. frame'[u] = frame[u]
        BY <3>2, ThreadStepEffect
      <4> QED
        BY <2>1, <4>1 DEF Renews, Kind
    <3> QED
      BY <3>1, <3>2
  <2> QED
    BY <2>1, <2>2 DEF Kept, ProfileOf
<1>2. CASE n \in valid /\ n \in valid'
  BY <1>2 DEF Kept
<1>3. CASE n \in valid /\ n \notin valid'
  <2>1. n = frame[t].tok
    BY <1>3, ThreadStepEffect
  <2>2. n # None
    BY <1>3, TokenBounds DEF IInv
  <2>3. n \in Held(f) /\ n \in Held(ProfileOf(t))
    BY <2>1, <2>2, ThreadFacts
  <2>4. f = ProfileOf(t)
    BY <2>3, ThreadFacts DEF NotMixed
  <2>5. CASE Refresh(t)
    <3>1. /\ frame' = [frame EXCEPT ![t].at = "remember", ![t].tok = last']
          /\ last' = last + 1 /\ frame[t].at = "source"
      BY <2>5 DEF Refresh
    <3>2. /\ frame'[t].at = "remember" /\ frame'[t].tok = last + 1
          /\ frame'[t].cur = frame[t].cur /\ frame[t].cur # last + 1
      BY <3>1, ThreadFacts DEF Frame
    <3>3. Renews(t)'
      BY <3>1, <3>2, ThreadFacts DEF Renews, Kind, FrameOf
    <3> QED
      BY <2>4, <3>3 DEF Kept, ProfileOf
  <2>6. CASE RefreshFails(t)
    BY <1>3, <2>4, <2>6 DEF RefreshFails
  <2>7. CASE ~ Refresh(t) /\ ~ RefreshFails(t)
    <3>1. valid' = valid
      BY <2>7 DEF ThreadStep, Ask, NewTokenSource, Reuse, Remember, Read, Truncate, Write, StoreFails,
                  server
    <3> QED
      BY <1>3, <3>1
  <2> QED
    BY <2>5, <2>6, <2>7
<1> QED
  BY <1>1, <1>2, <1>3 DEF Kept

\* Logins only end, but for the one that a write makes.
LEMMA LoginsEffect ==
  ASSUME IInv, NEW t \in Thread, ThreadStep(t)
  PROVE  /\ ~ Write(t) => logins' \subseteq logins
         /\ Write(t) => /\ Kind(t) \in Setting => logins' = {}
                        /\ logins' \subseteq logins \cup {ProfileOf(t)}
                        /\ ProfileOf(t) \in logins' => Kind(t) \in Bearer
         /\ StoreFails(t) /\ frame[t].at = "write" => logins' = {}
         /\ logins' \subseteq Profile
<1>1. ~ Write(t) => logins' \subseteq logins
  BY DEF ThreadStep, Ask, NewTokenSource, Reuse, Refresh, RefreshFails, Remember, Read, Truncate,
         StoreFails, history
<1>2. ASSUME Write(t)
      PROVE  /\ Kind(t) \in Setting => logins' = {}
             /\ logins' \subseteq logins \cup {ProfileOf(t)}
             /\ ProfileOf(t) \in logins' => Kind(t) \in Bearer
  <2>1. logins' = IF Kind(t) \in Setting THEN {}
                  ELSE IF Kind(t) = "logout" THEN logins \ {ProfileOf(t)}
                  ELSE logins \cup {ProfileOf(t)}
    BY <1>2 DEF Write
  <2> QED
    BY <2>1, Kinds
<1>3. StoreFails(t) /\ frame[t].at = "write" => logins' = {}
  <2> SUFFICES ASSUME StoreFails(t), frame[t].at = "write" PROVE logins' = {}
    OBVIOUS
  <2>1. Lost({t}) = Profile
    BY DEF Lost
  <2> QED
    BY <2>1, ThreadFacts DEF StoreFails
<1> QED
  BY <1>1, <1>2, <1>3, ThreadFacts

\* The file, while nobody overlapped, for the steps of threads.
LEMMA FileThread ==
  ASSUME IInv, OneWriter, FileInv, CopyInv, NEW t \in Thread, ThreadStep(t)
  PROVE  FileInv'
<1> SUFFICES ASSUME \A u \in Thread : frame'[u].at # "write", NEW f \in logins'
             PROVE  Kept(f, FileToken(f))'
  BY DEF FileInv
<1>1. f \in Profile
  BY LoginsEffect
<1>2. CASE Write(t)
  <2>1. /\ FileToken(f)' = CopyToken(t, f) /\ frame[t].at = "write" /\ valid' = valid
        /\ CopyToken(t, f) \in Held(f) \cup {None}
    BY <1>1, <1>2, ThreadFacts DEF Write, FileToken, CopyToken, server
  <2>2. CASE f = ProfileOf(t)
    BY <1>2, <2>1, <2>2, LoginsEffect, StoringIsValid DEF Kept
  <2>3. CASE f # ProfileOf(t)
    <3>1. f \in logins /\ Kind(t) \notin Setting
      BY <1>2, <2>3, LoginsEffect
    <3>2. Kept(f, CopyToken(t, f))
      BY <2>1, <2>3, <3>1 DEF CopyInv, CopyOf, Writing
    <3>3. \A k \in Held(f) \cup {None} : Kept(f, k) =>
            k \in valid' \/ \E u \in Thread : ProfileOf(u) = f /\ Renews(u)'
      BY <1>1, <2>3, KeptStays DEF Kept, ProfileOf
    <3>4. CopyToken(t, f) \in valid' \/ \E u \in Thread : ProfileOf(u) = f /\ Renews(u)'
      BY <2>1, <3>2, <3>3
    <3> QED
      BY <2>1, <3>4 DEF Kept, ProfileOf
  <2> QED
    BY <2>2, <2>3
<1>3. CASE ~ Write(t)
  <2>1. f \in logins
    BY <1>3, LoginsEffect
  <2>2. \A u \in Thread : frame[u].at # "write"
    <3>1. \A u \in Thread \ {t} : frame[u].at # "write"
      BY ThreadStepEffect
    <3>2. frame[t].at # "write"
      BY <1>3, LoginsEffect, WritingEffect
    <3> QED
      BY <3>1, <3>2
  <2>3. Kept(f, FileToken(f))
    BY <2>1, <2>2 DEF FileInv
  <2>4. file' = file
    BY <1>3, WritingEffect
  <2>5. FileToken(f)' = FileToken(f) /\ FileToken(f) \in Held(f) \cup {None}
    BY <1>1, <2>4, ThreadFacts DEF FileToken
  <2>6. \A k \in Held(f) \cup {None} : Kept(f, k) =>
          k \in valid' \/ \E u \in Thread : ProfileOf(u) = f /\ Renews(u)'
    BY <1>1, <1>3, KeptStays DEF Kept, ProfileOf
  <2>7. FileToken(f) \in valid' \/ \E u \in Thread : ProfileOf(u) = f /\ Renews(u)'
    BY <2>3, <2>5, <2>6
  <2> QED
    BY <2>5, <2>7 DEF Kept, ProfileOf
<1> QED
  BY <1>2, <1>3

\* The copies, for the steps of threads.
LEMMA CopyThread ==
  ASSUME IInv, OneWriter, FileInv, CopyInv, NEW t \in Thread, ThreadStep(t), ~ overlapped'
  PROVE  CopyInv'
<1> SUFFICES ASSUME NEW u \in Thread, frame'[u].at \in Writing, Kind(u) \notin Setting,
                    NEW f \in logins' \ {ProfileOf(u)}
             PROVE  Kept(f, CopyToken(u, f))'
  BY DEF CopyInv, CopyOf, ProfileOf, Kind
<1>1. f \in Profile
  BY LoginsEffect
<1>2. ~ Write(t)
  <2> SUFFICES ASSUME Write(t) PROVE FALSE
    OBVIOUS
  <2>1. frame[t].at \in Writing /\ frame'[t].at \notin Writing
    <3>1. ~ Read(t) /\ ~ Truncate(t)
      BY DEF Write, Read, Truncate
    <3> QED
      BY <3>1, WritingEffect DEF Write, Writing
  <2>2. u # t /\ frame[u].at \in Writing
    BY <2>1, ThreadStepEffect
  <2> QED
    BY <2>1, <2>2 DEF OneWriter
<1>3. f \in logins
  BY <1>2, LoginsEffect
<1>0. /\ CopyToken(u, f) \in Held(f) \cup {None}
      /\ FileToken(f) \in Held(f) \cup {None}
  BY <1>1, ThreadFacts
<1>4. \E k \in Held(f) \cup {None} : Kept(f, k) /\ CopyToken(u, f)' = k
  <2>1. CASE u # t
    <3>1. frame'[u] = frame[u]
      BY <2>1, ThreadStepEffect
    <3>2. CopyToken(u, f)' = CopyToken(u, f)
      BY <3>1 DEF CopyToken
    <3>3. Kept(f, CopyToken(u, f))
      BY <1>3, <3>1 DEF CopyInv, CopyOf
    <3> QED
      BY <1>0, <3>2, <3>3
  <2>2. CASE u = t /\ Read(t)
    <3>1. frame \in [Thread -> Frame] /\ frame[t].at = "read"
      BY <2>2, ThreadFacts DEF Read
    <3>2. ~ NotFound(t)
      <4>1. Return(t) => frame'[t].at = "idle"
        BY <3>1, IdleType DEF Return
      <4> QED
        BY <2>2, <4>1 DEF Read, Writing
    <3>3. frame'[t].buf = file
      BY <2>2, <3>1, <3>2 DEF Read, Frame
    <3>4. \A w \in Thread : frame[w].at # "write"
      BY <2>2 DEF Read, Writing
    <3>5. Kept(f, FileToken(f))
      BY <1>3, <3>4 DEF FileInv
    <3>6. CopyToken(t, f)' = FileToken(f)
      BY <3>3 DEF CopyToken, FileToken
    <3> QED
      BY <1>0, <2>2, <3>5, <3>6
  <2>3. CASE u = t /\ Truncate(t)
    <3>1. /\ frame[t].at = "truncate"
          /\ frame \in [Thread -> Frame] /\ ProfileOf(t) \in Profile
          /\ frame' = [frame EXCEPT ![t].at = "write",
                                    ![t].buf[ProfileOf(t)] =
                                        Changed(t, frame[t].buf[ProfileOf(t)])]
      BY <2>3, ThreadFacts DEF Truncate
    <3>2. frame[t].buf \in [Profile -> Section \cup {Absent}]
      BY ThreadFacts DEF Frame, Content
    <3>3. frame'[t].buf[f] = frame[t].buf[f]
      BY <1>1, <2>3, <3>1, <3>2 DEF Frame
    <3>4. Kept(f, CopyToken(t, f))
      BY <1>3, <2>3, <3>1 DEF CopyInv, CopyOf, Writing
    <3>5. CopyToken(t, f)' = CopyToken(t, f)
      BY <3>3 DEF CopyToken
    <3> QED
      BY <1>0, <2>3, <3>4, <3>5
  <2>4. u = t => Read(t) \/ Truncate(t)
    BY WritingEffect
  <2> QED
    BY <2>1, <2>2, <2>3, <2>4
<1>5. \A k \in Held(f) \cup {None} : Kept(f, k) =>
        k \in valid' \/ \E w \in Thread : ProfileOf(w) = f /\ Renews(w)'
  BY <1>1, <1>2, KeptStays DEF Kept, ProfileOf
<1>6. CopyToken(u, f)' \in valid' \/ \E w \in Thread : ProfileOf(w) = f /\ Renews(w)'
  BY <1>4, <1>5
<1> QED
  BY <1>6 DEF Kept, ProfileOf

\* The logins, for the steps of threads.
LEMMA LoginThread ==
  ASSUME IInv, LoginInv, NEW t \in Thread, ThreadStep(t)
  PROVE  LoginInv'
<1> SUFFICES ASSUME ~ overlapped' PROVE OneWriter' /\ FileInv' /\ CopyInv'
  BY DEF LoginInv
<1>1. ~ overlapped
  BY WritingEffect DEF Read
<1>2. OneWriter'
  <2> SUFFICES ASSUME NEW u \in Thread, NEW w \in Thread,
                      frame'[u].at \in Writing, frame'[w].at \in Writing, u # w
               PROVE  FALSE
    BY DEF OneWriter
  <2>1. \A v \in Thread : frame'[v].at \in Writing =>
           frame[v].at \in Writing \/ (v = t /\ Read(t))
    BY ThreadStepEffect, WritingEffect DEF Writing
  <2>2. CASE frame[u].at \in Writing /\ frame[w].at \in Writing
    BY <1>1, <2>2 DEF LoginInv, OneWriter
  <2>3. Read(t) => \A v \in Thread : frame[v].at \notin Writing
    BY DEF Read
  <2> QED
    BY <2>1, <2>2, <2>3
<1> QED
  BY <1>1, <1>2, FileThread, CopyThread DEF LoginInv

\* A process that is killed logs out the profiles whose new token it had not
\* stored; its other threads were not needed.
LEMMA LoginKill ==
  ASSUME IInv, LoginInv, NEW p \in Process, Kill(p)
  PROVE  LoginInv'
<1>1. /\ UNCHANGED <<file, valid, overlapped>> /\ logins' = logins \ Lost(ThreadsOf(p))
      /\ \A t \in Thread : frame'[t] = IF Owner[t] = p THEN Idle ELSE frame[t]
  BY DEF Kill, server
<1>2. \A t \in Thread : frame'[t].at # "idle" => Owner[t] # p /\ frame'[t] = frame[t]
  BY <1>1, IdleType
<1> SUFFICES ASSUME ~ overlapped PROVE OneWriter' /\ FileInv' /\ CopyInv'
  BY <1>1 DEF LoginInv
<1>3. OneWriter /\ FileInv /\ CopyInv
  BY DEF LoginInv
<1>4. OneWriter'
  BY <1>2, <1>3 DEF OneWriter, Writing
<1>5. ASSUME NEW f \in logins', NEW n, Kept(f, n)
      PROVE  n \in valid' \/ \E u \in Thread : ProfileOf(u) = f /\ Renews(u)'
  <2>1. CASE n \in valid
    BY <1>1, <2>1
  <2>2. ASSUME NEW u \in Thread, ProfileOf(u) = f, Renews(u)
        PROVE  Renews(u)'
    <3>1. u \notin ThreadsOf(p)
      <4> SUFFICES ASSUME u \in ThreadsOf(p) PROVE FALSE
        OBVIOUS
      <4>1. f \in Profile
        BY <2>2, ThreadFacts
      <4>2. f \in Lost(ThreadsOf(p))
        BY <2>2, <4>1 DEF Lost
      <4> QED
        BY <1>1, <4>2
    <3>2. frame'[u] = frame[u]
      BY <1>1, <3>1 DEF ThreadsOf
    <3> QED
      BY <2>2, <3>2 DEF Renews, Kind
  <2> QED
    BY <1>5, <2>1, <2>2 DEF Kept
<1>6. FileInv'
  <2> SUFFICES ASSUME \A u \in Thread : frame'[u].at # "write", NEW f \in logins'
               PROVE  Kept(f, FileToken(f))'
    BY DEF FileInv
  <2>1. \A u \in Thread : frame[u].at # "write"
    <3> SUFFICES ASSUME NEW u \in Thread, frame[u].at = "write" PROVE FALSE
      OBVIOUS
    <3>1. Owner[u] = p
      BY <1>1
    <3>2. Lost(ThreadsOf(p)) = Profile
      BY <3>1 DEF Lost, ThreadsOf
    <3> QED
      BY <1>1, <3>2, ThreadFacts
  <2>2. Kept(f, FileToken(f))
    BY <1>1, <1>3, <2>1 DEF FileInv
  <2>3. FileToken(f)' = FileToken(f)
    BY <1>1 DEF FileToken
  <2>4. FileToken(f) \in valid' \/ \E u \in Thread : ProfileOf(u) = f /\ Renews(u)'
    BY <1>5, <2>2
  <2> QED
    BY <2>3, <2>4 DEF Kept, ProfileOf
<1>7. CopyInv'
  <2> SUFFICES ASSUME NEW u \in Thread, frame'[u].at \in Writing, Kind(u) \notin Setting,
                      NEW f \in logins' \ {ProfileOf(u)}
               PROVE  Kept(f, CopyToken(u, f))'
    BY DEF CopyInv, CopyOf, ProfileOf, Kind
  <2>1. frame'[u] = frame[u]
    BY <1>2 DEF Writing
  <2>2. Kept(f, CopyToken(u, f))
    BY <1>1, <1>3, <2>1 DEF CopyInv, CopyOf
  <2>3. CopyToken(u, f)' = CopyToken(u, f)
    BY <2>1 DEF CopyToken
  <2>4. CopyToken(u, f) \in valid' \/ \E w \in Thread : ProfileOf(w) = f /\ Renews(w)'
    BY <1>5, <2>2
  <2> QED
    BY <2>3, <2>4 DEF Kept, ProfileOf
<1> QED
  BY <1>4, <1>6, <1>7

\* A process that starts writes nothing yet.
LEMMA LoginStart ==
  ASSUME IInv, LoginInv, NEW p \in Process, Start(p)
  PROVE  LoginInv'
<1>1. /\ UNCHANGED <<file, logins, overlapped>> /\ valid \subseteq valid' /\ run[p] = "ready"
      /\ \A t \in Thread : frame'[t] = IF Owner[t] = p /\ Kind(t) # "use"
                                       THEN [Idle EXCEPT !.at = "read"] ELSE frame[t]
  BY DEF Start, history
<1>2. [Idle EXCEPT !.at = "read"].at = "read"
  BY DEF Idle
<1>3. \A t \in Thread : frame'[t].at \in Writing => frame'[t] = frame[t]
  BY <1>1, <1>2 DEF Writing
<1>4. \A t \in Thread : frame[t].at = "write" => frame'[t] = frame[t]
  <2> SUFFICES ASSUME NEW t \in Thread, frame[t].at = "write", Owner[t] = p PROVE FALSE
    BY <1>1
  <2>1. Owner[t] \in Running
    BY ThreadFacts DEF FrameOf
  <2> QED
    BY <1>1, <2>1 DEF Running
<1>5. \A t \in Thread : Renews(t) => Renews(t)'
  <2> SUFFICES ASSUME NEW t \in Thread, Renews(t) PROVE Renews(t)'
    OBVIOUS
  <2>1. Kind(t) = "use"
    BY DEF Renews
  <2>2. frame'[t] = frame[t]
    BY <1>1, <2>1
  <2> QED
    BY <2>2 DEF Renews, Kind
<1>6. \A f \in Profile : \A n : Kept(f, n) =>
         n \in valid' \/ \E u \in Thread : ProfileOf(u) = f /\ Renews(u)'
  BY <1>1, <1>5 DEF Kept
<1>7. logins \subseteq Profile
  BY DEF IInv, TypeOK
<1> SUFFICES ASSUME ~ overlapped, OneWriter, FileInv, CopyInv PROVE OneWriter' /\ FileInv' /\ CopyInv'
  BY <1>1 DEF LoginInv
<1>8. OneWriter'
  BY <1>3 DEF OneWriter
<1>9. FileInv'
  <2> SUFFICES ASSUME \A u \in Thread : frame'[u].at # "write", NEW f \in logins
               PROVE  Kept(f, FileToken(f))'
    BY <1>1 DEF FileInv
  <2>1. Kept(f, FileToken(f))
    BY <1>4 DEF FileInv
  <2>2. FileToken(f)' = FileToken(f)
    BY <1>1 DEF FileToken
  <2>3. FileToken(f) \in valid' \/ \E u \in Thread : ProfileOf(u) = f /\ Renews(u)'
    BY <1>6, <1>7, <2>1
  <2> QED
    BY <2>2, <2>3 DEF Kept, ProfileOf
<1>10. CopyInv'
  <2> SUFFICES ASSUME NEW u \in Thread, frame'[u].at \in Writing, Kind(u) \notin Setting,
                      NEW f \in logins \ {ProfileOf(u)}
               PROVE  Kept(f, CopyToken(u, f))'
    BY <1>1 DEF CopyInv, CopyOf, ProfileOf, Kind
  <2>1. frame'[u] = frame[u]
    BY <1>3
  <2>2. Kept(f, CopyToken(u, f))
    BY <2>1 DEF CopyInv, CopyOf
  <2>3. CopyToken(u, f)' = CopyToken(u, f)
    BY <2>1 DEF CopyToken
  <2>4. CopyToken(u, f) \in valid' \/ \E w \in Thread : ProfileOf(w) = f /\ Renews(w)'
    BY <1>6, <1>7, <2>2
  <2> QED
    BY <2>3, <2>4 DEF Kept, ProfileOf
<1> QED
  BY <1>8, <1>9, <1>10

\* The logins, for every step.
LEMMA LoginStep ==
  ASSUME IInv, LoginInv, [Next]_vars
  PROVE  LoginInv'
<1>1. CASE UNCHANGED <<file, frame, valid, logins, overlapped>>
  <2>1. \A f, n : Kept(f, n)' <=> Kept(f, n)
    BY <1>1 DEF Kept, Renews, Kind, ProfileOf
  <2>2. \A f : FileToken(f)' = FileToken(f) /\ \A t \in Thread : CopyToken(t, f)' = CopyToken(t, f)
    BY <1>1 DEF FileToken, CopyToken
  <2>3. FileInv => FileInv'
    BY <1>1, <2>2 DEF FileInv, Kept, Renews, Kind, ProfileOf
  <2>4. CopyInv => CopyInv'
    BY <1>1, <2>2 DEF CopyInv, CopyOf, Kept, Renews, Kind, ProfileOf
  <2> QED
    BY <1>1, <2>3, <2>4 DEF LoginInv, OneWriter
<1>2. CASE UNCHANGED vars
  BY <1>1, <1>2 DEF vars
<1>3. ASSUME NEW p \in Process, Exit(p) PROVE LoginInv'
  BY <1>1, <1>3 DEF Exit, server, history
<1>4. ASSUME NEW n \in 1 .. last, Expire(n) PROVE LoginInv'
  BY <1>1, <1>4 DEF Expire, history
<1>5. ASSUME NEW t \in Thread, ThreadStep(t) PROVE LoginInv'
  BY <1>5, LoginThread
<1> QED
  BY <1>2, <1>3, <1>4, <1>5, LoginStart, LoginKill DEF Next, ThreadStep

\* Whenever nobody is at work, and no two processes or requests ever had the
\* file open at once, every profile that is logged in has a token in the file
\* that the server would refresh; only a login of one's own is lost to a crash
\* or a failure outside the write itself.
THEOREM FileStaysUsable == Spec => []FileUsable
<1>1. Init => LoginInv
  <2> SUFFICES ASSUME Init PROVE LoginInv
    OBVIOUS
  <2>1. \A t \in Thread : frame[t].at = "idle"
    BY IdleType DEF Init
  <2>2. \A f \in logins : FileToken(f) \in valid
    BY DEF Init, FileToken
  <2> QED
    BY <2>1, <2>2 DEF LoginInv, OneWriter, FileInv, CopyInv, CopyOf, Kept, Writing
<1>2. IInv /\ LoginInv /\ [Next]_vars => LoginInv'
  BY LoginStep
<1>3. LoginInv => FileUsable
  <2> SUFFICES ASSUME LoginInv, ~ overlapped, \A t \in Thread : frame[t] = Idle, NEW f \in logins
               PROVE  OAuthOf(file[f]) \in valid
    BY DEF FileUsable
  <2>1. \A t \in Thread : frame[t].at = "idle"
    BY IdleType
  <2>2. Kept(f, FileToken(f))
    BY <2>1 DEF LoginInv, FileInv
  <2> QED
    BY <2>1, <2>2 DEF Kept, Renews, Writing, FileToken
<1> QED
  BY <1>1, <1>2, <1>3, Invariance, PTL DEF Spec
=============================================================================
