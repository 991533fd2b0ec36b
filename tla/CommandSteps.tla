---------------------------- MODULE CommandSteps ----------------------------
(***************************************************************************)
(* What commands are made of. A command declares the flags it takes, and   *)
(* its handler, given the flags that have a value, is a sequence of steps. *)
(* A flag is its name. Where a handler tells values of a flag apart, the   *)
(* values it knows by name stand in the set of flags beside the flag's own *)
(* name ("pinned", "accepted").                                            *)
(***************************************************************************)
LOCAL INSTANCE Sequences

\* Flags a command cannot run without, and flags it can.
Takes(must, may) == [must |-> must, may |-> may]

\* A command with the flags of several option sets.
Together(sets) ==
  [must |-> UNION {options.must : options \in sets}, may |-> UNION {options.may : options \in sets}]

NoFlags == Takes({}, {})

AllFlags(declared) == declared.must \cup declared.may

\* Every command takes these, and those that talk to a server the next ones.
CommonOptions ==
  Takes({}, {"env", "env-file", "config-file", "profile", "disable-config-file",
    "disable-config-env", "log-level", "log-format", "output", "time-format", "color",
    "no-json-shorthand-payloads", "command-timeout", "client-connect-timeout"})

ClientOptions ==
  Takes({}, {"address", "client-authority", "namespace", "api-key", "grpc-meta", "tls",
    "tls-cert-path", "tls-cert-data", "tls-key-path", "tls-key-data", "tls-ca-path",
    "tls-ca-data", "tls-disable-host-verification", "tls-server-name", "codec-endpoint",
    "codec-auth", "codec-header", "identity"})

-----------------------------------------------------------------------------

Step(op) == [op |-> op, rpc |-> "none", carries |-> {}, mask |-> {}, fine |-> TRUE]

\* The handler goes on only when the flags are right.
Check(condition) == <<[Step("check") EXCEPT !.fine = condition]>>

\* The handler reads values and refuses one that it cannot read.
Parse(given, flags) ==
  IF given \cap flags = {} THEN <<>> ELSE <<[Step("parse") EXCEPT !.carries = given \cap flags]>>

\* dialClient: the connection is made, under its own timeout.
Dial == <<[Step("dial") EXCEPT !.carries = ClientOptions.may]>>

\* A request that changes nothing and whose failure ends the handler, with the
\* flags that decide what it asks for.
Read(rpc, carries) == <<[Step("read") EXCEPT !.rpc = rpc, !.carries = carries]>>

\* A request whose failure the handler ignores.
Glance(rpc) == <<[Step("glance") EXCEPT !.rpc = rpc]>>

\* What the server holds may be something the handler turns into an error.
Expect(answer) == <<[Step("expect") EXCEPT !.rpc = answer]>>

\* promptYes and promptString.
Ask == <<[Step("ask") EXCEPT !.carries = {"yes"}]>>

\* A request that changes the server's state, with the flags whose values it
\* carries and the options its update mask names.
Send(rpc, carries, mask) ==
  <<[Step("send") EXCEPT !.rpc = rpc, !.carries = carries, !.mask = mask]>>

\* A file of this host is read.
Load(what, carries) == <<[Step("load") EXCEPT !.rpc = what, !.carries = carries]>>

\* A file of this host is written, or a server started in this process.
Write(what, carries) == <<[Step("write") EXCEPT !.rpc = what, !.carries = carries]>>

\* A file of this host is written, unless there is no need to; that it cannot
\* be written is no error.
Try(what) == <<[Step("try") EXCEPT !.rpc = what]>>

\* The handler waits for the end of its context.
Wait == <<Step("wait")>>

\* One value is printed, under JSON one document, as the flags say.
Show(carries) == <<[Step("show") EXCEPT !.carries = carries]>>

When(condition, steps) == IF condition THEN steps ELSE <<>>

AnyOf(flags, given) == flags \cap given # {}

=============================================================================
