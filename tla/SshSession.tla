------------------------------- MODULE SshSession -----------------------------
(***************************************************************************)
(* One git-over-SSH session: the server's half of the conversation, and a  *)
(* git client on the other end of the channel.  Both read and write line   *)
(* by line and wait for each other; the client may go away at any time, in *)
(* the middle of a line, too.                                              *)
(*                                                                         *)
(* The client is git's: its negotiation keeps one window of haves ahead of *)
(* the answers it reads (external, as the tests in test/interop use it).   *)
(***************************************************************************)
EXTENDS Integers, Sequences, SequencesExt, FiniteSets

CONSTANTS
    MaxHaves,           \* bound: how many commits the client has to offer
    FirstWindow,        \* INITIAL_FLUSH of the client
    Limits,             \* values of fetchLimits.maxRequestBytes, in lines
    Refs,               \* the refs a push deletes or creates
    MaxCommands         \* bound: commands of a push

Create(r) == <<"create", r>>
Delete(r) == <<"delete", r>>

SshAssumption ==
    /\ MaxHaves \in Nat /\ FirstWindow \in Nat \ {0} /\ MaxCommands \in Nat
    /\ Limits \subseteq Nat

VARIABLES
    service,            \* "fetch" (version 0), "v2" or "push"
    want,               \* what the client asks for: a member of Fetches or Pushes
    present,            \* the commits of the client's that the server has
    up, down,           \* the two directions of the channel
    hungUp,             \* the client is gone
    spc, lines, pending, commons, code,     \* the server: where it is, lines read of
                        \* the request, haves to look up, common commits, exit code
    cpc, sent, unread, more, told,          \* the client: where it is, haves or commands
                        \* sent, windows not answered yet, does it wait for an ACK,
                        \* what it was told is common or done
    applied             \* the commands of a push that took effect

fixed == <<service, want, present>>
sshServerVars == <<spc, lines, pending, commons, code>>
sshClientVars == <<cpc, sent, unread, more, told>>
sshVars == <<fixed, up, down, hungUp, sshServerVars, sshClientVars, applied>>

Fetches == [multi : BOOLEAN, deepen : BOOLEAN, empty : BOOLEAN, limit : Limits]
Commands == {Create(r) : r \in Refs} \cup {Delete(r) : r \in Refs}
Named(commands) == {commands[i][2] : i \in DOMAIN commands}
Pushes == {p \in [commands : SeqOf(Commands, MaxCommands), report : BOOLEAN] :
              Cardinality(Named(p.commands)) = Len(p.commands)}

SshInit ==
    /\ \/ service \in {"fetch", "v2"} /\ want \in Fetches /\ present \in SUBSET (1..MaxHaves)
       \/ service = "push" /\ want \in Pushes /\ present = {}
    /\ up = <<>> /\ down = <<>> /\ hungUp = FALSE
    /\ spc = "advertise" /\ lines = <<>> /\ pending = <<>> /\ commons = <<>> /\ code = <<>>
    /\ cpc = "refs" /\ sent = 0 /\ unread = 0 /\ more = FALSE /\ told = {}
    /\ applied = {}

Flush == <<"flush">>
Reply(s) == down' = down \o s
Send(s) == up' = up \o s

-------------------------------------------------------------------------------
(* The server.                                                             *)

End(c) == spc' = "ended" /\ code' = <<c>>

\* The refs are written out, unless a hook, or the repository's absence, forbids it.
Advertise ==
    /\ spc = "advertise"
    /\ \/ /\ spc' = (CASE service = "fetch" -> "wants" [] service = "v2" -> "command" [] OTHER -> "commands")
          /\ Reply(<<<<"refs">>>>) /\ UNCHANGED code
       \/ End(128) /\ UNCHANGED down
    /\ UNCHANGED <<fixed, up, hungUp, lines, pending, commons, sshClientVars, applied>>

\* readPktLine: a line, or none when the channel ends before or within it.
Reads(pc) == spc = pc /\ up # <<>> /\ up' = Tail(up)
AtEof(pc) == spc = pc /\ up = <<>> /\ hungUp

\* maxRequestBytes is for the lines of one request; over version 0 this is the session.
Counts(line) == service = "fetch" \/ line # Flush
TooMuch == up # <<>> /\ Counts(Head(up)) /\ Len(lines) + 1 > want.limit
\* With the flush of a batch, or done, the storage is asked for the commits.
LooksUp == spc = "haves" /\ pending # <<>> /\ up # <<>> /\ Head(up) \in {Flush, <<"done">>}
\* A line too much ends the session, and so does a storage that throws.
RefuseLine ==
    /\ Reads("wants") \/ Reads("haves") \/ Reads("command")
    /\ TooMuch \/ LooksUp
    /\ End(128)
    /\ UNCHANGED <<fixed, down, hungUp, lines, pending, commons, sshClientVars, applied>>

ReadWant ==
    /\ Reads("wants") /\ ~TooMuch /\ Head(up) # Flush
    /\ lines' = Append(lines, Head(up))
    /\ UNCHANGED <<fixed, down, hungUp, spc, pending, commons, code, sshClientVars, applied>>

\* After the wants: no request at all, one the hook forbids, or one to be answered; a
\* request for a depth is told the new boundary first.
EndWants ==
    /\ Reads("wants") /\ ~TooMuch /\ Head(up) = Flush
    /\ lines' = Append(lines, Flush)
    /\ \/ lines = <<>> /\ End(0) /\ UNCHANGED down
       \/ lines # <<>> /\ End(128) /\ UNCHANGED down
       \/ /\ lines # <<>> /\ spc' = "haves" /\ UNCHANGED code
          /\ Reply(IF <<"deepen">> \in Range(lines) THEN <<<<"shallow">>>> ELSE <<>>)
    /\ UNCHANGED <<fixed, hungUp, pending, commons, sshClientVars, applied>>

\* ackPending.
Common(h) == h \in present /\ h \notin Range(commons)
Found ==
    LET among[n \in 0..Len(pending)] ==
            IF n = 0 THEN <<>>
            ELSE IF Common(pending[n]) THEN Append(among[n - 1], pending[n]) ELSE among[n - 1]
    IN  among[Len(pending)]
\* (Mutant: without multi_ack every batch has its acknowledgment.)
Acks_each ==
    IF want.multi THEN [i \in DOMAIN Found |-> <<"common", Found[i]>>]
    ELSE IF Found # <<>> THEN <<<<"ACK", Found[1]>>>> ELSE <<>>
\* Every common commit is acknowledged, without multi_ack only the first.
Acks ==
    IF want.multi THEN [i \in DOMAIN Found |-> <<"common", Found[i]>>]
    ELSE IF commons = <<>> /\ Found # <<>> THEN <<<<"ACK", Found[1]>>>> ELSE <<>>
AckPending == commons' = commons \o Found /\ pending' = <<>>

\* (Mutant: a batch that was acknowledged is not closed with a NAK.)
BatchEnd_open == IF commons \o Found = <<>> THEN <<<<"NAK">>>> ELSE <<>>
BatchEnd == IF commons \o Found = <<>> \/ want.multi THEN <<<<"NAK">>>> ELSE <<>>

ReadHave ==
    /\ Reads("haves") /\ ~TooMuch /\ Head(up)[1] = "have"
    /\ pending' = Append(pending, Head(up)[2]) /\ lines' = Append(lines, Head(up))
    /\ UNCHANGED <<fixed, down, hungUp, spc, commons, code, sshClientVars, applied>>

EndBatch ==
    /\ Reads("haves") /\ ~TooMuch /\ Head(up) = Flush
    /\ AckPending /\ lines' = Append(lines, Flush)
    /\ Reply(Acks \o BatchEnd)
    /\ UNCHANGED <<fixed, hungUp, spc, code, sshClientVars, applied>>

ReadDone ==
    /\ Reads("haves") /\ ~TooMuch /\ Head(up) = <<"done">>
    /\ AckPending /\ lines' = Append(lines, <<"done">>)
    /\ Reply(Acks) /\ spc' = "pack"
    /\ UNCHANGED <<fixed, hungUp, code, sshClientVars, applied>>

\* The acknowledgment still owed, and the pack, without what is common, unless the
\* storage throws before it is built.
SendPack ==
    /\ spc = "pack"
    /\ \/ /\ Reply((IF commons = <<>> THEN <<<<"NAK">>>>
                     ELSE IF want.multi THEN <<<<"ACK", Last(commons)>>>> ELSE <<>>)
                    \o <<<<"pack", Range(commons)>>>>)
          /\ End(0)
       \/ End(128) /\ UNCHANGED down
    /\ UNCHANGED <<fixed, up, hungUp, lines, pending, commons, sshClientVars, applied>>

\* Version 2: a command is read up to its flush, or to the end of the channel.
ReadCommandLine ==
    /\ Reads("command") /\ ~TooMuch /\ Head(up) # Flush
    /\ lines' = Append(lines, Head(up))
    /\ UNCHANGED <<fixed, down, hungUp, spc, pending, commons, code, sshClientVars, applied>>

HavesOf(l) == {line[2] : line \in {x \in Range(l) : x[1] = "have"}}
\* handleV2Fetch: with anything in common the pack comes at once.
Packs(common) == common # {} \/ <<"done">> \in Range(lines)
FetchReply ==
    LET common == HavesOf(lines) \cap present
    IN  IF <<"want">> \notin Range(lines) THEN <<<<"pack", {}>>>>
        ELSE IF ~Packs(common) THEN <<<<"acks", {}>>>>
        ELSE (IF common = {} THEN <<>> ELSE <<<<"acks", common>>>>)
             \o (IF <<"deepen">> \in Range(lines) THEN <<<<"shallow">>>> ELSE <<>>)
             \o <<<<"pack", common>>>>

\* An empty request, or an unknown command, ends the session.
RunCommand ==
    /\ \/ Reads("command") /\ Head(up) = Flush
       \/ AtEof("command") /\ lines # <<>> /\ UNCHANGED up
    /\ lines' = <<>>
    /\ \/ lines # <<>> /\ lines[1] = <<"ls-refs">> /\ Reply(<<<<"refs">>>>) /\ UNCHANGED <<spc, code>>
       \/ lines # <<>> /\ lines[1] = <<"fetch">> /\ Reply(FetchReply) /\ UNCHANGED <<spc, code>>
       \/ lines = <<>> /\ End(0) /\ UNCHANGED down
       \/ lines # <<>> /\ End(128) /\ UNCHANGED down
    /\ UNCHANGED <<fixed, hungUp, pending, commons, sshClientVars, applied>>

\* A fetch the client left is over; so is a session of version 2 between commands.
EofEnds ==
    /\ AtEof("wants") \/ AtEof("haves") \/ (AtEof("command") /\ lines = <<>>)
    /\ End(0)
    /\ UNCHANGED <<fixed, up, down, hungUp, lines, pending, commons, sshClientVars, applied>>

\* readReceivePackCommands: up to the flush, or to the end of the channel.
ReadPushCommand ==
    /\ Reads("commands") /\ Head(up) # Flush
    /\ lines' = Append(lines, Head(up))
    /\ UNCHANGED <<fixed, down, hungUp, spc, pending, commons, code, sshClientVars, applied>>
EndCommands ==
    /\ \/ Reads("commands") /\ Head(up) = Flush
       \/ AtEof("commands") /\ UNCHANGED up
    /\ spc' = "ingest"
    /\ UNCHANGED <<fixed, down, hungUp, lines, pending, commons, code, sshClientVars, applied>>

NeedsPack(commands) == \E i \in DOMAIN commands : commands[i][1] = "create"
\* (Mutant: the report names what was asked for.)
Reported_all(ok) == Range(lines)
Reported(ok) == ok
Report(ok) == IF want.report /\ lines # <<>> THEN <<<<"report", Reported(ok)>>>> ELSE <<>>

\* A pack is read only when a command creates or moves a ref; each command is then taken
\* or refused.  A hook or a storage that throws leaves what was taken, and no report.
Receive ==
    /\ spc = "ingest"
    /\ \/ /\ IF NeedsPack(lines) THEN Reads("ingest") ELSE UNCHANGED up
          /\ \E ok \in SUBSET Range(lines) :
                /\ applied' = ok
                /\ \/ End(0) /\ Reply(Report(ok))
                   \/ End(128) /\ UNCHANGED down
       \/ /\ NeedsPack(lines) /\ AtEof("ingest") /\ UNCHANGED <<up, applied>>
          /\ End(0) /\ Reply(Report({}))
    /\ UNCHANGED <<fixed, hungUp, lines, pending, commons, sshClientVars>>

\* A write to a channel nobody reads throws.
WriteFails ==
    /\ hungUp /\ spc \notin {"ended", "commands"} /\ End(128)
    /\ UNCHANGED <<fixed, up, down, hungUp, lines, pending, commons, sshClientVars, applied>>

ServerSide ==
    \/ Advertise \/ RefuseLine \/ ReadWant \/ EndWants \/ ReadHave \/ EndBatch \/ ReadDone \/ SendPack
    \/ ReadCommandLine \/ RunCommand \/ EofEnds
    \/ ReadPushCommand \/ EndCommands \/ Receive \/ WriteFails

-------------------------------------------------------------------------------
(* The client.                                                             *)

Sees(pc) == cpc = pc /\ down # <<>> /\ down' = Tail(down)

\* It reads the refs and begins its request.
ReadRefs ==
    /\ Sees("refs") /\ Head(down) = <<"refs">>
    /\ \/ /\ service = "push"
          /\ cpc' = "commands" /\ UNCHANGED <<up, more>>
       \/ /\ service = "v2"
          /\ Send(<<<<"ls-refs">>, Flush>>) /\ cpc' = "listed" /\ UNCHANGED more
       \/ /\ service = "fetch" /\ want.empty
          /\ Send(<<Flush>>) /\ cpc' = "done" /\ UNCHANGED more
       \/ /\ service = "fetch" /\ ~want.empty
          /\ Send(IF want.deepen THEN <<<<"want">>, <<"deepen">>, Flush>> ELSE <<<<"want">>, Flush>>)
          /\ cpc' = IF want.deepen THEN "shallow" ELSE "haves"
          /\ more' = want.multi
    /\ UNCHANGED <<fixed, hungUp, sshServerVars, sent, unread, told, applied>>

ReadShallow ==
    /\ Sees("shallow") /\ Head(down) = <<"shallow">>
    /\ cpc' = IF service = "v2" THEN "pack" ELSE "haves"
    /\ UNCHANGED <<fixed, up, hungUp, sshServerVars, sent, unread, more, told, applied>>

\* A window of haves; the answer to the first is not waited for.
NextHaves(n) == [i \in 1..n |-> <<"have", sent + i>>]
SendWindow ==
    /\ cpc = "haves" /\ sent + FirstWindow <= MaxHaves
    /\ Send(Append(NextHaves(FirstWindow), Flush))
    /\ sent' = sent + FirstWindow /\ unread' = unread + 1
    /\ cpc' = IF sent = 0 THEN "haves" ELSE "acks"
    /\ UNCHANGED <<fixed, down, hungUp, sshServerVars, more, told, applied>>

\* With what is left, or when it gives up, it is done; it waits for one answer more.
SendDone ==
    /\ cpc = "haves" /\ (sent + FirstWindow > MaxHaves \/ told # {})
    /\ LET n == IF told = {} THEN MaxHaves - sent ELSE 0
       IN  Send(Append(NextHaves(n), <<"done">>)) /\ sent' = sent + n
    /\ more' = (more /\ told # {})
    /\ unread' = IF told = {} THEN unread + 1 ELSE unread
    /\ cpc' = "answers"
    /\ UNCHANGED <<fixed, down, hungUp, sshServerVars, told, applied>>

\* get_ack, while there are haves left: ACK ends the negotiation, NAK a batch.
ReadAck ==
    /\ Sees("acks")
    /\ CASE Head(down)[1] = "common" -> told' = told \cup {Head(down)[2]} /\ UNCHANGED <<cpc, unread, more, up>>
         [] Head(down)[1] = "ACK" -> /\ told' = {Head(down)[2]} /\ unread' = 0 /\ more' = FALSE
                                     /\ Send(<<<<"done">>>>) /\ cpc' = "answers"
         [] Head(down)[1] = "NAK" -> unread' = unread - 1 /\ cpc' = "haves" /\ UNCHANGED <<more, told, up>>
    /\ UNCHANGED <<fixed, hungUp, sshServerVars, sent, applied>>

\* The answers still owed to it after done.
ReadAnswer ==
    /\ (unread > 0 \/ more) /\ Sees("answers")
    /\ CASE Head(down)[1] = "common" -> more' = TRUE /\ told' = told \cup {Head(down)[2]} /\ UNCHANGED <<cpc, unread>>
         [] Head(down)[1] = "ACK" -> told' = told \cup {Head(down)[2]} /\ cpc' = "pack" /\ UNCHANGED <<unread, more>>
         [] Head(down)[1] = "NAK" -> unread' = unread - 1 /\ UNCHANGED <<cpc, more, told>>
    /\ UNCHANGED <<fixed, up, hungUp, sshServerVars, sent, applied>>
AnswersOver ==
    /\ cpc = "answers" /\ unread = 0 /\ ~more /\ cpc' = "pack"
    /\ UNCHANGED <<fixed, up, down, hungUp, sshServerVars, sent, unread, more, told, applied>>

ReadPack ==
    /\ Sees("pack") /\ Head(down)[1] = "pack" /\ cpc' = "done"
    /\ up' = IF service = "v2" THEN Append(up, Flush) ELSE up
    /\ UNCHANGED <<fixed, hungUp, sshServerVars, sent, unread, more, told, applied>>

\* Version 2: a round of haves, with done when there are none left.
SendRound ==
    /\ \/ Sees("listed") /\ Head(down) = <<"refs">>
       \/ Sees("nothing") /\ Head(down) = <<"acks", {}>>
    /\ IF want.empty THEN Send(<<Flush>>) /\ cpc' = "done" /\ UNCHANGED <<sent, more>>
       ELSE LET n == IF sent + FirstWindow <= MaxHaves THEN FirstWindow ELSE MaxHaves - sent
            IN  /\ Send(<<<<"fetch">>, <<"want">>>> \o (IF want.deepen THEN <<<<"deepen">>>> ELSE <<>>)
                        \o NextHaves(n) \o (IF n = 0 THEN <<<<"done">>>> ELSE <<>>) \o <<Flush>>)
                /\ sent' = sent + n /\ more' = (n # 0)
                /\ cpc' = IF n # 0 THEN "nothing" ELSE IF want.deepen THEN "shallow" ELSE "pack"
    /\ UNCHANGED <<fixed, hungUp, sshServerVars, unread, told, applied>>
\* Acknowledged commits come with the pack.
ReadReady ==
    /\ Sees("nothing") /\ Head(down)[1] = "acks" /\ Head(down)[2] # {}
    /\ told' = Head(down)[2] /\ more' = FALSE
    /\ cpc' = IF want.deepen THEN "shallow" ELSE "pack"
    /\ UNCHANGED <<fixed, up, hungUp, sshServerVars, sent, unread, applied>>

\* A push: the commands one by one, the flush, the pack, and the report.
SendCommand ==
    /\ cpc = "commands"
    /\ sent' = sent + 1
    /\ IF sent < Len(want.commands) THEN Send(<<want.commands[sent + 1]>>) /\ UNCHANGED cpc
       ELSE /\ Send(IF NeedsPack(want.commands) THEN <<Flush, <<"data">>>> ELSE <<Flush>>)
            /\ cpc' = IF want.report /\ want.commands # <<>> THEN "report" ELSE "done"
    /\ UNCHANGED <<fixed, down, hungUp, sshServerVars, unread, more, told, applied>>
ReadReport ==
    /\ Sees("report") /\ Head(down)[1] = "report"
    /\ told' = Head(down)[2] /\ cpc' = "done"
    /\ UNCHANGED <<fixed, up, hungUp, sshServerVars, sent, unread, more, applied>>

\* The server closed the channel before the client had what it waits for.
SeesEnd ==
    /\ spc = "ended" /\ down = <<>> /\ cpc \notin {"done", "gone"} /\ cpc' = "gone" /\ hungUp' = TRUE
    /\ UNCHANGED <<fixed, up, down, sshServerVars, sent, unread, more, told, applied>>

ClientSide ==
    \/ ReadRefs \/ ReadShallow \/ SendWindow \/ SendDone \/ ReadAck \/ ReadAnswer \/ AnswersOver \/ ReadPack
    \/ SendRound \/ ReadReady \/ SendCommand \/ ReadReport \/ SeesEnd

\* The client dies; of what it has written a part arrives.
HangUp ==
    /\ ~hungUp /\ cpc # "done" /\ hungUp' = TRUE /\ cpc' = "gone"
    /\ \E n \in 0..Len(up) : up' = SubSeq(up, 1, n)
    /\ UNCHANGED <<fixed, down, sshServerVars, sent, unread, more, told, applied>>

SshNext == ServerSide \/ ClientSide \/ HangUp
SshSpec == SshInit /\ [][SshNext]_sshVars

-------------------------------------------------------------------------------
(* Properties.                                                             *)

Expected ==
    [refs |-> {"refs"}, shallow |-> {"shallow"}, haves |-> {"common", "ACK", "NAK"}, acks |-> {"common", "ACK", "NAK"},
     answers |-> {"common", "ACK", "NAK", "pack"}, pack |-> {"pack"}, listed |-> {"refs"}, nothing |-> {"acks"},
     report |-> {"report"}, commands |-> {}, done |-> {}, gone |-> {}]

\* The two sides stay in step: what the client reads next is something it waits for, so
\* that it never takes an acknowledgment for the pack; what it was told at the end is
\* what the server did; and a session that ends well leaves nobody waiting
\* (ssh-session.ts, operations.ts:1118).
InStep ==
    ~hungUp =>
        /\ down # <<>> => Head(down)[1] \in Expected[cpc]
        /\ cpc = "done" => /\ down = <<>>
                           /\ service = "push" /\ want.report => told = applied
                           /\ service = "fetch" => told \subseteq Range(commons)
        /\ spc = "ended" /\ code = <<0>> /\ down = <<>> => cpc = "done"

\* A session is over.
Over == spc = "ended" /\ cpc \in {"done", "gone"}

-------------------------------------------------------------------------------
(* Why: invariants that imply InStep.  Nothing is said once the client hung  *)
(* up.                                                                       *)

Offers == 1..MaxHaves
Line ==
    {<<"want">>, <<"deepen">>, Flush, <<"done">>, <<"ls-refs">>, <<"fetch">>, <<"data">>}
        \cup {<<"have", h>> : h \in Offers} \cup Commands
Message ==
    {<<"refs">>, <<"shallow">>, <<"NAK">>}
        \cup {<<"common", h>> : h \in Offers} \cup {<<"ACK", h>> : h \in Offers}
        \cup {<<"acks", c>> : c \in SUBSET Offers} \cup {<<"pack", c>> : c \in SUBSET Offers}
        \cup {<<"report", c>> : c \in SUBSET Line}

SshTypes ==
    /\ \/ service \in {"fetch", "v2"} /\ want \in Fetches
       \/ service = "push" /\ want \in Pushes
    /\ present \subseteq Offers
    /\ up \in Seq(Line) /\ down \in Seq(Message) /\ hungUp \in BOOLEAN
    /\ spc \in {"advertise", "wants", "haves", "pack", "command", "commands", "ingest", "ended"}
    /\ lines \in Seq(Line) /\ pending \in Seq(Offers) /\ commons \in Seq(Offers)
    /\ code \in {<<>>, <<0>>, <<128>>} /\ (code # <<>> <=> spc = "ended")
    /\ cpc \in DOMAIN Expected /\ (hungUp <=> cpc = "gone")
    /\ sent \in Nat /\ (service # "push" => sent <= MaxHaves) /\ unread \in Int /\ more \in BOOLEAN
    /\ told \subseteq (IF service = "push" THEN Line ELSE Offers) /\ applied \subseteq Line

\* Nobody has said anything, or the server has and the client has not read it.
Silent == up = <<>> /\ down = <<>> /\ lines = <<>>
Greeted == up = <<>> /\ down = <<<<"refs">>>> /\ lines = <<>>
Opening ==
    /\ spc = "advertise" => cpc = "refs"
    /\ cpc = "refs" => /\ told = {} /\ applied = {} /\ sent = 0 /\ unread = 0
                       /\ pending = <<>> /\ commons = <<>> /\ more = FALSE
                       /\ IF spc = "advertise" \/ code = <<128>> THEN Silent
                          ELSE Greeted /\ spc = (CASE service = "fetch" -> "wants"
                                                   [] service = "v2" -> "command"
                                                   [] service = "push" -> "commands")

\* A push: what was read and what is on its way is the request, or what was sent of it.
Ending == IF NeedsPack(want.commands) THEN <<Flush, <<"data">>>> ELSE <<Flush>>
Awaited == want.report /\ want.commands # <<>>
PushTalk ==
    service = "push" /\ cpc # "refs" =>
        /\ spc \in {"commands", "ingest"} => down = <<>> /\ told = {} /\ applied = {}
        /\ spc \in {"commands", "ingest"} /\ cpc # "commands" =>
              cpc = IF Awaited THEN "report" ELSE "done"
        /\ spc \in {"commands", "ingest", "ended"} /\ cpc \in {"commands", "report", "done"}
        /\ cpc = "commands" => /\ spc = "commands" /\ sent \in 0..Len(want.commands)
                               /\ lines \o up = SubSeq(want.commands, 1, sent)
        /\ spc = "commands" => Flush \notin Range(lines)
        /\ spc = "commands" /\ cpc # "commands" => lines \o up = want.commands \o Ending
        /\ spc = "ingest" => lines = want.commands /\ cpc # "commands"
        /\ spc = "ended" /\ cpc = "report" => down = IF code = <<128>> THEN <<>> ELSE <<<<"report", applied>>>>
        /\ spc = "ended" /\ cpc = "done" => down = <<>> /\ (want.report => told = applied)

\* Version 2: one request at a time, and one answer.
IsFetch(r) ==
    /\ r # <<>> /\ r[1] = <<"fetch">> /\ r[Len(r)] = Flush
    /\ \A i \in 1..Len(r) - 1 : r[i] # Flush
    /\ <<"want">> \in Range(r) /\ (<<"deepen">> \in Range(r) <=> want.deepen)
    /\ <<"done">> \in Range(r) <=> ~more
    /\ ~more => HavesOf(r) = {} /\ cpc = IF want.deepen THEN "shallow" ELSE "pack"
    /\ more => cpc = "nothing"
DepthPart == IF want.deepen THEN <<<<"shallow">>>> ELSE <<>>
IsAnswer(a) ==
    \E c \in SUBSET Offers :
       CASE cpc = "nothing" -> IF c = {} THEN a = <<<<"acks", c>>>>
                               ELSE a = <<<<"acks", c>>>> \o DepthPart \o <<<<"pack", c>>>>
         [] cpc = "shallow" -> a = <<<<"shallow">>, <<"pack", c>>>>
         [] cpc = "pack" -> a = <<<<"pack", c>>>>
         [] OTHER -> FALSE
V2Talk ==
    service = "v2" /\ cpc # "refs" =>
        /\ cpc \in {"listed", "nothing", "shallow", "pack", "done"} /\ spc \in {"command", "ended"}
        /\ spc = "ended" => down = <<>> /\ (code = <<0>> => cpc = "done")
        /\ spc = "command" =>
              \/ /\ cpc = "listed" /\ down = <<>> /\ lines \o up = <<<<"ls-refs">>, Flush>>
              \/ /\ cpc = "listed" /\ down = <<<<"refs">>>> /\ lines = <<>> /\ up = <<>>
              \/ /\ down = <<>> /\ IsFetch(lines \o up)
              \/ /\ IsAnswer(down) /\ lines = <<>> /\ up = <<>>
              \/ /\ cpc = "done" /\ down = <<>> /\ lines = <<>> /\ up = <<Flush>>

\* A fetch of version 0, up to the negotiation: the wants and their end.
Request == IF want.deepen THEN <<<<"want">>, <<"deepen">>, Flush>> ELSE <<<<"want">>, Flush>>
WantsTalk ==
    service = "fetch" /\ cpc # "refs" =>
        /\ cpc \in {"shallow", "haves", "acks", "answers", "pack", "done"}
        /\ spc \in {"wants", "haves", "pack", "ended"}
        /\ want.empty => cpc = "done" /\ down = <<>> /\ told = {}
        /\ want.empty /\ spc # "ended" => spc = "wants" /\ up = <<Flush>> /\ lines = <<>>
        /\ ~want.empty /\ spc = "wants" =>
              /\ down = <<>> /\ commons = <<>> /\ pending = <<>> /\ cpc # "done"
              /\ want.deepen => cpc = "shallow"
              /\ Len(lines) < Len(Request) /\ Len(Request) <= Len(lines \o up)
              /\ \A i \in 1..Len(Request) : (lines \o up)[i] = Request[i]
        /\ cpc = "shallow" =>
              /\ want.deepen /\ sent = 0 /\ unread = 0 /\ told = {} /\ (more <=> want.multi)
              /\ commons = <<>> /\ pending = <<>>
              /\ spc = "wants" => Len(lines \o up) = Len(Request)
              /\ spc = "haves" => up = <<>> /\ down = <<<<"shallow">>>>
              /\ spc = "ended" => code = <<128>> /\ down = <<>>
              /\ spc # "pack"

\* The negotiation.  Batches that nobody has answered, and NAKs nobody has read.
Times(x, s) == Cardinality({i \in DOMAIN s : s[i] = x})
Unanswered == Times(Flush, up) - (IF spc = "wants" THEN 1 ELSE 0)
Unheard == Times(<<"NAK">>, down)
\* The answer to done.
Owed == IF code = <<0>> /\ commons = <<>> THEN 0 ELSE 1
Talking == service = "fetch" /\ ~want.empty /\ cpc \in {"haves", "acks", "answers", "pack", "done"}
Acked == \E i \in DOMAIN down : down[i][1] = "ACK"
\* What the client hears,
TalkDown ==
    Talking =>
        /\ \A i \in DOMAIN down : down[i][1] \in {"common", "ACK", "NAK", "pack"}
        /\ \A i \in DOMAIN down : down[i][1] \in {"common", "ACK"} => down[i][2] \in Range(commons)
        /\ \A i \in DOMAIN down : down[i][1] = "pack" => i = Len(down) /\ code = <<0>>
        /\ told \subseteq Range(commons)
        /\ cpc = "done" => code = <<0>> /\ down = <<>>
        /\ cpc # "done" /\ code = <<0>> => down # <<>> /\ down[Len(down)][1] = "pack"
\* and what it says.
TalkUp ==
    Talking =>
        /\ cpc \in {"haves", "acks"} => /\ \A i \in DOMAIN up : up[i] # <<"done">>
                                        /\ spc # "pack" /\ code # <<0>> /\ (more <=> want.multi)
        /\ cpc \in {"answers", "pack"} /\ spc \in {"wants", "haves"} =>
              up # <<>> /\ \A i \in DOMAIN up : up[i] = <<"done">> <=> i = Len(up)
        /\ spc = "pack" => cpc \in {"answers", "pack"} /\ up = <<>>
        /\ code = <<0>> => up = <<>>
        /\ more => want.multi
\* As long as nothing is acknowledged for good, every batch has its NAK, but that a server
\* that refused reads no more.
TalkCounts ==
    Talking /\ (want.multi \/ commons = <<>>) =>
        /\ cpc \in {"haves", "acks"} => IF code = <<128>> THEN unread >= Unheard ELSE unread = Unheard + Unanswered
        /\ cpc = "answers" /\ ~more => IF code = <<128>> THEN unread >= Unheard + 1
                                       ELSE unread = Unheard + Unanswered + Owed
        /\ cpc = "answers" /\ more => commons # <<>>
        /\ cpc = "pack" => code = <<0>> /\ Len(down) = 1
        /\ Acked => code = <<0>>
        /\ code = <<0>> /\ commons # <<>> /\ cpc = "answers" =>
              Len(down) >= 2 /\ down[Len(down) - 1][1] = "ACK"
        /\ \A i \in DOMAIN down : down[i][1] = "ACK" => i = Len(down) - 1
\* Without multi_ack the first acknowledgment is the last word but for the pack.
TalkSingle ==
    Talking /\ ~want.multi /\ commons # <<>> =>
        /\ \A i \in DOMAIN down : down[i][1] # "common"
        /\ IF told = {}
           THEN /\ cpc \in {"haves", "acks", "answers"}
                /\ \E k \in DOMAIN down :
                      /\ down[k][1] = "ACK" /\ k <= unread
                      /\ \A i \in 1..k - 1 : down[i][1] = "NAK"
                      /\ \A i \in k + 1..Len(down) : down[i][1] = "pack"
           ELSE /\ \A i \in DOMAIN down : down[i][1] = "pack"
                /\ cpc \in {"answers", "pack", "done"} /\ (cpc = "answers" => unread = 0)

Stays == Opening /\ PushTalk /\ V2Talk /\ WantsTalk /\ TalkDown /\ TalkUp /\ TalkCounts /\ TalkSingle
SessionInv == SshTypes /\ (~hungUp => Stays)
===============================================================================
