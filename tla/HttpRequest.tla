---------------------------- MODULE HttpRequest ----------------------------
(***************************************************************************)
(* How output_http reads what a browser asks for: a client_thread reads the *)
(* request line by line, from a buffer it fills from the socket; the first *)
(* line says what is wanted, the others may have credentials; then the     *)
(* answer is a picture, a stream, a file, a list, an error, or what a      *)
(* command returns.                                                        *)
(*                                                                         *)
(* A text is a sequence of pieces: "CR", "LF", the word of the first line, *)
(* that of a header that matters, or anything else.                        *)
(***************************************************************************)
EXTENDS Controls, Functions

CONSTANTS
  IO_BUFFER,       \* pieces an iobuffer holds,
  LINE,            \* and a line
  Situations       \* bound: the cameras there may be, and what the browsers ask,
                   \* one message or none each

ASSUME HttpRequestAssumption == IO_BUFFER \in Nat \ {0} /\ LINE \in Nat \ {0, 1, 2}

VARIABLES
  message,         \* message[t]: what the browser of t sends
  unread,          \* unread[t]: what of it has not been read
  iobuf,           \* iobuf[t]: what has been read from the socket
  buffer,          \* buffer[t]: the line as far as it is read
  req,             \* req[t]: type, input number, parameter, credentials
  step,            \* step[t]: where the thread is
  answer           \* answer[t]: the code, what the answer is about, what it lists

requestVars == <<message, unread, iobuf, buffer, req, step, answer, controlsVars>>

-----------------------------------------------------------------------------
(* Messages.  The word of a request has what action it asks for, the number *)
(* behind a "_", the variables of a command, the file.                      *)

CR == [is |-> "CR"]
LF == [is |-> "LF"]

NoMessage == <<>>
Text(lines) == FlattenSeq([k \in DOMAIN lines |-> lines[k] \o <<CR, LF>>]) \o <<CR, LF>>

NoRequest == [type |-> "unknown", number |-> 0, word |-> <<>>, credentials |-> "NULL"]
NoAnswer == [code |-> 0, about |-> "nothing", number |-> 0, result |-> 0, list |-> <<>>]
Error(code) == [NoAnswer EXCEPT !.code = code]

Quiet == [camera |-> NoCamera, message |-> [t \in HttpClients |-> NoMessage]]

RequestInit(situations) ==
  /\ \E s \in situations : ControlsInit(s.camera) /\ message = s.message
  /\ unread = [t \in HttpClients |-> IF message[t] = NoMessage THEN <<>> ELSE Text(message[t])]
  /\ iobuf = [t \in HttpClients |-> <<>>] /\ buffer = [t \in HttpClients |-> <<>>]
  /\ req = [t \in HttpClients |-> NoRequest] /\ answer = [t \in HttpClients |-> NoAnswer]
  /\ step = [t \in HttpClients |-> IF message[t] = NoMessage THEN "closed" ELSE "request"]

-----------------------------------------------------------------------------
(* _read and _readline.                                                    *)

Reading(t) == step[t] \in {"request", "headers"}
Complete(line) == line # <<>> /\ (Last(line) = LF \/ Len(line) = LINE)

(* select says that there is something, and read returns what there is, as   *)
(* far as it fits.                                                         *)
Fill(t) ==
  /\ Reading(t) /\ ~Complete(buffer[t]) /\ iobuf[t] = <<>>
  /\ \E n \in 1 .. IO_BUFFER :
       /\ n <= Len(unread[t])
       /\ iobuf' = [iobuf EXCEPT ![t] = SubSeq(unread[t], 1, n)]
       /\ unread' = [unread EXCEPT ![t] = SubSeq(@, n + 1, Len(@))]
  /\ UNCHANGED <<message, buffer, req, step, answer, controlsVars, faults>>

(* How many pieces go to the line: up to its end, its length, or what is    *)
(* there.                                                                  *)
Fitting(t) ==
  CHOOSE n \in 1 .. Len(iobuf[t]) :
    /\ \/ n = Len(iobuf[t]) \/ iobuf[t][n] = LF \/ Len(buffer[t]) + n = LINE
    /\ \A m \in 1 .. n - 1 : iobuf[t][m] # LF /\ Len(buffer[t]) + m # LINE

(* Mutant: each line begins with an empty iobuffer.                         *)
ReadFresh(t) ==
  /\ Reading(t) /\ ~Complete(buffer[t]) /\ iobuf[t] # <<>>
  /\ buffer' = [buffer EXCEPT ![t] = @ \o SubSeq(iobuf[t], 1, Fitting(t))]
  /\ iobuf' = [iobuf EXCEPT ![t] = <<>>]
  /\ UNCHANGED <<message, unread, req, step, answer, controlsVars, faults>>

Read(t) ==
  /\ Reading(t) /\ ~Complete(buffer[t]) /\ iobuf[t] # <<>>
  /\ buffer' = [buffer EXCEPT ![t] = @ \o SubSeq(iobuf[t], 1, Fitting(t))]
  /\ iobuf' = [iobuf EXCEPT ![t] = SubSeq(@, Fitting(t) + 1, Len(@))]
  /\ UNCHANGED <<message, unread, req, step, answer, controlsVars, faults>>

(* Nothing for five seconds, or the browser has left.                       *)
GiveUp(t) ==
  /\ Reading(t) /\ ~Complete(buffer[t]) /\ iobuf[t] = <<>>
  /\ step' = [step EXCEPT ![t] = "closed"]
  /\ UNCHANGED <<message, unread, iobuf, buffer, req, answer, controlsVars, faults>>

-----------------------------------------------------------------------------
(* client_thread.                                                          *)

Words(line, kind) == SelectSeq(line, LAMBDA p : p.is = kind)

Reply(t, a) ==
  /\ answer' = [answer EXCEPT ![t] = a] /\ step' = [step EXCEPT ![t] = "closed"]

Suffixed == {"snapshot", "stream", "input.json", "output.json", "program.json"}

(* The first line: what the answer will be, unless it is malformed or an     *)
(* escape in it is wrong.                                                  *)
Determine(t) ==
  /\ step[t] = "request" /\ Complete(buffer[t]) /\ buffer' = [buffer EXCEPT ![t] = <<>>]
  /\ LET words == Words(buffer[t], "request") IN
     IF words = <<>> THEN Reply(t, Error(400)) /\ UNCHANGED req
     ELSE IF words[1].type = "command" /\ words[1].escape = "wrong" THEN Reply(t, Error(500)) /\ UNCHANGED req
     ELSE /\ req' = [req EXCEPT ![t].type = words[1].type, ![t].word = words[1],
                                ![t].number = IF words[1].type \in Suffixed THEN words[1].number ELSE 0]
          /\ step' = [step EXCEPT ![t] = "headers"] /\ UNCHANGED answer
  /\ UNCHANGED <<message, unread, iobuf, controlsVars, faults>>

(* Another line: it may have credentials, unless it says who the browser is. *)
(* One with at most two characters is the last.                            *)
Header(t) ==
  /\ step[t] = "headers" /\ Complete(buffer[t]) /\ buffer' = [buffer EXCEPT ![t] = <<>>]
  /\ LET given == Words(buffer[t], "Authorization")
     IN  req' = IF given = <<>> \/ Words(buffer[t], "User-Agent") # <<>> THEN req
                ELSE [req EXCEPT ![t].credentials = given[1].text]
  /\ step' = [step EXCEPT ![t] = IF Len(buffer[t]) > 2 THEN "headers" ELSE "answer"]
  /\ UNCHANGED <<message, unread, iobuf, answer, controlsVars, faults>>

(* Mutant: credentials count only if some were sent.                        *)
AllowedIfSent(t, config) ==
  config.credentials # "NULL" =>
    (req[t].credentials # "NULL" => req[t].credentials = config.credentials)

Allowed(t, config) ==
  config.credentials # "NULL" =>
    (req[t].credentials # "NULL" /\ req[t].credentials = config.credentials)

(* send_file.                                                              *)
FileAnswer(word, config) ==
  IF config.www_folder = "NULL" THEN Error(501)
  ELSE IF word.extension = "none" THEN Error(400)
  ELSE IF word.extension = "unknown" \/ ~word.exists THEN Error(404)
  ELSE [NoAnswer EXCEPT !.code = 200, !.about = "file"]

(* What the lists list: the controls of the input, those of the output, of   *)
(* which none has any, and the plugins with what they were given.          *)
send_Input_JSON ==
  [k \in DOMAIN in_parameters |->
     [id |-> in_parameters[k].id, min |-> in_parameters[k].minimum, max |-> in_parameters[k].maximum,
      value |-> in_parameters[k].value, dest |-> 0, group |-> in_parameters[k].group]]

send_Output_JSON == <<>>
send_Program_JSON(program) == <<program.inputs, program.outputs>>

Served(t, program) ==
  LET type == req[t].type
  IN  [NoAnswer EXCEPT !.code = 200, !.about = type, !.number = req[t].number,
         !.list = CASE type = "input.json" -> send_Input_JSON
                    [] type = "output.json" -> send_Output_JSON
                    [] type = "program.json" -> send_Program_JSON(program)
                    [] OTHER -> <<>>]

(* command: the variables it was not given have their defaults.             *)
Variable(given, name, otherwise) == IF name \in DOMAIN given THEN given[name] ELSE otherwise
BadCommand(word) == "id" \notin DOMAIN word.given

ToInput(given, program) ==
  Variable(given, "dest", 0) = 0 /\ Variable(given, "plugin", 0) < Len(program.inputs)

CommandAnswer(t, result) ==
  [NoAnswer EXCEPT !.code = 200, !.about = "command", !.number = req[t].word.given["id"], !.result = result]

(* A step of command and what it calls.  A command that is for an output,    *)
(* or for the program, or for nobody, does nothing and is answered with 0.  *)
command(t, program) ==
  LET given == req[t].word.given
  IN  IF ToInput(given, program)
      THEN \E result \in {0, -1, Unfinished} :
             /\ input_cmd(t, given["id"], Variable(given, "group", IN_CMD_GENERIC),
                          Variable(given, "value", 0), result)
             /\ IF result = Unfinished THEN step' = [step EXCEPT ![t] = "command"] /\ UNCHANGED answer
                ELSE Reply(t, CommandAnswer(t, result))
      ELSE Reply(t, CommandAnswer(t, 0)) /\ UNCHANGED <<controlsVars, faults>>

(* What is answered without doing anything.                                 *)
AnswerOf(t, config, program) ==
  LET r == req[t]
  IN  IF ~Allowed(t, config) THEN Error(401)
      ELSE IF r.number >= Len(program.inputs) THEN Error(404)
      ELSE IF r.type = "file" THEN FileAnswer(r.word, config)
      ELSE IF r.type = "command" /\ config.nocommands = 1 THEN Error(501)
      ELSE IF r.type = "command" /\ BadCommand(r.word) THEN Error(400)
      ELSE Served(t, program)

Respond(t, config, program) ==
  /\ IF step[t] = "answer" /\ ~(AnswerOf(t, config, program).code = 200 /\ req[t].type = "command")
     THEN Reply(t, AnswerOf(t, config, program)) /\ UNCHANGED <<controlsVars, faults>>
     ELSE step[t] \in {"answer", "command"} /\ command(t, program)
  /\ UNCHANGED <<message, unread, iobuf, buffer, req>>

RequestStep(config, program) ==
  \E t \in HttpClients :
    Fill(t) \/ Read(t) \/ GiveUp(t) \/ Determine(t) \/ Header(t) \/ Respond(t, config, program)

-----------------------------------------------------------------------------
(* What a browser that was sent may expect, from the message as a whole.    *)

LinesFit(m) == \A k \in DOMAIN m : Len(m[k]) + 2 <= LINE
FirstWord(m) == Words(m[1], "request")
Credentials(m) == Words(FlattenSeq(Tail(m)), "Authorization")
Trusted(m, config) ==
  config.credentials # "NULL" =>
    (Credentials(m) # <<>> /\ Last(Credentials(m)).text = config.credentials)

AsAsked(m, a, config, inputs) ==
  LET word == FirstWord(m)[1]
      wrong == word.type = "command" /\ word.escape = "wrong"
  IN  CASE FirstWord(m) = <<>> -> a = Error(400)
        [] FirstWord(m) # <<>> /\ wrong -> a = Error(500)
        [] FirstWord(m) # <<>> /\ ~wrong /\ ~Trusted(m, config) -> a = Error(401)
        [] OTHER ->
             /\ a.code # 401
             /\ a.code = 200 =>
                  /\ a.about = word.type
                  /\ word.type \in Suffixed => a.number = word.number /\ word.number < inputs
                  /\ word.type = "command" => a.number = word.given["id"]
             /\ (word.type \in Suffixed /\ word.number < inputs) => a.code = 200
=============================================================================
