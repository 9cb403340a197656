------------------------------ MODULE Plugins ------------------------------
(***************************************************************************)
(* mjpg_streamer with input_file, input_testpicture or input_gspcav1, and  *)
(* output_file, output_udp or output_rtsp: what the command line makes of  *)
(* it, its two threads, the programs and clients around it, and what a     *)
(* restart finds of the run before.                                        *)
(***************************************************************************)
EXTENDS FileInput, TestInput, GspcaInput, FileOutput, UdpOutput, Options, HttpRequest

CONSTANTS
  CommandLines,    \* what the program may be started with
  MaxRuns          \* bound: times it is started

VARIABLES
  arguments,       \* the command line
  theInput, theOutput,   \* the first plugin of each kind it names
  inConfig, outConfig,   \* what their init has made of their parameters
  runs

mainVars == <<arguments, theInput, theOutput, inConfig, outConfig>>
pluginsVars ==
  <<mainVars, runs, pictureVars, fileInputVars, sequence, gspcaVars, fileOutputVars, udpVars, requestVars>>

(* main has found the plugins, and no init has ended the program.           *)
Starts ==
  /\ main(arguments).ok
  /\ theInput = main(arguments).input[1] /\ theOutput = main(arguments).output[1]
  /\ LET i == init(theInput.plugin, theInput.args)
         o == init(theOutput.plugin, theOutput.args)
     IN  i.ok /\ o.ok /\ inConfig = i.config /\ outConfig = o.config

Value(config, field, otherwise) == IF field \in DOMAIN config THEN config[field] ELSE otherwise

FromFiles == theInput.plugin = "input_file"
FromWebcam == theInput.plugin = "input_gspcav1"
ToFiles == theOutput.plugin = "output_file"

Simulated ==
  /\ theInput.plugin \in {"input_file", "input_testpicture", "input_gspcav1"}
  /\ theOutput.plugin \in {"output_file", "output_udp", "output_rtsp"}
  /\ FromWebcam => init_videoIn(webcam, inConfig.window, inConfig.palette).ok

(* The plugins, as main keeps them.                                         *)
theProgram == [inputs |-> main(arguments).input, outputs |-> main(arguments).output]

(* A server of which browsers ask something.                                *)
Serving == theInput.plugin = "input_uvc" /\ theOutput.plugin = "output_http"

(* input_run and output_run make the threads.                              *)
AtStart == [t \in Threads |-> IF t = input \/ ToFiles THEN "check" ELSE "bind"]
BuffersAtStart ==
  IF FromFiles THEN [n \in Ids |-> NULL] ELSE IF FromWebcam THEN GspcaBuffers ELSE TestBuffers

PluginsInit ==
  /\ arguments \in CommandLines /\ Starts /\ runs = 1
  /\ filename = (IF Value(inConfig, "filename", None) = None THEN anyName ELSE inConfig.filename)
  /\ rm = (Value(inConfig, "rm", 0) = 1)
  /\ ringbuffer_size = Value(outConfig, "ringbuffer_size", -1)
  /\ ringbuffer_exceed = Value(outConfig, "ringbuffer_exceed", 0)
  /\ port = Value(outConfig, "port", 0)
  /\ PictureInit(AtStart, BuffersAtStart)
  /\ FileInputInit /\ TestInputInit /\ GspcaInputInit(arguments) /\ FileOutputInit /\ UdpOutputInit
  /\ (~FromFiles => ~reuse)
  /\ RequestInit(IF Serving THEN Situations ELSE {Quiet})

-----------------------------------------------------------------------------

inputVars == <<fileInputVars, sequence, gspcaVars>>
outputVars == <<fileOutputVars, udpVars>>

Input ==
  /\ \/ FromFiles /\ FileInputStep /\ UNCHANGED <<sequence, gspcaVars>>
     \/ FromWebcam /\ GspcaInputStep /\ UNCHANGED <<fileInputVars, sequence>>
     \/ ~FromFiles /\ ~FromWebcam /\ TestInputStep /\ UNCHANGED <<fileInputVars, gspcaVars>>
  /\ UNCHANGED outputVars

Output ==
  /\ \/ ToFiles /\ FileOutputStep /\ UNCHANGED udpVars
     \/ theOutput.plugin = "output_udp" /\ UdpOutputStep /\ UNCHANGED fileOutputVars
     \/ theOutput.plugin = "output_rtsp" /\ RtspOutputStep /\ UNCHANGED fileOutputVars
  /\ UNCHANGED inputVars

(* Only output_file and signal_handler look at the clock.                   *)
TimeMatters == ToFiles \/ stop

Surroundings ==
  \/ FromFiles /\ OtherPrograms /\ UNCHANGED <<sequence, gspcaVars, outputVars>>
  \/ FromWebcam /\ TakePicture /\ UNCHANGED <<fileInputVars, sequence, outputVars>>
  \/ ~ToFiles /\ Network /\ UNCHANGED <<inputVars, fileOutputVars>>
  \/ ((TimeMatters /\ Tick) \/ SignalStep) /\ UNCHANGED <<inputVars, outputVars>>

(* The program is started again and finds the files; only output_file looks *)
(* at what was there before.                                               *)
Restart ==
  /\ ToFiles /\ process = "exited" /\ runs < MaxRuns /\ runs' = runs + 1
  /\ process' = "up" /\ stop' = FALSE /\ cancelled' = {} /\ at' = AtStart
  /\ in' = [n \in Ids |-> [BuffersAtStart[n] EXCEPT !.serial = serial]]
  /\ db' = [n \in Ids |-> free] /\ frame' = NULL
  /\ events' = <<>> /\ ev' = anyName /\ file' = NoFile /\ filesize' = NoFile
  /\ sequence' = 0 /\ counter' = 0 /\ namelist' = <<>>
  /\ captured' = [b \in 1 .. buffers |-> NULL] /\ queue' = [b \in 1 .. buffers |-> b] /\ taken' = 0
  /\ vmmap' = 1 /\ ptframe' = [k \in 1 .. OUTFRMNUMB |-> NULL] /\ frame_cour' = 1
  /\ socket' = {} /\ udpbuffer' = noName /\ addr' = noClient
  /\ UNCHANGED <<mainVars, webcam, clock, asleep, serial, faults, optionVars, folderVars,
                 ringVars, name, saved, latestGone, port, sent, since, files, answers, requestVars>>

(* The threads of output_http, with in_parameters and the camera.           *)
Serve ==
  /\ RequestStep(outConfig, theProgram)
  /\ UNCHANGED <<mainVars, runs, process, stop, clock, asleep, cancelled, at, in, serial, db, frame,
                 inputVars, outputVars>>

PluginsNext ==
  \/ /\ process = "up" /\ Simulated /\ (Input \/ Output \/ Surroundings)
     /\ UNCHANGED <<mainVars, runs, requestVars>>
  \/ Serving /\ Serve
  \/ Restart

PluginsSpec == PluginsInit /\ [][PluginsNext]_pluginsVars

-----------------------------------------------------------------------------

(* The program, and in it the worker of input_file, ends when it is told to *)
(* or a call of its fails; the one other case is that a file the worker has *)
(* just removed was another one that had been moved in under the same name. *)
EndsOnlyWhenTold ==
  /\ process # "up" => stop \/ faults > 0
  /\ (FromFiles /\ at[input] = "ended") => stop \/ faults > 0 \/ (rm /\ reuse)

(* Whatever a webcam has and is asked for, input_gspcav1 and it agree on a   *)
(* palette and a size.                                                     *)
Negotiated == FromWebcam => Negotiates(webcam, inConfig.window, inConfig.palette)

(* The n-th picture of a webcam that the program publishes is the n-th the  *)
(* webcam has put into a buffer, and it was copied before the webcam got    *)
(* the buffer back.  The serial number goes on when the program is started *)
(* again, the webcam's pictures do not.                                    *)
FramesInOrder ==
  (FromWebcam /\ runs = 1 /\ in[id].content > 0) =>
    in[id].content = in[id].serial /\ in[id].whole

(* Whoever is told that a picture was saved under a name was told so after  *)
(* a picture was saved there that was published after the message came in,  *)
(* and all of it, unless a call failed, the program was being stopped,      *)
(* files were written in place, or input_file has ended over a name that    *)
(* was used again, and freed the picture while it was copied.               *)
AnswerMeansSaved ==
  \A a \in answers :
    a.text # noName =>
      /\ a.saved.serial > a.since
      /\ a.saved.whole \/ faults > 0 \/ stop \/ InPlace \/ (rm /\ reuse)

(* What a browser is answered is what it asked for, in whatever portions the *)
(* network brings it, and 401 if and only if its last credentials are not   *)
(* those demanded: unless a line of the message is too long for a line.    *)
AnsweredAsAsked ==
  Serving =>
    \A t \in HttpClients :
      (message[t] # NoMessage /\ LinesFit(message[t]) /\ answer[t] # NoAnswer) =>
        AsAsked(message[t], answer[t], outConfig, Len(theProgram.inputs))

(* A control of the camera, or what is told of it, is changed only by the    *)
(* thread of a browser whose command it is, that has the credentials and    *)
(* that commands are accepted from.                                        *)
OnlyAuthorised ==
  [][<<device, in_parameters, quality, resolution>>' # <<device, in_parameters, quality, resolution>>
       => \E t \in HttpClients :
            /\ <<step[t], answer[t]>>' # <<step[t], answer[t]>>
            /\ FirstWord(message[t])[1].type = "command"
            /\ Trusted(message[t], outConfig) /\ outConfig.nocommands = 0]_pluginsVars

(* Every option of its help text that a plugin is given has an effect, with *)
(* the last of the values given, if there are not too many words.          *)
OptionsDelivered ==
  \A one \in {[is |-> theInput, config |-> inConfig], [is |-> theOutput, config |-> outConfig]} :
    WordCount(one.is.args) + 1 < MAX_PLUGIN_ARGUMENTS
      => Delivered(one.is.plugin, one.is.args, one.config)
=============================================================================
