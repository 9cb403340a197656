------------------------------ MODULE Options ------------------------------
(***************************************************************************)
(* How mjpg_streamer and its plugins read their parameters.  Each has a     *)
(* table of long options for getopt_long_only, which gives the index of an *)
(* option in it, and a switch on that index.  Two entries of a table, one   *)
(* case, are the short and the long spelling of one option: here one name. *)
(***************************************************************************)
EXTENDS Integers, Sequences, SequencesExt, TLC

CONSTANTS
  MAX_PLUGIN_ARGUMENTS,  \* words in a plugin's parameter string, and one
  incnt                  \* input plugins that are loaded

ASSUME OptionsAssumption == {MAX_PLUGIN_ARGUMENTS, incnt} \subseteq Nat \ {0}

None == "NULL"

(* An argument is an option of a table, [opt, value], or one it has not.    *)
(* A flag is one word of the parameter string, another option two.         *)
Flags == {"help", "remove", "yuv", "no_dynctrl", "nocommands"}
WordsOf(a) == IF a.opt \in Flags THEN 1 ELSE 2
WordCount(args) == FoldLeft(LAMBDA n, a : n + WordsOf(a), 0, args)

-----------------------------------------------------------------------------
(* The tables: the options in their order, what each case of the switch      *)
(* sets, in its order, whether there is a default case, what is set before. *)

FileInputOptions ==
  [options |-> <<"help", "delay", "folder", "remove", "name">>,
   cases |-> <<"help", "delay", "folder", "rm", "filename">>,
   refuses |-> TRUE,
   before |-> [delay |-> 0, folder |-> None, rm |-> 0, filename |-> None]]

TestInputOptions ==
  [options |-> <<"help", "delay", "resolution">>,
   cases |-> <<"help", "delay", "pics">>,
   refuses |-> TRUE,
   before |-> [delay |-> 1000, pics |-> <<640, 480>>]]

UvcInputOptions ==
  [options |-> <<"help", "device", "resolution", "fps", "yuv", "quality", "minimum_size",
                 "no_dynctrl", "led">>,
   cases |-> <<"help", "dev", "size", "fps", "format", "gquality", "minimum_size",
               "dynctrls", "nothing">>,
   refuses |-> TRUE,
   before |-> [dev |-> "/dev/video0", size |-> <<640, 480>>, fps |-> 5, format |-> "MJPEG",
               gquality |-> 80, minimum_size |-> 0, dynctrls |-> 1, nothing |-> 0]]

GspcaInputOptions ==
  [options |-> <<"help", "device", "resolution", "format">>,
   cases |-> <<"help", "dev", "window", "palette">>,
   refuses |-> TRUE,
   before |-> [dev |-> "/dev/video0", window |-> <<640, 480>>, palette |-> "jpg"]]

FileOutputOptions ==
  [options |-> <<"help", "folder", "delay", "size", "exceed", "command", "mjpeg", "input">>,
   cases |-> <<"help", "folder", "delay", "ringbuffer_size", "ringbuffer_exceed", "command",
               "input_number">>,
   refuses |-> FALSE,
   before |-> [folder |-> "/tmp", delay |-> 0, ringbuffer_size |-> -1, ringbuffer_exceed |-> 0,
               command |-> None, input_number |-> 0]]

UdpOutputOptions ==
  [options |-> <<"help", "folder", "delay", "command", "port", "input">>,
   cases |-> <<"help", "folder", "delay", "command", "port", "input_number">>,
   refuses |-> FALSE,
   before |-> [folder |-> "/tmp", delay |-> 0, command |-> None, port |-> 0, input_number |-> 0]]

RtspOutputOptions ==
  [options |-> <<"help", "port", "input">>,
   cases |-> <<"help", "port", "input_number">>,
   refuses |-> FALSE,
   before |-> [port |-> 554, input_number |-> 0]]

HttpOutputOptions ==
  [options |-> <<"help", "port", "credentials", "www", "nocommands">>,
   cases |-> <<"help", "conf_port", "credentials", "www_folder", "nocommands">>,
   refuses |-> FALSE,
   before |-> [conf_port |-> 8080, credentials |-> None, www_folder |-> None, nocommands |-> 0]]

(* It takes any number for that of an input.                                *)
AutofocusOptions ==
  [options |-> <<"help", "delay", "input">>,
   cases |-> <<"help", "delay", "number">>,
   refuses |-> FALSE,
   before |-> [delay |-> 10000, number |-> 0]]

Tables ==
  "input_file" :> FileInputOptions @@ "input_testpicture" :> TestInputOptions @@
  "input_uvc" :> UvcInputOptions @@ "output_file" :> FileOutputOptions @@
  "output_udp" :> UdpOutputOptions @@ "output_rtsp" :> RtspOutputOptions @@
  "output_http" :> HttpOutputOptions @@ "input_gspcav1" :> GspcaInputOptions @@
  "output_autofocus" :> AutofocusOptions

-----------------------------------------------------------------------------
(* The switch.                                                             *)

(* A resolution is a pair of numbers, or one of these names.                *)
resolutions ==
  <<"QSIF">> :> <<160, 120>> @@ <<"QCIF">> :> <<176, 144>> @@ <<"CGA">> :> <<320, 200>> @@
  <<"QVGA">> :> <<320, 240>> @@ <<"CIF">> :> <<352, 288>> @@ <<"VGA">> :> <<640, 480>> @@
  <<"SVGA">> :> <<800, 600>> @@ <<"XGA">> :> <<1024, 768>> @@ <<"SXGA">> :> <<1280, 1024>>
gspcaResolutions ==
  <<"QSIF">> :> <<160, 120>> @@ <<"QCIF">> :> <<176, 144>> @@ <<"QVGA">> :> <<320, 240>> @@
  <<"CIF">> :> <<352, 288>> @@ <<"SIF">> :> <<384, 288>> @@ <<"VGA">> :> <<640, 480>> @@
  <<"PAL">> :> <<768, 576>> @@ <<"SVGA">> :> <<800, 600>> @@ <<"960x720">> :> <<960, 720>>
gspcaFormats == {"r16", "r24", "r32", "yuv", "jpg"}
TestPictures == {<<960, 720>>, <<640, 480>>, <<320, 240>>, <<160, 120>>}

AtMost(n, limit) == IF n > limit THEN limit ELSE n
AtLeast(n, limit) == IF n < limit THEN limit ELSE n

(* What a case does with the value.                                         *)
Set(config, case, value) ==
  CASE case = "nothing" -> config
    [] case \in {"rm", "nocommands"} -> [config EXCEPT ![case] = 1]
    [] case = "dynctrls" -> [config EXCEPT !.dynctrls = 0]
    [] case = "format" -> [config EXCEPT !.format = "YUYV"]
    [] case = "gquality" -> [config EXCEPT !.format = "YUYV", !.gquality = AtMost(AtLeast(value, 0), 100)]
    [] case = "minimum_size" -> [config EXCEPT !.minimum_size = AtLeast(value, 0)]
    [] case = "pics" -> IF value \in TestPictures THEN [config EXCEPT !.pics = value] ELSE config
    [] case = "size" -> [config EXCEPT !.size = IF value \in DOMAIN resolutions THEN resolutions[value] ELSE value]
    [] case = "window" -> [config EXCEPT !.window = IF value \in DOMAIN gspcaResolutions THEN gspcaResolutions[value] ELSE value]
    [] case = "palette" -> IF value \in gspcaFormats THEN [config EXCEPT !.palette = value] ELSE config
    [] case = "conf_port" -> [config EXCEPT !.conf_port = value % 65536]
    [] OTHER -> [config EXCEPT ![case] = value]

Index(table, option) == SelectInSeq(table.options, LAMBDA o : o = option)

(* c.ok: init has not returned 1.  A case the switch lacks does nothing,     *)
(* unless there is a default case.                                         *)
Take(table, c, a) ==
  LET k == Index(table, a.opt)
      refused == [c EXCEPT !.ok = FALSE]
  IN  IF k = 0 THEN refused
      ELSE IF k > Len(table.cases) THEN (IF table.refuses THEN refused ELSE c)
      ELSE IF table.cases[k] = "help" THEN refused
      ELSE [c EXCEPT !.config = Set(@, table.cases[k], a.value)]

(* split_parameters gives up on too many words and leaves argc at 0.        *)
split_parameters(args) == IF WordCount(args) + 1 >= MAX_PLUGIN_ARGUMENTS THEN <<>> ELSE args

(* input_file wants a folder; the outputs that may read another input want  *)
(* it to be loaded.                                                        *)
Acceptable(config) ==
  /\ "filename" \in DOMAIN config => config.folder # None
  /\ "input_number" \in DOMAIN config => config.input_number < incnt

(* Mutant: the first of several values counts.                              *)
initFirst(plugin, args) ==
  LET c == FoldLeft(LAMBDA d, a : Take(Tables[plugin], d, a),
                    [ok |-> TRUE, config |-> Tables[plugin].before], Reverse(split_parameters(args)))
  IN  [c EXCEPT !.ok = @ /\ Acceptable(c.config)]

(* input_init and output_init, after split_parameters.                      *)
init(plugin, args) ==
  LET c == FoldLeft(LAMBDA d, a : IF d.ok THEN Take(Tables[plugin], d, a) ELSE d,
                    [ok |-> TRUE, config |-> Tables[plugin].before], split_parameters(args))
  IN  [c EXCEPT !.ok = @ /\ Acceptable(c.config)]

-----------------------------------------------------------------------------
(* main's own options: what of them end the program, the plugins they name  *)
(* in their order, and the output when none is named.                      *)

DefaultOutput == [plugin |-> "output_http", args |-> << [opt |-> "port", value |-> 8080] >>]

main(arguments) ==
  LET Named(opt) == SelectSeq(arguments, LAMBDA a : a.opt = opt)
      Plugins(opt) == [k \in DOMAIN Named(opt) |-> Named(opt)[k].value]
  IN  [ok |-> \A k \in DOMAIN arguments : arguments[k].opt \in {"input", "output", "background"},
       input |-> Plugins("input"),
       output |-> IF Named("output") = <<>> THEN <<DefaultOutput>> ELSE Plugins("output")]

(* What the help texts say an option sets.                                  *)
FileInputHelp == "delay" :> "delay" @@ "folder" :> "folder" @@ "remove" :> "rm" @@ "name" :> "filename"
TestInputHelp == "delay" :> "delay" @@ "resolution" :> "pics"
UvcInputHelp ==
  "device" :> "dev" @@ "resolution" :> "size" @@ "fps" :> "fps" @@ "quality" :> "gquality" @@
  "minimum_size" :> "minimum_size"
GspcaInputHelp == "device" :> "dev" @@ "resolution" :> "window" @@ "format" :> "palette"
AutofocusHelp == "delay" :> "delay"
FileOutputHelp ==
  "folder" :> "folder" @@ "delay" :> "delay" @@ "size" :> "ringbuffer_size" @@
  "exceed" :> "ringbuffer_exceed" @@ "command" :> "command" @@ "input" :> "input_number"
UdpOutputHelp ==
  "folder" :> "folder" @@ "delay" :> "delay" @@ "command" :> "command" @@ "port" :> "port" @@
  "input" :> "input_number"
RtspOutputHelp == "port" :> "port" @@ "input" :> "input_number"
HttpOutputHelp == "www" :> "www_folder" @@ "port" :> "conf_port" @@ "credentials" :> "credentials"

HelpText ==
  "input_file" :> FileInputHelp @@ "input_testpicture" :> TestInputHelp @@
  "input_uvc" :> UvcInputHelp @@ "output_file" :> FileOutputHelp @@ "output_udp" :> UdpOutputHelp @@
  "output_rtsp" :> RtspOutputHelp @@ "output_http" :> HttpOutputHelp @@
  "input_gspcav1" :> GspcaInputHelp @@ "output_autofocus" :> AutofocusHelp

(* An option of the help text that is given is given effect, with the last  *)
(* of its values.                                                          *)
Delivered(plugin, args, config) ==
  \A k \in DOMAIN args :
    (args[k].opt \in DOMAIN HelpText[plugin] /\ \A h \in k + 1 .. Len(args) : args[h].opt # args[k].opt) =>
       config[HelpText[plugin][args[k].opt]] = args[k].value
=============================================================================
