----------------------------- MODULE MCPlugins -----------------------------
EXTENDS Plugins

CONSTANTS b1, b2    \* browsers

Arg(o, v) == [opt |-> o, value |-> v]
Plugin(p, args) == [plugin |-> p, args |-> args]
Line(i, o) == << Arg("input", i), Arg("output", o) >>

SomeNames == {"a", "b"}

FileInputs ==
  {Plugin("input_file", <<Arg("folder", "in")>> \o more) :
     more \in {<<>>, <<Arg("name", "b"), Arg("name", "a")>>, <<Arg("remove", 1)>>}}
ATestInput == Plugin("input_testpicture", <<Arg("delay", 5), Arg("delay", 1)>>)
Rings ==
  {Plugin("output_file", <<Arg("size", 1), Arg("exceed", 1)>>), Plugin("output_file", <<Arg("size", 2)>>)}
AUdpOutput == Plugin("output_udp", <<Arg("port", 1), Arg("port", 2)>>)

(* input_file with an output that ends at once, for want of a port, and     *)
(* with one that does not.                                                 *)
SimulatedLines ==
  {Line(i, Plugin("output_udp", <<>>)) : i \in FileInputs}
    \cup {Line(Plugin("input_file", <<Arg("folder", "in")>> \o more), AUdpOutput) :
            more \in {<<>>, <<Arg("remove", 1)>>}}
    \cup {Line(Plugin("input_gspcav1", <<>>), AUdpOutput)}
    \cup {Line(ATestInput, o) : o \in Rings \cup {AUdpOutput, Plugin("output_rtsp", <<Arg("port", 5)>>)}}

(* Up to three options of any plugin, and what the help text does not have. *)
Values ==
  "input_file" :> {Arg("delay", 1), Arg("delay", 2), Arg("folder", "in"), Arg("remove", 1), Arg("name", "a")} @@
  "input_testpicture" :> {Arg("delay", 1), Arg("resolution", <<320, 240>>), Arg("resolution", <<960, 720>>)} @@
  "input_uvc" :> {Arg("device", "v"), Arg("resolution", <<1, 2>>), Arg("fps", 3), Arg("fps", 4), Arg("yuv", 1),
                  Arg("quality", 50), Arg("minimum_size", 7), Arg("no_dynctrl", 1), Arg("led", "on"), Arg("help", 1)} @@
  "input_gspcav1" :> {Arg("device", "v"), Arg("resolution", <<176, 144>>), Arg("resolution", <<800, 600>>), Arg("format", "yuv"), Arg("format", "jpg")} @@
  "output_autofocus" :> {Arg("delay", 1), Arg("delay", 2), Arg("input", 0)} @@
  "output_file" :> {Arg("folder", "out"), Arg("delay", 1), Arg("size", 2), Arg("exceed", 3), Arg("command", "c")} @@
  "output_udp" :> {Arg("folder", "out"), Arg("delay", 1), Arg("command", "c"), Arg("port", 4), Arg("input", 0), Arg("input", 1)} @@
  "output_rtsp" :> {Arg("port", 4), Arg("port", 5), Arg("input", 0)} @@
  "output_http" :> {Arg("port", 80), Arg("credentials", "u:p"), Arg("www", "w"), Arg("nocommands", 1), Arg("mistake", 1)}

UpTo3(S) == UNION {[1 .. n -> S] : n \in 0 .. 3}

OptionLines ==
  {Line(Plugin(p, args), DefaultOutput) : <<p, args>> \in
     UNION {{p} \X UpTo3(Values[p]) : p \in {"input_file", "input_testpicture", "input_gspcav1"}}}
  \cup {Line(Plugin("input_uvc", args), Plugin("output_file", <<>>)) : args \in UpTo3(Values["input_uvc"])}
  \cup
  {Line(Plugin("input_uvc", <<>>), Plugin(p, args)) : <<p, args>> \in
     UNION {{p} \X UpTo3(Values[p]) : p \in {"output_file", "output_udp", "output_rtsp", "output_autofocus"}}}
  \cup {Line(ATestInput, Plugin("output_http", args)) : args \in UpTo3(Values["output_http"])}

(* output_http with the default parameters, and otherwise.                  *)
ServingLines ==
  { << Arg("input", Plugin("input_uvc", <<>>)) >> }
  \cup {Line(Plugin("input_uvc", <<>>), Plugin("output_http", args)) :
          args \in { <<Arg("credentials", "u:p")>>, <<Arg("nocommands", 1), Arg("www", "w")>> } }

(* Webcams that have any sizes, or any palettes, and what is asked of them. *)
WebcamLine(wanted, palette) ==
  Line(Plugin("input_gspcav1", <<Arg("resolution", wanted), Arg("format", palette)>>), DefaultOutput)
Wanted == ToSet(Sizes) \cup {<<800, 600>>, <<0, 480>>}
SizeLines == {WebcamLine(wanted, "jpg") : wanted \in Wanted}
PaletteLines == {WebcamLine(<<352, 288>>, palette) : palette \in ToSet(Palettes)}

AWebcam == [sizes |-> ToSet(Sizes), palettes |-> ToSet(Palettes), maxwidth |-> 640, minwidth |-> 160, depth |-> 0, strict |-> FALSE]
WebcamsFor(l) ==
  IF l \in SizeLines
  THEN {[AWebcam EXCEPT !.sizes = s] : s \in SUBSET ToSet(Sizes)}
         \cup {[AWebcam EXCEPT !.maxwidth = 352, !.minwidth = 176]}
  ELSE IF l \in PaletteLines
  THEN {[AWebcam EXCEPT !.palettes = p, !.depth = d, !.strict = strict] :
          p \in SUBSET ToSet(Palettes), d \in {0, 24}, strict \in BOOLEAN}
  ELSE {AWebcam}

Lines == SizeLines \cup PaletteLines \cup SimulatedLines \cup OptionLines \cup ServingLines

-----------------------------------------------------------------------------
(* What browsers ask.                                                      *)

Word == [is |-> "request", type |-> "file", number |-> 0, given |-> <<>>, escape |-> "right",
         extension |-> "known", exists |-> TRUE]
Of(type, number) == [Word EXCEPT !.type = type, !.number = number]
File(extension, exists) == [Word EXCEPT !.extension = extension, !.exists = exists]
CommandOf(given) == [Word EXCEPT !.type = "command", !.given = given]
To(i, group, value) == CommandOf("id" :> i @@ "group" :> group @@ "value" :> value)

Other == [is |-> "other"]
Right == [is |-> "Authorization", text |-> "u:p"]
Wrong == [is |-> "Authorization", text |-> "u:q"]

FirstLines ==
  { <<Of(type, n)>> : type \in {"snapshot", "stream", "input.json", "output.json", "program.json"}, n \in {0, 1} }
  \cup { <<File(e, TRUE)>> : e \in {"none", "unknown", "known"} } \cup { <<File("known", FALSE)>>, <<Other>> }
  \cup { <<[To(10, 1, 1) EXCEPT !.escape = "wrong"]>>, <<CommandOf(<<>>)>>, <<Other, To(10, 1, 1), Other>>,
         <<CommandOf("id" :> 10 @@ "group" :> 1 @@ "dest" :> 1)>>, <<CommandOf("id" :> 10 @@ "plugin" :> 1)>> }

Headers == { <<>>, << <<Right>> >>, << <<Wrong>>, <<Other, Right>> >>, << <<Right>>, <<Wrong>> >>,
             << <<[is |-> "User-Agent"]>>, <<Other, Other, Other, Other, Right>> >> }

(* One camera names its controls one after the other, one does not and has  *)
(* gaps; the value of one control cannot be asked for.                     *)
Range2(value) == [minimum |-> 0, maximum |-> 2, value |-> value, readable |-> TRUE]
Camera1 == [next |-> TRUE, resolutions |-> 2, quality |-> 0, memory |-> "extended", controls |-> 10 :> Range2(1) @@ 11 :> Range2(2) @@ 30 :> Range2(0)]
Camera2 == [next |-> FALSE, resolutions |-> 1, quality |-> 50, memory |-> "user",
            controls |-> 11 :> [Range2(0) EXCEPT !.readable = FALSE] @@ 13 :> Range2(2) @@ 20 :> Range2(1)
                           @@ 22 :> Range2(1) @@ 30 :> Range2(1)]

Commands ==
  {To(i, 1, 1) : i \in {10, 11, 13, 20, 22, 30, 1}}
  \cup {To(11, 1, 2), To(13, 1, 0), To(11, 1, 3), To(20, 1, 3), To(11, 0, 1), To(11, 4, 1), To(0, 2, 1), To(1, 3, 100), To(1, 3, 101)}

Asking(camera, m1, m2) == [camera |-> camera, message |-> b1 :> m1 @@ b2 :> m2]

SomeSituations ==
  {Asking(Camera1, <<first>> \o headers, NoMessage) : first \in FirstLines, headers \in Headers}
  \cup {Asking(camera, << <<w1>> >>, << <<w2>>, <<Right>> >>) : camera \in {Camera1, Camera2}, w1 \in Commands, w2 \in {To(10, 1, 0), To(11, 1, 0), To(13, 1, 1), To(30, 1, 2)}}
=============================================================================
