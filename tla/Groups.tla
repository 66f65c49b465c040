------------------------------- MODULE Groups -------------------------------
(***************************************************************************)
(* What the default configuration makes of a node: classify.c guesses its  *)
(* type from its card, the functions of router.c accept it into a routing  *)
(* group and rank it there, and murphy-config.c says which class of        *)
(* streams is routed by which group and how important it is.               *)
(*                                                                         *)
(* The router takes all of this as given; here it is for its instances.    *)
(***************************************************************************)
EXTENDS Integers, Sequences, SequencesExt

(* mir_node_type: the devices in the order of their numbers.               *)
DeviceTypes == << "null", "speakers", "front_speakers", "rear_speakers", "microphone",
                  "jack", "hdmi", "spdif", "wired_headset", "wired_headphone",
                  "usb_headset", "usb_headphone", "bluetooth_sco", "bluetooth_a2dp",
                  "bluetooth_carkit", "bluetooth_source", "bluetooth_sink",
                  "gateway_sink", "gateway_source" >>
DeviceType == ToSet(DeviceTypes)
ApplicationClass == {"radio", "player", "navigator", "game", "browser", "camera", "phone",
                     "alert", "event", "system"}
Type == DeviceType \cup ApplicationClass \cup {"unknown"}
Code == [t \in DeviceType |-> (CHOOSE k \in DOMAIN DeviceTypes : DeviceTypes[k] = t) - 1]

Privacy == {"unknown", "public", "private"}
PrivacyCode == [p \in Privacy |-> CASE p = "unknown" -> 0 [] p = "public" -> 1
                                    [] p = "private" -> 2]
Location == {"unknown", "internal", "external"}
LocationCode == [l \in Location |-> CASE l = "unknown" -> 0 [] l = "internal" -> 1
                                      [] l = "external" -> 2]

(* role is that of the sink or source it had when it was registered.       *)
Node == [type : Type, direction : {"input", "output"}, channels : 0..32,
         privacy : Privacy, location : Location,
         role : {"none", "hfp_uplink", "hfp_downlink"}]

-----------------------------------------------------------------------------
(* pa_classify_guess_device_node_type_and_name, with what the name of the  *)
(* port contains in place of the name.                                     *)
TypeOfPort(port, dir) ==
  CASE port = "headphone" /\ dir = "output" -> "wired_headphone"
    [] port = "headset" -> "wired_headset"
    [] port = "line" -> "jack"
    [] port = "spdif" -> "spdif"
    [] port = "hdmi" -> "hdmi"
    [] port = "microphone" /\ dir = "input" -> "microphone"
    [] port = "analog" -> IF dir = "output" THEN "speakers" ELSE "jack"
    [] OTHER -> "unknown"

TypeOfProfile(profile) ==
  CASE profile = "a2dp" -> "bluetooth_a2dp"
    [] profile = "hsp" -> "bluetooth_sco"
    [] profile = "hfgw" -> "bluetooth_carkit"
    [] profile = "a2dp_source" -> "bluetooth_source"
    [] profile = "a2dp_sink" -> "bluetooth_sink"
    [] OTHER -> "unknown"

(* pa_classify_node_by_card: the type by the card's form factor and bus.   *)
(* A handset has the type of an application class.                         *)
TypeByCard(form, bus, profile, port, dir) ==
  CASE form = "internal" \/ (form = "none" /\ bus = "pci") ->
         IF port # "none" /\ bus = "pci" THEN TypeOfPort(port, dir) ELSE "unknown"
    [] form \in {"speaker", "car"} -> IF dir = "output" THEN "speakers" ELSE "unknown"
    [] form = "handset" -> "phone"
    [] form = "headset" ->
         IF bus = "usb" THEN "usb_headset"
         ELSE IF bus # "bluetooth" THEN "wired_headset"
         ELSE IF profile = "a2dp" THEN "bluetooth_a2dp" ELSE "bluetooth_sco"
    [] form = "headphone" /\ dir = "output" /\ bus # "bluetooth" ->
         IF bus = "usb" THEN "usb_headphone" ELSE "wired_headphone"
    [] form = "microphone" /\ dir = "input" -> "microphone"
    [] form \in {"phone", "none"} /\ bus = "bluetooth" -> TypeOfProfile(profile)
    [] OTHER -> "unknown"

(* An internal card is said to be external, too.                           *)
LocationByCard(form, type) ==
  CASE form \in {"speaker", "car"} /\ type = "speakers" -> "internal"
    [] form \in {"internal", "handset", "headset"} -> "external"
    [] form \in {"headphone", "microphone", "phone"} /\ type # "unknown" -> "external"
    [] OTHER -> "unknown"

PrivacyOf(type, dir) ==
  CASE dir = "input" \/ type \in {"null", "jack", "spdif", "hdmi", "bluetooth_sink"} -> "unknown"
    [] dir = "output" /\ type \in {"phone", "wired_headset", "wired_headphone", "usb_headset",
                                   "usb_headphone", "bluetooth_sco", "bluetooth_a2dp"} -> "private"
    [] OTHER -> "public"

ClassifyByCard(form, bus, profile, port, dir, channels) ==
  LET type == TypeByCard(form, bus, profile, port, dir)
  IN  [type |-> type, direction |-> dir, channels |-> channels,
       privacy |-> PrivacyOf(type, dir), location |-> LocationByCard(form, type),
       role |-> "none"]

(* pa_discover_add_sink for the null sink.                                 *)
NullNode(channels) ==
  [type |-> "null", direction |-> "output", channels |-> channels,
   privacy |-> "unknown", location |-> "unknown", role |-> "none"]

(* ... for other sinks without a card; a tunnel's type is "speakers".      *)
StaticNode(type, channels) ==
  [NullNode(channels) EXCEPT !.type = type,
     !.privacy = IF type = "gateway_sink" THEN "private" ELSE "public"]

-----------------------------------------------------------------------------
(* mir_router_default_accept.                                              *)
DefaultAccept(n) ==
  /\ n.type \in DeviceType \ {"bluetooth_carkit"}
  /\ n.type \in {"jack", "hdmi"} =>
       n.role # IF n.direction = "input" THEN "hfp_uplink" ELSE "hfp_downlink"

(* mir_router_phone_accept.                                                *)
PhoneAccept(n) ==
  n.type \in DeviceType \ {"bluetooth_a2dp", "spdif", "jack", "bluetooth_source",
                           "bluetooth_sink", "bluetooth_carkit"}

(* mir_router_default_compare, by the number it makes of a node: the null  *)
(* sink comes first, and otherwise five bits of channels, five of privacy, *)
(* two of the location and eight of the type.                              *)
DefaultRank(n) ==
  IF n.type = "null" THEN -1
  ELSE (((n.channels % 32) * 32 + PrivacyCode[n.privacy]) * 4 + LocationCode[n.location]) * 256
         + Code[n.type]

(* mir_router_phone_compare.                                               *)
PhoneRank(n) ==
  IF n.type = "null" THEN -1 ELSE PrivacyCode[n.privacy] * 256 + Code[n.type]

-----------------------------------------------------------------------------
(* use_default_configuration.  A group has a direction and a name; it can  *)
(* only have device nodes of its direction.                                *)
Group == {<<"output", "default">>, <<"output", "phone">>, <<"input", "phone">>}
GroupAccepts(g, n) ==
  n.direction = g[1] /\ IF g[2] = "phone" THEN PhoneAccept(n) ELSE DefaultAccept(n)
GroupRank(g, n) == IF g[2] = "phone" THEN PhoneRank(n) ELSE DefaultRank(n)

(* The group each class is routed by, to output or from input devices, in  *)
(* the zone of the driver.  The only recording streams are calls.          *)
ClassMap ==
  [c \in {"output"} \X {"radio", "player", "navigator", "game", "browser", "phone", "event"}
           \cup {<<"input", "phone">>} |->
     IF c[2] = "phone" THEN c ELSE <<c[1], "default">>]
PriorMap ==
  [c \in {"radio", "player", "navigator", "game", "browser", "phone", "event"} |->
     CASE c = "event" -> 5 [] c = "phone" -> 4 [] c = "game" -> 3
       [] c = "navigator" -> 2 [] OTHER -> 1]

RoleMap ==
  [r \in {"video", "music", "test", "game", "event", "navigator", "phone", "carkit",
          "animation", "ringtone", "alarm", "camera", "system"} |->
     CASE r \in {"video", "music", "test"} -> "player" [] r = "carkit" -> "phone"
       [] r = "animation" -> "browser" [] r \in {"ringtone", "alarm"} -> "alert"
       [] OTHER -> r]
BinMap ==
  [b \in {"rhytmbox", "firefox", "chrome", "sound-juicer"} |->
     IF b \in {"firefox", "chrome"} THEN "browser" ELSE "player"]

-----------------------------------------------------------------------------
(* pa_classify_guess_stream_node_type: by the binary, else by the role of  *)
(* the stream; a web process without a process id is a player.             *)
StreamClass(bin, role) ==
  CASE bin = "WebProcess without pid" -> "player"
    [] bin \in DOMAIN BinMap -> BinMap[bin]
    [] bin \notin DOMAIN BinMap /\ role \in DOMAIN RoleMap -> RoleMap[role]
    [] OTHER -> IF role = "none" THEN "player" ELSE "unknown"

(* pa_classify_guess_application_class: a looped back source has the class *)
(* of what it brings.                                                      *)
ClassOfSource(type) ==
  CASE type = "bluetooth_carkit" -> "phone"
    [] type = "bluetooth_source" -> "player"
    [] OTHER -> "unknown"

(* node_priority; a class that is not in the map has priority 0.           *)
NodePriority(class) == IF class \in DOMAIN PriorMap THEN PriorMap[class] ELSE 0
=============================================================================
