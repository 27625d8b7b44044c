--------------------------- MODULE Configuration ---------------------------
(***************************************************************************)
(* From the command line to the configuration (CliArgs::into_config).  The *)
(* other modules assume of their constants what this one shows of every    *)
(* configuration that is accepted.  Texts are sequences of three kinds of  *)
(* characters, None is an option that is not given; ports and the command  *)
(* line parser are left out.                                               *)
(***************************************************************************)
EXTENDS Naturals, Sequences, SequencesExt

CONSTANTS
    Numbers, Texts,  \* the values given for options
    Files,           \* password files: their text, or Unreadable
    None, Unreadable, Refused

Characters == {"letter", "space", "slash"}

ASSUME ConfigurationAssumption ==
    /\ Numbers \subseteq Nat
    /\ Texts \cup (Files \ {Unreadable}) \subseteq Seq(Characters)
    /\ None \notin Texts /\ None \notin Files

VARIABLES args, config  \* None until args are converted, Refused if they are not

configVars == <<args, config>>

Numeric == {"timeout", "interval", "management_interval", "scan_start", "scan_end",
            "initial_delay", "max_delay", "stats_interval"}

Textual == {"source_host", "mqtt_host", "discovery_prefix", "topic_prefix"}

\* The values an option may have
Values(option) ==
    CASE option \in Numeric -> Numbers
      [] option \in Textual -> Texts
      [] option \in {"user", "password"} -> Texts \cup {None}
      [] option = "password_file" -> Files \cup {None}

Options == Numeric \cup Textual \cup {"user", "password", "password_file"}

\* str::trim and str::trim_matches: without the characters c at both ends
Trim(text, c) ==
    LET kept == {k \in DOMAIN text : text[k] # c}
    IN  IF kept = {} THEN <<>>
        ELSE SubSeq(text, CHOOSE k \in kept : \A l \in kept : k <= l,
                          CHOOSE k \in kept : \A l \in kept : l <= k)

Blank(text) == Trim(text, "space") = <<>>

\* Mutant: the slashes go first, and those behind a space stay.
NormalizeReversed(value) == Trim(Trim(value, "slash"), "space")

\* normalize_topic_segment; an empty result is an error
Normalize(value) == Trim(Trim(value, "space"), "slash")

Usual ==
    [o \in Options |-> IF o \in Numeric THEN 1 ELSE
                       IF o \in Textual \cup {"user"} THEN <<"letter">> ELSE None]

\* The usual arguments but for any two options
ConfigInit ==
    /\ \E f, g \in Options : \E x \in Values(f), y \in Values(g) :
          args = [[Usual EXCEPT ![f] = x] EXCEPT ![g] = y]
    /\ config = None

\* load_password; Refused for two passwords, and for a file that cannot be
\* read or is blank
LoadPassword(password, file) ==
    CASE password # None /\ file # None -> Refused
      [] password # None /\ file = None -> password
      [] password = None /\ file = None -> None
      [] OTHER -> IF file = Unreadable \/ Blank(file) THEN Refused ELSE Trim(file, "space")

Password == LoadPassword(args["password"], args["password_file"])

\* Mutant: the delays are compared after one doubling.
DelaysOrderedLoosely(a) == a["initial_delay"] <= 2 * a["max_delay"]

DelaysOrdered(a) == a["initial_delay"] <= a["max_delay"]

Valid ==
    /\ ~Blank(args["source_host"]) /\ ~Blank(args["mqtt_host"])
    /\ \A o \in Numeric \ {"scan_start", "scan_end"} : args[o] # 0
    /\ args["scan_start"] <= args["scan_end"]
    /\ DelaysOrdered(args)
    /\ Password # Refused
    /\ Password # None => args["user"] # None
    /\ Normalize(args["discovery_prefix"]) # <<>> /\ Normalize(args["topic_prefix"]) # <<>>

Accepted ==
    [o \in Options |->
        CASE o \in {"source_host", "mqtt_host"} -> Trim(args[o], "space")
          [] o \in {"discovery_prefix", "topic_prefix"} -> Normalize(args[o])
          [] o = "user" -> IF args[o] = None THEN None ELSE Trim(args[o], "space")
          [] o = "password" -> Password
          [] OTHER -> args[o]]

IntoConfig ==
    /\ config = None
    /\ config' = IF Valid THEN Accepted ELSE Refused
    /\ UNCHANGED args

ConfigNext == IntoConfig

ConfigSpec == ConfigInit /\ [][ConfigNext]_configVars

Running == config \notin {None, Refused}
-----------------------------------------------------------------------------
(* What the other modules assume of their constants holds of every         *)
(* configuration that is accepted: LinkAssumption of SourceLink and        *)
(* DelayAssumption of AdapterSession.  No time is zero, which a socket     *)
(* refuses for a timeout, and which would make the retry loop spin.        *)
AssumptionsMet ==
    Running =>
        /\ config["scan_start"] \in Nat /\ config["scan_end"] \in Nat
        /\ config["scan_start"] <= config["scan_end"]
        /\ config["initial_delay"] \in Nat \ {0} /\ config["max_delay"] \in Nat
        /\ config["initial_delay"] <= config["max_delay"]
        /\ {config[o] : o \in {"timeout", "interval", "management_interval",
                                "stats_interval"}} \subseteq Nat \ {0}

\* No empty level at either end of what is put together behind the prefix
PrefixUsable ==
    \A p \in {config["discovery_prefix"], config["topic_prefix"]} :
        p # <<>> /\ Head(p) # "slash" /\ Last(p) # "slash"

\* The password is the only one that was given, and goes with a user.
OneSecret ==
    config["password"] # None =>
        /\ args["user"] # None
        /\ \/ args["password_file"] = None /\ config["password"] = args["password"]
           \/ args["password"] = None /\ args["password_file"] # Unreadable
              /\ ~Blank(config["password"])

(* The texts of an accepted configuration can be used as they are: topics  *)
(* are put together with a slash behind the prefix and get no empty level, *)
(* and it is never left open which of two passwords counts                 *)
(* (normalize_topic_segment, load_password).                               *)
TextsUsable == Running => PrefixUsable /\ OneSecret
=============================================================================
