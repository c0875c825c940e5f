------------------------------- MODULE Texts -------------------------------
(* Names, slugs and topics as texts (slug.rs, topics.rs, the topic parser   *)
(* of client.rs and the key names of hass.rs and monitor.rs).               *)
(*                                                                          *)
(* A text is a sequence of tokens: a word is a maximal run of ASCII letters *)
(* and digits, every other character is a token of its own.  The functions  *)
(* below look at nothing smaller: the prefixes and suffixes they strip      *)
(* begin and end where a token does.                                        *)
EXTENDS Integers, Sequences, TLC

Lists == INSTANCE SequencesExt

CONSTANTS
    NoText,           \* Option::None
    Lower,            \* to_ascii_lowercase: a function on the words
    TopicPrefix,      \* MqttConfig::topic_prefix
    DiscoveryPrefix   \* HassConfig::discovery_prefix

(* The words a slug is made of, letters and digits all of them.             *)
LowerWords == {Lower[word] : word \in DOMAIN Lower} \cup {"unknown"}

ASSUME WordsAssumption == LowerWords \cap {"-", "_", "/"} = {}

ASSUME PrefixesAssumption ==
    TopicPrefix \in Seq(STRING) /\ DiscoveryPrefix \in Seq(STRING)

-----------------------------------------------------------------------------
(* Slugs.                                                                   *)

(* Mutant: an underscore is as good as a hyphen.                            *)
KeepUnderscores(out, token) ==
    CASE token \in DOMAIN Lower -> Append(out, Lower[token])
      [] token = "_" -> Append(out, "_")
      [] token \notin DOMAIN Lower \cup {"_"} /\ out # <<>> -> Append(out, "-")
      [] OTHER -> out

(* A word in lower case, a hyphen for whatever follows one.                 *)
KeepToken(out, token) ==
    CASE token \in DOMAIN Lower -> Append(out, Lower[token])
      [] token \notin DOMAIN Lower /\ out # <<>> /\ Lists!Last(out) # "-" ->
            Append(out, "-")
      [] OTHER -> out

(* The words in lower case with hyphens between them; what is before the    *)
(* first and after the last is dropped.                                     *)
slugify(text) ==
    LET out[n \in 0..Len(text)] ==
            IF n = 0 THEN <<>> ELSE KeepToken(out[n - 1], text[n])
        kept    == out[Len(text)]
        trimmed == IF kept # <<>> /\ Lists!Last(kept) = "-" THEN Lists!Front(kept) ELSE kept
    IN  IF trimmed = <<>> THEN <<"unknown">> ELSE trimmed

(* What slugify promises: words with single hyphens between them.           *)
IsSlug(text) ==
    /\ text \in Seq(LowerWords \cup {"-"})
    /\ text # <<>>
    /\ text[1] # "-" /\ text[Len(text)] # "-"
    /\ \A i \in 2..Len(text) : text[i] = "-" => text[i - 1] # "-"

(* `{base}-{n}`, and the seed of a slug with a tag, `{name} ({tag})`.       *)
WithNumber(base, n) == base \o <<"-", ToString(n)>>
WithTag(name, tag)  == name \o <<" ", "(">> \o tag \o <<")">>

Without(prefix, text) == SubSeq(text, Len(prefix) + 1, Len(text))

key_slug(name) ==
    CASE Lists!IsPrefix(<<"KEY", "_">>, name) -> slugify(Without(<<"KEY", "_">>, name))
      [] Lists!IsPrefix(<<"BTN", "_">>, name) -> slugify(Without(<<"BTN", "_">>, name))
      [] OTHER -> slugify(name)

-----------------------------------------------------------------------------
(* Topics.                                                                  *)

action_topic(slug)         == TopicPrefix \o <<"/">> \o slug \o <<"/", "action">>
availability_topic         == TopicPrefix \o <<"/", "status">>
device_info_topic(slug)    == TopicPrefix \o <<"/", "_", "devices", "/">> \o slug
device_enabled_topic(slug) == device_info_topic(slug) \o <<"/", "enabled">>
device_identifier(slug)    == TopicPrefix \o <<"_">> \o slug

device_discovery_topic(identifier) ==
    DiscoveryPrefix \o <<"/", "device", "/">> \o identifier \o <<"/", "config">>

(* Split `{prefix}/_devices/{slug}` back into its slug.                     *)
parse_info_slug(topic) ==
    LET head == device_info_topic(<<>>)
        rest == Without(head, topic)
    IN  IF Lists!IsPrefix(head, topic) /\ rest # <<>> /\ ~Lists!Contains(rest, "/")
        THEN rest ELSE NoText

(* Mutant: whatever stands before the suffix is taken for a slug.           *)
parse_enabled_anyhow(topic) ==
    LET head == TopicPrefix \o <<"/">>
        tail == <<"/", "enabled">>
    IN  IF Lists!IsPrefix(head, topic) /\ Lists!IsSuffix(tail, topic)
        THEN SubSeq(topic, Len(head) + 1, Len(topic) - Len(tail))
        ELSE NoText

(* Split `{prefix}/_devices/{slug}/enabled` back into its slug.             *)
parse_enabled_topic(topic) ==
    LET head == device_info_topic(<<>>)
        tail == <<"/", "enabled">>
        rest == Without(head, topic)
        slug == SubSeq(rest, 1, Len(rest) - Len(tail))
    IN  IF /\ Lists!IsPrefix(head, topic)
           /\ Lists!IsSuffix(tail, rest)
           /\ slug # <<>> /\ ~Lists!Contains(slug, "/")
        THEN slug ELSE NoText
=============================================================================
