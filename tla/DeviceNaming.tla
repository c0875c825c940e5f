---------------------------- MODULE DeviceNaming ----------------------------
(* The registry with real devices and real texts: the identities are read   *)
(* from device nodes (DeviceIdentity), the slugs are made by slugify, and   *)
(* the topics and identifiers of a record are made of its slug (Texts).     *)
(* What the registry keeps apart must stay apart in the topics, and what    *)
(* the kernel keeps apart must stay apart in the registry.                  *)
EXTENDS DeviceDb, Texts, DeviceIdentity

CONSTANT Hardware  \* the device nodes of the story

(* What the daemon reads from each node.                                    *)
Read == [h \in Hardware |-> from_open_device(h)]

(* `slug_seed`, from the name and the tag that Seed pairs.                  *)
SeedText(seed) == IF Len(seed) = 1 THEN seed[1] ELSE WithTag(seed[1], seed[2])

ASSUME IdentitiesAreRead ==
    Identities = {Read[h] : h \in {d \in Hardware : has_keys(d)}}

ASSUME SlugsAreMade ==
    /\ \A id \in Identities : Slugify[Seed(id)] = slugify(SeedText(Seed(id)))
    /\ \A b \in Bases, n \in 2..MaxSuffix : Numbered[<<b, n>>] = WithNumber(b, n)
    /\ NoText = None /\ Nothing = None

ASSUME NumbersSuffice == EnoughNumbers

ASSUME NumbersAreWords ==
    \A n \in 2..MaxSuffix : ToString(n) \in LowerWords

(* Texts, and codes that the kernel has: none is a mark of the fingerprint. *)
ASSUME HardwareAssumption ==
    \A h \in Hardware :
        /\ h.name = Nothing \/ h.name \in Seq(STRING)
        /\ h.types \in SUBSET (0..KEY_MAX) /\ h.keys \in SUBSET (0..KEY_MAX)
        /\ h.rels \in SUBSET (0..KEY_MAX) /\ h.abss \in SUBSET (0..KEY_MAX)

(* The slugs of an older version were made by the same function.            *)
ASSUME FilesHoldSlugs ==
    \A f \in InitialFiles : \A i \in DOMAIN f : IsSlug(f[i].slug)

-----------------------------------------------------------------------------
(* Every topic the daemon publishes on for a record, and the identifier     *)
(* Home Assistant knows the device by.                                      *)
TopicsOf ==
    [slug \in Slugs |->
        { action_topic(slug), device_info_topic(slug), device_enabled_topic(slug),
          device_discovery_topic(device_identifier(slug)) }]

NamesOf == [slug \in Slugs |-> TopicsOf[slug] \cup {device_identifier(slug)}]

(* The device a topic is taken for, as a command and in a listing.          *)
ParsedAs == [topic \in (UNION {TopicsOf[s] : s \in Slugs}) \cup {availability_topic} |->
                <<parse_enabled_topic(topic), parse_info_slug(topic)>>]

(* No two records share a topic or an identifier, and none takes the topic  *)
(* of the availability: whatever a device is called -- `action`, `_devices` *)
(* or `a/b` --, a slug has neither a slash nor an underscore, so that it is *)
(* one level of a topic and never one of the daemon's own.                  *)
TopicsTellDevicesApart ==
    \A i, j \in DOMAIN devices :
        /\ i # j => NamesOf[devices[i].slug] \cap NamesOf[devices[j].slug] = {}
        /\ availability_topic \notin NamesOf[devices[i].slug]

(* A topic is parsed back to the device it was made for, and to none if it  *)
(* is of another kind: a write to the enabled topic commands that device,   *)
(* and the client lists it under its slug.                                  *)
TopicsLeadBack ==
    \A i \in DOMAIN devices :
        LET slug == devices[i].slug IN
        \A topic \in TopicsOf[slug] \cup {availability_topic} :
            ParsedAs[topic] = CASE topic = device_enabled_topic(slug) -> <<slug, NoText>>
                                [] topic = device_info_topic(slug)    -> <<NoText, slug>>
                                [] OTHER                              -> <<NoText, NoText>>

(* The collections of one receiver never fold into one record: two devices  *)
(* that a record with a fingerprint describes have the same capabilities,   *)
(* section by section ("different sub-devices of a multi-collection HID     *)
(* receiver produce different values", discovery.rs).                       *)
CollectionsStayApart ==
    \A i \in DOMAIN devices : \A g, h \in Hardware :
        /\ devices[i].caps # None
        /\ Matches(devices[i], Read[g])
        /\ Matches(devices[i], Read[h])
        => Capabilities(g) = Capabilities(h)
=============================================================================
