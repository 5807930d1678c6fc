------------------------------- MODULE Pairing -------------------------------
(***************************************************************************)
(* Pairing a device with a short code (crates/stitch-p2p/src/pairing.rs):  *)
(* the owner's offer, and the devices that try it, each over a connection  *)
(* of its own with the key that the transport has verified.  Users mistype *)
(* codes and devices try again; messages may be lost, or carried to an     *)
(* attempt they were not meant for.                                        *)
(*                                                                         *)
(* Secrets are symbolic: SPAKE2 gives both sides the same one exactly when *)
(* the password, the two keys and the two messages agree, and a MAC is the *)
(* pair of its key and its transcript.  The application hands the owner's  *)
(* state machine the messages of one connection.                           *)
(***************************************************************************)
EXTENDS Naturals, Sequences

CONSTANTS
    Devices, Owner,
    Codes,         \* what users may enter: codes of six digits, and others
    SixDigits,     \* those of Codes that are six digits
    OfferTtl,      \* OFFER_TTL_MS, in ticks
    MaxOffers,     \* bound on offers
    MaxTries,      \* bound on the attempts of devices
    MaxClock       \* bound on time

ASSUME PairingAssumption == Owner \notin Devices

VARIABLES
    clock,
    owner,     \* the offer or OwnerConfirm, or idle
    device,    \* for each device, PairingDevice or DeviceConfirm, or idle
    flights,   \* the messages sent so far
    learned,   \* history: what owner and devices were told: [by, peer, transcript]
    offers, tries

pvars == <<clock, owner, device, flights, learned, offers, tries>>

IdleParty == [step |-> "idle"]
Message(kind, from, body) == [kind |-> kind, from |-> from, body |-> body]

\* A party's SPAKE2 message is fresh and depends on its password and on both keys.
start(side, n, code, owner_key, device_key) ==
    [side |-> side, n |-> n, code |-> code, owner |-> owner_key, device |-> device_key]

\* The secret of a party whose own message is mine: both see the same when the other's
\* message was made with the same password and keys.
finish_spake(a, b, mine) ==
    IF [a EXCEPT !.side = "", !.n = 0] = [b EXCEPT !.side = "", !.n = 0] THEN <<a, b>> ELSE <<a, b, mine>>

transcript(owner_key, device_key, message_a, message_b) == <<owner_key, device_key, message_a, message_b>>

\* Faulty derive_confirm_keys: both sides confirm with the same key.
derive_confirm_keys_one(secret) == [owner |-> <<"confirm", secret>>, device |-> <<"confirm", secret>>]

derive_confirm_keys(secret) == [owner |-> <<"confirm:owner", secret>>, device |-> <<"confirm:device", secret>>]
compute_mac(key, text) == [key |-> key, text |-> text]
verify_mac(key, text, tag) == tag = compute_mac(key, text)

-----------------------------------------------------------------------------
(* The owner *)

\* PairingOffer::new; an offer not yet taken is replaced.
PairingOffer_new ==
    /\ offers < MaxOffers /\ offers' = offers + 1
    /\ \E code \in SixDigits : owner' = [step |-> "offer", code |-> code, expires_at |-> clock + OfferTtl]
    /\ UNCHANGED <<clock, device, flights, learned, tries>>

\* PairingOffer::accept: the offer is used up, whatever comes of it.
accept(d, m) ==
    /\ owner.step = "offer" /\ m.kind = "hello" /\ m.from = d
    /\ LET a == start("A", offers, owner.code, Owner, d)
           keys == derive_confirm_keys(finish_spake(a, m.body, "A"))
       IN  IF clock > owner.expires_at
           THEN owner' = IdleParty /\ UNCHANGED flights
           ELSE /\ owner' = [step |-> "confirm", keys |-> keys, device |-> d, text |-> transcript(Owner, d, a, m.body)]
                /\ flights' = flights \cup {Message("reply", Owner, a)}
    /\ UNCHANGED <<clock, device, learned, offers, tries>>

\* OwnerConfirm::confirm
confirm(m) ==
    /\ owner.step = "confirm" /\ m.kind = "device_confirm"
    /\ IF verify_mac(owner.keys.device, owner.text, m.body)
       THEN /\ flights' = flights \cup {Message("owner_confirm", Owner, compute_mac(owner.keys.owner, owner.text))}
            /\ learned' = learned \cup {[by |-> Owner, peer |-> owner.device, text |-> owner.text]}
       ELSE UNCHANGED <<flights, learned>>
    /\ owner' = IdleParty
    /\ UNCHANGED <<clock, device, offers, tries>>

-----------------------------------------------------------------------------
(* A device *)

\* PairingCode::parse, then PairingDevice::begin.
parse(code) == code \in SixDigits

begin(d, code) ==
    /\ tries < MaxTries /\ tries' = tries + 1
    /\ parse(code)
    /\ LET b == start("B", tries', code, Owner, d)
       IN  /\ device' = [device EXCEPT ![d] = [step |-> "begun", b |-> b]]
           /\ flights' = flights \cup {Message("hello", d, b)}
    /\ UNCHANGED <<clock, owner, learned, offers>>

\* PairingDevice::receive
receive(d, m) ==
    /\ device[d].step = "begun" /\ m.kind = "reply"
    /\ LET keys == derive_confirm_keys(finish_spake(m.body, device[d].b, "B"))
           text == transcript(Owner, d, m.body, device[d].b)
       IN  /\ device' = [device EXCEPT ![d] = [step |-> "confirm", key |-> keys.owner, text |-> text]]
           /\ flights' = flights \cup {Message("device_confirm", d, compute_mac(keys.device, text))}
    /\ UNCHANGED <<clock, owner, learned, offers, tries>>

\* DeviceConfirm::finish
finish(d, m) ==
    /\ device[d].step = "confirm" /\ m.kind \in {"owner_confirm", "device_confirm"}
    /\ learned' = IF verify_mac(device[d].key, device[d].text, m.body)
                  THEN learned \cup {[by |-> d, peer |-> Owner, text |-> device[d].text]} ELSE learned
    /\ device' = [device EXCEPT ![d] = IdleParty]
    /\ UNCHANGED <<clock, owner, flights, offers, tries>>

-----------------------------------------------------------------------------
TimePasses ==
    /\ clock < MaxClock /\ clock' = clock + 1
    /\ UNCHANGED <<owner, device, flights, learned, offers, tries>>

PairingInit ==
    /\ clock = 0 /\ owner = IdleParty /\ device = [d \in Devices |-> IdleParty]
    /\ flights = {} /\ learned = {} /\ offers = 0 /\ tries = 0

PairingNext ==
    \/ PairingOffer_new \/ TimePasses
    \/ \E d \in Devices, code \in Codes : begin(d, code)
    \/ \E m \in flights : confirm(m) \/ \E d \in Devices : accept(d, m) \/ receive(d, m) \/ finish(d, m)

PairingSpec == PairingInit /\ [][PairingNext]_pvars

-----------------------------------------------------------------------------
\* A device that pins the owner is one the owner has accepted, in the very exchange the
\* device was part of; the owner accepts at most one device for an offer, and only one
\* that was given the offer's code.  This holds although codes are mistyped, attempts
\* repeated and messages of other attempts delivered.
PairedAlike ==
    /\ \A l \in learned : l.by # Owner => [by |-> Owner, peer |-> l.by, text |-> l.text] \in learned
    /\ \A k, l \in learned : k.by = Owner /\ l.by = Owner /\ k.text[3].n = l.text[3].n => k = l
    /\ \A l \in learned : l.text[3].code = l.text[4].code /\ l.text[4].device = (IF l.by = Owner THEN l.peer ELSE l.by)

=============================================================================
