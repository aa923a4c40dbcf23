----------------------------- MODULE MCStorage ------------------------------
(* Storage with the clients of the repository's tests and of every way to name a  *)
(* profile, and rates at and above the smallest one the command line accepts.     *)
EXTENDS ClientTests

CONSTANTS w1, w2

Rated(rate, batch) == [make_test_config EXCEPT !.rate = rate, !.batch = batch]

(* Rates whose tenth is exact, rounded down a little and rounded down a lot. *)
MCRates == {Rated(10, 10), Rated(10, 3), Rated(19, 19), Rated(25, 7)}

MCProfiles ==
    {Row(Client("Profile", p, f, g, r), <<>>) :
        p \in {"default", "aws", "creds-in-config"},
        f \in {None, "config", "config with keys"},
        g \in {None, "credentials", "credentials beside it"}, r \in {None, "given"}}

SafetyCases == Tests \cup MCProfiles \cup MCRates
MCDefaultFiles == {"config with keys"}
=============================================================================
