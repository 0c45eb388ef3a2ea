\* A login, then an erasure: the step of the erasure is what the property is about.
SPECIFICATION Spec
CONSTANTS
    Users = {u1}
    Keys = {k1}
    Aliases = {a1}
    Emails = {e1}
    Providers = {"bank"}
    Identifiers = {"iban"}
    Accepted <- AcceptedByProvider
    Methods = {m1}
    Addresses = {ip1}
    Kinds = {"message", "picture"}
    Requests = {r1}
PROPERTY AddressesErased
