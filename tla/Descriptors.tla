---------------------------- MODULE Descriptors ----------------------------
(***************************************************************************)
(* src/src/usb/usb_device_descriptor.c: the device as it describes itself to   *)
(* the host, the tables from which the CDC class opens its endpoints, and the   *)
(* functions that hand descriptors out. The two say the same thing twice, by   *)
(* hand. Operators only; a descriptor is a record, its length the only thing   *)
(* kept of its bytes besides the fields that something depends on.           *)
(***************************************************************************)
EXTENDS Integers, Sequences, FiniteSetsExt

Speeds == {"FULL", "HIGH"}

InterruptInPacketSize(speed) == 16
InterruptInInterval(speed) == IF speed = "HIGH" THEN 7 ELSE 8
BulkPacketSize(speed) == IF speed = "HIGH" THEN 512 ELSE 64

EndpointRecord(number, direction, type, maxPacketSize, interval) ==
  [number |-> number, direction |-> direction, type |-> type,
   maxPacketSize |-> maxPacketSize, interval |-> interval]
------------------------------------------------------------------------------
(* The class's tables.                                                      *)

CicEndpoints ==
  {EndpointRecord(1, "IN", "INTERRUPT", InterruptInPacketSize("FULL"), InterruptInInterval("FULL"))}

DicEndpoints ==
  {EndpointRecord(2, "IN", "BULK", BulkPacketSize("FULL"), 0),
   EndpointRecord(3, "OUT", "BULK", BulkPacketSize("FULL"), 0)}

COMM_INTERFACE == 0
DATA_INTERFACE == 1
CONFIGURATION_COUNT == 1
CONFIGURE_INDEX == 1

(* g_UsbDeviceCdcVcomInterfaces, each with its one alternate setting.       *)
InterfaceList ==
  {[number |-> COMM_INTERFACE, class |-> "COMM", alternate |-> 0, endpoints |-> CicEndpoints],
   [number |-> DATA_INTERFACE, class |-> "DATA", alternate |-> 0, endpoints |-> DicEndpoints]}
------------------------------------------------------------------------------
(* The descriptors.                                                         *)

DeviceDescriptorLength == 18

Part(type, length) == [type |-> type, length |-> length]

InterfacePart(number, class, count) ==
  [type |-> "INTERFACE", length |-> 9, number |-> number, class |-> class, alternate |-> 0,
   count |-> count]

EndpointPart(number, direction, type, maxPacketSize, interval) ==
  [type |-> "ENDPOINT", length |-> 7,
   endpoint |-> EndpointRecord(number, direction, type, maxPacketSize, interval)]

ConfigurationDescriptor ==
  <<[type |-> "CONFIGURE", length |-> 9, totalLength |-> 9 + 9 + 5 + 5 + 4 + 5 + 7 + 9 + 7 + 7, interfaces |-> 2,
     value |-> CONFIGURE_INDEX],
    InterfacePart(COMM_INTERFACE, "COMM", 1),
    Part("CDC_HEADER_FUNC", 5), Part("CDC_CALL_MANAG", 5),
    Part("CDC_ABSTRACT", 4), Part("CDC_UNION_FUNC", 5),
    EndpointPart(1, "IN", "INTERRUPT", InterruptInPacketSize("FULL"), InterruptInInterval("FULL")),
    InterfacePart(DATA_INTERFACE, "DATA", 2),
    EndpointPart(2, "IN", "BULK", BulkPacketSize("FULL"), 0),
    EndpointPart(3, "OUT", "BULK", BulkPacketSize("FULL"), 0)>>

ConfigurationDescriptorLength ==
  LET sum[i \in 0 .. Len(ConfigurationDescriptor)] ==
        IF i = 0 THEN 0 ELSE sum[i - 1] + ConfigurationDescriptor[i].length
  IN  sum[Len(ConfigurationDescriptor)]

STRING_COUNT == 3

(* languageString, "NXP SEMICONDUCTORS" and "MCU VIRTUAL COM DEMO".         *)
StringLength == [i \in 0 .. STRING_COUNT - 1 |-> CASE i = 0 -> 4 [] i = 1 -> 2 + 2 * 18 [] i = 2 -> 2 + 2 * 20]
StringBuffer == [i \in 0 .. STRING_COUNT - 1 |-> CASE i = 0 -> "string0" [] i = 1 -> "string1" [] i = 2 -> "string2"]

LanguageIds == {1033}    \* 0x0409
------------------------------------------------------------------------------
(* What a getter answers; the default is kStatus_USB_InvalidRequest.        *)

InvalidRequest == [error |-> "InvalidRequest", buffer |-> "NULL", length |-> 0]
Found(buffer, length) == [error |-> "Success", buffer |-> buffer, length |-> length]

GetDeviceDescriptor == Found("device", DeviceDescriptorLength)

GetConfigurationDescriptor(index) ==
  IF index < CONFIGURE_INDEX THEN Found("configuration", ConfigurationDescriptorLength)
  ELSE InvalidRequest

GetStringDescriptor(index, languageId) ==
  IF index = 0 THEN Found(StringBuffer[0], StringLength[0])
  ELSE IF languageId \in LanguageIds /\ index < STRING_COUNT
    THEN Found(StringBuffer[index], StringLength[index])
  ELSE InvalidRequest
------------------------------------------------------------------------------
(* USB_DeviceSetSpeed, which patches both. No code calls it in this build: the  *)
(* controller is a full-speed one.                                          *)

AtSpeed(e, speed) ==
  IF e.direction = "IN" /\ e.number = 1
    THEN [e EXCEPT !.maxPacketSize = InterruptInPacketSize(speed), !.interval = InterruptInInterval(speed)]
  ELSE IF <<e.direction, e.number>> \in {<<"IN", 2>>, <<"OUT", 3>>}
    THEN [e EXCEPT !.maxPacketSize = BulkPacketSize(speed)]
  ELSE e

SetSpeedDescriptor(speed) ==
  [i \in DOMAIN ConfigurationDescriptor |->
     LET part == ConfigurationDescriptor[i]
     IN  IF part.type = "ENDPOINT" THEN [part EXCEPT !.endpoint = AtSpeed(@, speed)] ELSE part]

SetSpeedEndpoints(speed) ==
  {[e EXCEPT !.maxPacketSize = InterruptInPacketSize(speed), !.interval = InterruptInInterval(speed)]
     : e \in CicEndpoints}
    \cup {[e EXCEPT !.maxPacketSize = BulkPacketSize(speed)] : e \in DicEndpoints}
------------------------------------------------------------------------------
(* What a host reads in a configuration descriptor.                         *)

Described(descriptor) ==
  {descriptor[i].endpoint : i \in {j \in DOMAIN descriptor : descriptor[j].type = "ENDPOINT"}}

(* An interface is followed by the endpoints that it counts, before the next.  *)
WellFormed(descriptor) ==
  LET is(t)   == {i \in DOMAIN descriptor : descriptor[i].type = t}
      next(i) == Min({j \in is("INTERFACE") : j > i} \cup {Len(descriptor) + 1})
  IN  /\ descriptor[1].totalLength = ConfigurationDescriptorLength
      /\ descriptor[1].interfaces = Cardinality(is("INTERFACE"))
      /\ \A i \in is("INTERFACE") :
           descriptor[i].count = Cardinality({j \in is("ENDPOINT") : i < j /\ j < next(i)})
==============================================================================
