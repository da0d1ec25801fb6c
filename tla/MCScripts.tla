------------------------------ MODULE MCScripts ------------------------------
(* Every program of the script modules, under its name.                     *)
EXTENDS ScriptRules, DiagnosticScripts, QueryScripts, CounterScripts,
        TransmitScripts, StimulusScripts, CaptureScripts, TLC

MCPrograms ==
    "IcapStatus" :> IcapStatus
 @@ "IcapCapture" :> IcapCapture
 @@ "IcsTrace" :> IcsTrace
 @@ "RmacIcs" :> RmacIcs
 @@ "IcsControl" :> IcsControl
 @@ "RxvReport" :> RxvReport
 @@ "LegacyIcs" :> LegacyIcs
 @@ "LegacyIcsOwn" :> LegacyIcsOwn
 @@ "LegacyIcsRf" :> LegacyIcsRf
 @@ "LegacyIcsStage" :> LegacyIcsStage
 @@ "TmacIcs" :> TmacIcs
 @@ "TmacIcsFilter" :> TmacIcsFilter
 @@ "CsiControl" :> CsiControl
 @@ "CsiFilter" :> CsiFilter
 @@ "CsiInputTrace" :> CsiInputTrace
 @@ "TxPowerInfo" :> TxPowerInfo
 @@ "NoiseAverage" :> NoiseAverage
 @@ "RddStop" :> RddStop
 @@ "RttCapability" :> RttCapability
 @@ "TxpowerRegister" :> TxpowerRegister
 @@ "Mt7925PhyCompare" :> Mt7925PhyCompare
 @@ "SnifferTrace" :> SnifferTrace
 @@ "UniDispatch" :> UniDispatch
 @@ "SpatialReuse" :> SpatialReuse
 @@ "LegacySpatialReuse" :> LegacySpatialReuse
 @@ "EdccaQuery" :> EdccaQuery
 @@ "SrRmac" :> SrRmac
 @@ "BandTimeout" :> BandTimeout
 @@ "EvmCn" :> EvmCn
 @@ "Beamforming" :> Beamforming
 @@ "Subchannel" :> Subchannel
 @@ "MibOwnership" :> MibOwnership
 @@ "Thermal" :> Thermal
 @@ "DiagnosticStats" :> DiagnosticStats
 @@ "LinkQuality" :> LinkQuality
 @@ "StationTestmode" :> StationTestmode
 @@ "RxStatQuery" :> RxStatQuery
 @@ "IpiProbe" :> IpiProbe
 @@ "IpiHist" :> IpiHist
 @@ "IpiCompact" :> IpiCompact
 @@ "IpiRegister" :> IpiRegister
 @@ "UniMib" :> UniMib
 @@ "MibSweep" :> MibSweep
 @@ "McuCommand" :> McuCommand
 @@ "McuStats" :> McuStats
 @@ "MibCharacterize" :> MibCharacterize
 @@ "NoiseHist7925" :> NoiseHist7925
 @@ "NoiseEvent" :> NoiseEvent
 @@ "LegacyNoiseHist" :> LegacyNoiseHist
 @@ "LegacyRxStats" :> LegacyRxStats
 @@ "PhyStats" :> PhyStats
 @@ "CfoCrosscheck" :> CfoCrosscheck
 @@ "SignalFieldCrosscheck" :> SignalFieldCrosscheck
 @@ "RddReceive" :> RddReceive
 @@ "LegacyRddState" :> LegacyRddState
 @@ "RxVector" :> RxVector
 @@ "SingleRadio" :> SingleRadio
 @@ "DataFrame" :> DataFrame
 @@ "TxAirtime" :> TxAirtime
 @@ "TxPowerOffset" :> TxPowerOffset
 @@ "MacFcsBatch" :> MacFcsBatch
 @@ "EvmCnStimulus" :> EvmCnStimulus
 @@ "WidebandSignal" :> WidebandSignal
 @@ "HeDcmSpatial" :> HeDcmSpatial
 @@ "NormalPhyCounter" :> NormalPhyCounter
 @@ "WidthError" :> WidthError
 @@ "ErrorFrame" :> ErrorFrame
 @@ "ControlFrame" :> ControlFrame
 @@ "RddStimulus" :> RddStimulus
 @@ "NoiseSelfTx" :> NoiseSelfTx
 @@ "LegacyPrxv2" :> LegacyPrxv2
 @@ "LegacyRxvControl" :> LegacyRxvControl
 @@ "RxvLog" :> RxvLog
 @@ "TestmodeReceiver" :> TestmodeReceiver
 @@ "TestmodeTx" :> TestmodeTx
 @@ "PhyTx" :> PhyTx
 @@ "ChannelGeometry" :> ChannelGeometry
 @@ "Mt7925Tx" :> Mt7925Tx
 @@ "TxPower" :> TxPower
 @@ "DualRadio" :> DualRadio
 @@ "ClockRetune" :> ClockRetune
 @@ "DeliveryEvidence" :> DeliveryEvidence
 @@ "HardwareSmoke" :> HardwareSmoke
 @@ "FirmwareBoot" :> FirmwareBoot
 @@ "RetuneDrops" :> RetuneDrops
 @@ "Scan" :> Scan
 @@ "SniffToPcap" :> SniffToPcap
 @@ "RoamWatch" :> RoamWatch
 @@ "WidthProbe" :> WidthProbe
 @@ "InjectDemo" :> InjectDemo

(* The one program that puts a setting back with no reload after.           *)
MCNoReload == "RxVector" :> RxVector
=============
